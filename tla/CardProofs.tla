----------------------------- MODULE CardProofs -----------------------------
(***************************************************************************)
(* Proofs about what a power loss leaves on the SD card.  Storage, for any  *)
(* set of Faults: of every unsynced mark the card keeps the old or the new  *)
(* state, so what must hold of the card after a power cut is an invariant  *)
(* of all marks in card \cup seen.  LibraryScan, for any number of          *)
(* scanners, systems, scans, changes of the card and power losses: the list *)
(* the frontend reads is whole, but for what two scanners of one list at    *)
(* once, or a card that was full for a while, did to it, and that only      *)
(* until the next scan that has the list to itself; and each part of it     *)
(* holds exactly what belongs on it, however the aliases of the systems     *)
(* lead to shared directories.                                              *)
(***************************************************************************)
EXTENDS Storage, LibraryScan, FiniteSetTheorems, SequenceTheorems, WellFoundedInduction, TLAPS

\* marks that the card may have after a power cut
Possible == card \cup seen

\* the steps of a boot before and after the mount
Unmounted ==
    pc \in {"inspect", "ext4", "resize", "userdata", "format", "fat", "mount",
            "recovery", "off"}
Mounted ==
    pc \in {"seed", "tree", "commit", "persist", "consume", "flush", "verify", "handoff"}
Booting == Unmounted \/ Mounted

\* A mark is never ahead of what it vouches for.
Backed ==
    /\ "complete" \in Possible =>
          /\ part3 = "target" /\ ext4 = "target" /\ p4 = "vfat"
          /\ {"complete", "verified", "dirs", "ready"} \subseteq card \cap seen
    /\ "ready" \in Possible => "dirs" \in card \cap seen

\* what the initramfs has ensured of the partitions when it is at a step
Prepared ==
    /\ pc \in {"ext4", "resize", "userdata", "format", "fat", "mount"} \/ Mounted =>
          part3 = "target"
    /\ pc \in {"userdata", "format", "fat", "mount"} \/ Mounted => ext4 = "target"
    /\ pc = "format" => p4 = "raw"
    /\ pc \in {"fat", "mount"} \/ Mounted => p4 = "vfat"
    /\ pc = "resize" \/ (pc = "ext4" /\ resize) => "complete" \notin card
    /\ pc = "inspect" => ~resize
    /\ Unmounted => mounted = {}
    /\ Mounted => mounted = Partitions

\* and of the tree
Seeded ==
    /\ pc = "commit" => "dirs" \in card \cap seen
    /\ pc \in {"persist", "consume", "flush", "verify", "handoff"} =>
          {"dirs", "ready"} \subseteq seen
    /\ pc = "handoff" => "verified" \in seen
    /\ pc \in BootSteps /\ fast => "verified" \in seen /\ "verified" \in card

\* Both clean marks are on the card only after a power action that had stopped
\* the programs and recorded both, and until a boot has consumed them.
Consumed ==
    /\ Booting /\ CleanMarks \subseteq Possible => ended \in {"unmounted", "quiesced"}
    /\ pc \in BootSteps /\ fast => ended \in {"unmounted", "quiesced"}
    /\ pc = "flush" => CleanMarks \cap seen = {}
    /\ pc \in {"verify", "handoff", "running", "stop", "record"} => CleanMarks \cap Possible = {}
    /\ pc \in StopSteps \ {"stop", "record"} =>
          /\ ~recorded => CleanMarks \cap Possible = {}
          /\ \A p \in failed : CleanMark(p) \notin Possible

\* A power action that ends well has unmounted whatever was mounted.
Released ==
    /\ pc \in BootSteps \cup {"running", "stop", "record"} => ~recorded /\ failed = {}
    /\ pc \in {"running", "stop", "record", "sync", "umount4", "umount3"} => "p3" \in mounted
    /\ pc \in {"sync", "umount4"} /\ recorded /\ "p4" \in unclean => "p4" \in mounted
    /\ pc \in {"sync", "umount4"} => failed = {}
    /\ pc \in {"umount4", "umount3", "log", "unlog", "final"} => card = seen
    /\ pc = "umount3" /\ recorded /\ failed = {} => "p4" \notin unclean
    /\ pc \in {"log", "unlog"} => ~(recorded /\ failed = {})
    /\ pc = "unlog" => "p4" \notin open
    /\ pc = "final" /\ recorded /\ failed = {} => unclean = {}
    /\ pc \in StopSteps /\ recorded => "complete" \in card \cap seen
    /\ ended = "unmounted" => "complete" \in card \cap seen
    /\ Unmounted /\ ended = "unmounted" => unclean = {}

Inv == TypeOK /\ Backed /\ Prepared /\ Seeded /\ Consumed /\ Released

-----------------------------------------------------------------------------
LEMMA InitInv == Init => Inv
  BY DEF Init, Inv, TypeOK, Marks, Partitions, BootSteps, StopSteps, Prepared,
      Mounted, Unmounted, Released, Backed, Possible, Seeded, Consumed, Booting,
      CleanMarks

LEMMA PowerOnInv == Inv /\ PowerOn => Inv'
  BY ZenonT(40) DEF PowerOn, Goto, disk, Inv, TypeOK, Marks, Partitions, BootSteps, StopSteps,
      Prepared, Mounted, Unmounted, Released, Backed, Possible, Seeded, Consumed,
      Booting, CleanMarks, CleanMark

LEMMA PowerCutInv == Inv /\ PowerCut => Inv'
  BY DEF PowerCut, Goto, EndedNow, disk, boot, power, BootSteps, StopSteps, Inv,
      TypeOK, Marks, Partitions, Prepared, Mounted, Unmounted, Released, Backed,
      Possible, Seeded, Consumed, Booting, CleanMarks, CleanMark

LEMMA SwitchOffInv == Inv /\ SwitchOff => Inv'
  BY DEF SwitchOff, Goto, disk, boot, power, Inv, TypeOK, Marks, Partitions,
      BootSteps, StopSteps, Prepared, Mounted, Unmounted, Released, Backed, Possible,
      Seeded, Consumed, Booting, CleanMarks, CleanMark

LEMMA AcceptFastInv == Inv /\ AcceptFast => Inv'
  BY DEF AcceptFast, Goto, FastMarks, disk, power, CleanMarks, Inv, TypeOK, Marks,
      Partitions, BootSteps, StopSteps, Prepared, Mounted, Unmounted, Released,
      Backed, Possible, Seeded, Consumed, Booting, CleanMark

LEMMA RejectFastInv == Inv /\ RejectFast => Inv'
  BY DEF RejectFast, Goto, disk, boot, power, Inv, TypeOK, Marks, Partitions,
      BootSteps, StopSteps, Prepared, Mounted, Unmounted, Released, Backed, Possible,
      Seeded, Consumed, Booting, CleanMarks, CleanMark

LEMMA InspectFailsInv == Inv /\ InspectFails => Inv'
  BY DEF InspectFails, Recover, disk, boot, power, Inv, TypeOK, Marks, Partitions,
      BootSteps, StopSteps, Prepared, Mounted, Unmounted, Released, Backed, Possible,
      Seeded, Consumed, Booting, CleanMarks, CleanMark

LEMMA GrowPartitionInv == Inv /\ GrowPartition => Inv'
  BY DEF GrowPartition, Goto, power, Inv, TypeOK, Marks, Partitions, BootSteps,
      StopSteps, Prepared, Mounted, Unmounted, Released, Backed, Possible, Seeded,
      Consumed, Booting, CleanMarks, CleanMark

LEMMA GrowFailsInv == Inv /\ GrowFails => Inv'
  BY DEF GrowFails, Recover, disk, boot, power, Inv, TypeOK, Marks, Partitions,
      BootSteps, StopSteps, Prepared, Mounted, Unmounted, Released, Backed, Possible,
      Seeded, Consumed, Booting, CleanMarks, CleanMark

LEMMA CheckExt4Inv == Inv /\ CheckExt4 => Inv'
<1> SUFFICES ASSUME Inv, CheckExt4 PROVE Inv'
  OBVIOUS
<1>1. TypeOK'
  <2>1. card' \subseteq Marks("p3") \cup Marks("p4")
    BY DEF CheckExt4, Goto, disk, power, Inv, TypeOK, Marks, Partitions, BootSteps,
        StopSteps, Prepared, Mounted, Unmounted, Released
  <2>2. seen' \subseteq Marks("p3") \cup Marks("p4")
    BY DEF CheckExt4, Goto, disk, power, Inv, TypeOK, Marks, Partitions, BootSteps,
        StopSteps, Prepared, Mounted, Unmounted, Released
  <2>3. mounted' \subseteq Partitions /\ unclean' \subseteq Partitions /\ failed' \subseteq Partitions
    BY DEF CheckExt4, Goto, disk, power, Inv, TypeOK, Marks, Partitions, BootSteps,
        StopSteps, Prepared, Mounted, Unmounted, Released
  <2>4. open' \subseteq mounted'
    BY DEF CheckExt4, Goto, disk, power, Inv, TypeOK, Marks, Partitions, BootSteps,
        StopSteps, Prepared, Mounted, Unmounted, Released
  <2>5. mounted' = {} => card' = seen'
    BY DEF CheckExt4, Goto, disk, power, Inv, TypeOK, Marks, Partitions, BootSteps,
        StopSteps, Prepared, Mounted, Unmounted, Released
  <2>6. pc' \in BootSteps \cup StopSteps \cup {"off", "running", "recovery"}
    BY DEF CheckExt4, Goto, disk, power, Inv, TypeOK, Marks, Partitions, BootSteps,
        StopSteps, Prepared, Mounted, Unmounted, Released
  <2>7. prov' \in BOOLEAN /\ resize' \in BOOLEAN
    BY DEF CheckExt4, Inv, TypeOK
  <2> QED
    BY <2>1, <2>2, <2>3, <2>4, <2>5, <2>6, <2>7 DEF CheckExt4, disk, power, Inv, TypeOK
<1>2. Backed'
  BY DEF CheckExt4, Goto, disk, power, Inv, TypeOK, Backed, Possible, Prepared,
      Seeded, Mounted, Marks, Partitions
<1>3. Prepared'
  BY DEF CheckExt4, Goto, disk, power, Inv, TypeOK, Partitions, Prepared, Mounted,
      Unmounted, Backed, Possible
<1>4. Seeded'
  BY DEF CheckExt4, Goto, disk, power, Inv, TypeOK, Seeded, BootSteps, Backed,
      Possible, Prepared, Mounted
<1>5. Consumed'
  BY DEF CheckExt4, Goto, disk, power, Inv, TypeOK, Consumed, Booting, Mounted,
      Unmounted, Possible, BootSteps, StopSteps, CleanMarks, CleanMark, Released,
      Seeded, Prepared
<1>6. Released'
  BY DEF CheckExt4, Goto, disk, power, Inv, TypeOK, Released, Backed, Possible,
      BootSteps, StopSteps, Unmounted, Prepared, Partitions
<1> QED
  BY <1>1, <1>2, <1>3, <1>4, <1>5, <1>6 DEF Inv

LEMMA ResizeExt4Inv == Inv /\ ResizeExt4 => Inv'
  BY DEF ResizeExt4, Goto, boot, power, Inv, TypeOK, Marks, Partitions, BootSteps,
      StopSteps, Prepared, Mounted, Unmounted, Released, Backed, Possible, Seeded,
      Consumed, Booting, CleanMarks, CleanMark

LEMMA CreateUserdataInv == Inv /\ CreateUserdata => Inv'
<1> SUFFICES ASSUME Inv, CreateUserdata PROVE Inv'
  OBVIOUS
<1>1. TypeOK'
  BY ZenonT(40) DEF CreateUserdata, Goto, power, Inv, TypeOK, Marks, Partitions, BootSteps,
      StopSteps, Prepared, Mounted, Unmounted, Released
<1>2. Backed'
  BY DEF CreateUserdata, Goto, power, Inv, TypeOK, Backed, Possible, Prepared, Seeded,
      Mounted, Marks, Partitions
<1>3. Prepared'
  BY DEF CreateUserdata, Goto, power, Inv, TypeOK, Partitions, Prepared, Mounted,
      Unmounted, Backed, Possible
<1>4. Seeded'
  BY DEF CreateUserdata, Goto, power, Inv, TypeOK, Seeded, BootSteps, Backed,
      Possible, Prepared, Mounted
<1>5. Consumed'
  BY DEF CreateUserdata, Goto, power, Inv, TypeOK, Consumed, Booting, Mounted,
      Unmounted, Possible, BootSteps, StopSteps, CleanMarks, CleanMark, Released,
      Seeded, Prepared
<1>6. Released'
  BY DEF CreateUserdata, Goto, power, Inv, TypeOK, Released, Backed, Possible,
      BootSteps, StopSteps, Unmounted, Prepared, Partitions
<1> QED
  BY <1>1, <1>2, <1>3, <1>4, <1>5, <1>6 DEF Inv

LEMMA FormatUserdataInv == Inv /\ FormatUserdata => Inv'
  BY DEF FormatUserdata, Goto, boot, power, Inv, TypeOK, Marks, Partitions, BootSteps,
      StopSteps, Prepared, Mounted, Unmounted, Released, Backed, Possible, Seeded,
      Consumed, Booting, CleanMarks, CleanMark

LEMMA StepFailsInv == Inv /\ StepFails => Inv'
  BY DEF StepFails, Recover, disk, boot, power, Inv, TypeOK, Marks, Partitions,
      BootSteps, StopSteps, Prepared, Mounted, Unmounted, Released, Backed, Possible,
      Seeded, Consumed, Booting, CleanMarks, CleanMark

LEMMA CheckFatInv == Inv /\ CheckFat => Inv'
  BY DEF CheckFat, Goto, disk, boot, power, Inv, TypeOK, Marks, Partitions, BootSteps,
      StopSteps, Prepared, Mounted, Unmounted, Released, Backed, Possible, Seeded,
      Consumed, Booting, CleanMarks, CleanMark

LEMMA CheckFailsInv == Inv /\ CheckFails => Inv'
  BY DEF CheckFails, Recover, disk, boot, power, Inv, TypeOK, Marks, Partitions,
      BootSteps, StopSteps, Prepared, Mounted, Unmounted, Released, Backed, Possible,
      Seeded, Consumed, Booting, CleanMarks, CleanMark

LEMMA MountRuntimeInv == Inv /\ MountRuntime => Inv'
  BY DEF MountRuntime, Goto, Partitions, disk, power, Inv, TypeOK, Marks, BootSteps,
      StopSteps, Prepared, Mounted, Unmounted, Released, Backed, Possible, Seeded,
      Consumed, Booting, CleanMarks, CleanMark

LEMMA SeedBeginInv == Inv /\ SeedBegin => Inv'
  BY DEF SeedBegin, Goto, Write, disk, boot, power, Inv, TypeOK, Marks, Partitions,
      BootSteps, StopSteps, Prepared, Mounted, Unmounted, Released, Backed, Possible,
      Seeded, Consumed, Booting, CleanMarks, CleanMark

LEMMA SeedTreeInv == Inv /\ SeedTree => Inv'
  BY DEF SeedTree, Goto, disk, boot, power, Inv, TypeOK, Marks, Partitions, BootSteps,
      StopSteps, Prepared, Mounted, Unmounted, Released, Backed, Possible, Seeded,
      Consumed, Booting, CleanMarks, CleanMark

LEMMA SeedCommitInv == Inv /\ SeedCommit => Inv'
  BY DEF SeedCommit, Goto, Write, disk, boot, power, Inv, TypeOK, Marks, Partitions,
      BootSteps, StopSteps, Prepared, Mounted, Unmounted, Released, Backed, Possible,
      Seeded, Consumed, Booting, CleanMarks, CleanMark

LEMMA SeedPersistInv == Inv /\ SeedPersist => Inv'
  BY DEF SeedPersist, Goto, Sync, disk, boot, power, Inv, TypeOK, Marks, Partitions,
      BootSteps, StopSteps, Prepared, Mounted, Unmounted, Released, Backed, Possible,
      Seeded, Consumed, Booting, CleanMarks, CleanMark

LEMMA ConsumeMarksInv == Inv /\ ConsumeMarks => Inv'
  BY DEF ConsumeMarks, Goto, Write, CleanMarks, disk, boot, power, Inv, TypeOK, Marks,
      Partitions, BootSteps, StopSteps, Prepared, Mounted, Unmounted, Released,
      Backed, Possible, Seeded, Consumed, Booting, CleanMark

LEMMA FlushMarksInv == Inv /\ FlushMarks => Inv'
  BY DEF FlushMarks, Goto, Sync, disk, boot, power, Inv, TypeOK, Marks, Partitions,
      BootSteps, StopSteps, Prepared, Mounted, Unmounted, Released, Backed, Possible,
      Seeded, Consumed, Booting, CleanMarks, CleanMark

LEMMA VerifySystemInv == Inv /\ VerifySystem => Inv'
  BY DEF VerifySystem, Goto, disk, boot, power, Inv, TypeOK, Marks, Partitions,
      BootSteps, StopSteps, Prepared, Mounted, Unmounted, Released, Backed, Possible,
      Seeded, Consumed, Booting, CleanMarks, CleanMark

LEMMA HandoffInv == Inv /\ Handoff => Inv'
  BY DEF Handoff, Goto, disk, boot, power, Inv, TypeOK, Marks, Partitions, BootSteps,
      StopSteps, Prepared, Mounted, Unmounted, Released, Backed, Possible, Seeded,
      Consumed, Booting, CleanMarks, CleanMark

LEMMA ExportUserdataInv == Inv /\ ExportUserdata => Inv'
  BY DEF ExportUserdata, Partitions, disk, boot, power, Inv, TypeOK, Marks, BootSteps,
      StopSteps, Prepared, Mounted, Unmounted, Released, Backed, Possible, Seeded,
      Consumed, Booting, CleanMarks, CleanMark

LEMMA ReturnUserdataInv == Inv /\ ReturnUserdata => Inv'
  BY DEF ReturnUserdata, Partitions, disk, boot, power, Inv, TypeOK, Marks, BootSteps,
      StopSteps, Prepared, Mounted, Unmounted, Released, Backed, Possible, Seeded,
      Consumed, Booting, CleanMarks, CleanMark

LEMMA PowerActionInv == Inv /\ PowerAction => Inv'
  BY DEF PowerAction, Goto, disk, boot, power, Inv, TypeOK, Marks, Partitions,
      BootSteps, StopSteps, Prepared, Mounted, Unmounted, Released, Backed, Possible,
      Seeded, Consumed, Booting, CleanMarks, CleanMark

LEMMA StopUsersInv == Inv /\ StopUsers => Inv'
  BY DEF StopUsers, Goto, Users, disk, boot, power, Inv, TypeOK, Marks, Partitions,
      BootSteps, StopSteps, Prepared, Mounted, Unmounted, Released, Backed, Possible,
      Seeded, Consumed, Booting, CleanMarks, CleanMark

LEMMA RecordCleanInv == Inv /\ RecordClean => Inv'
<1> SUFFICES ASSUME Inv, RecordClean PROVE Inv'
  OBVIOUS
<1>1. TypeOK'
  <2>1. card' \subseteq Marks("p3") \cup Marks("p4")
    BY DEF RecordClean, Goto, Write, Exported, CleanMarks, disk, boot, StopSteps, Inv,
        TypeOK, Marks, Partitions, BootSteps, Prepared, Mounted, Unmounted, Released
  <2>2. seen' \subseteq Marks("p3") \cup Marks("p4")
    BY DEF RecordClean, Goto, Write, Exported, CleanMarks, disk, boot, StopSteps, Inv,
        TypeOK, Marks, Partitions, BootSteps, Prepared, Mounted, Unmounted, Released
  <2>3. mounted' \subseteq Partitions /\ unclean' \subseteq Partitions /\ failed' \subseteq Partitions
    BY DEF RecordClean, Goto, Write, Exported, CleanMarks, disk, boot, StopSteps, Inv,
        TypeOK, Marks, Partitions, BootSteps, Prepared, Mounted, Unmounted, Released
  <2>4. open' \subseteq mounted'
    BY DEF RecordClean, Goto, Write, Exported, CleanMarks, disk, boot, StopSteps, Inv,
        TypeOK, Marks, Partitions, BootSteps, Prepared, Mounted, Unmounted, Released
  <2>5. mounted' = {} => card' = seen'
    BY DEF RecordClean, Goto, Write, Exported, CleanMarks, disk, boot, StopSteps, Inv,
        TypeOK, Marks, Partitions, BootSteps, Prepared, Mounted, Unmounted, Released
  <2>6. pc' \in BootSteps \cup StopSteps \cup {"off", "running", "recovery"}
    BY DEF RecordClean, Goto, Write, Exported, CleanMarks, disk, boot, StopSteps, Inv,
        TypeOK, Marks, Partitions, BootSteps, Prepared, Mounted, Unmounted, Released
  <2>7. recorded' \in BOOLEAN
    BY DEF RecordClean, Inv, TypeOK
  <2> QED
    BY <2>1, <2>2, <2>3, <2>4, <2>5, <2>6, <2>7 DEF RecordClean, disk, boot, Inv, TypeOK
<1>2. Backed'
  BY DEF RecordClean, Goto, Write, Exported, CleanMarks, disk, boot, StopSteps, Inv,
      TypeOK, Backed, Possible, Prepared, Seeded, Mounted, Marks, Partitions
<1>3. Prepared'
  BY DEF RecordClean, Goto, Write, Exported, CleanMarks, disk, boot, StopSteps, Inv,
      TypeOK, Partitions, Prepared, Mounted, Unmounted, Backed, Possible
<1>4. Seeded'
  BY DEF RecordClean, Goto, Write, Exported, CleanMarks, disk, boot, StopSteps, Inv,
      TypeOK, Seeded, BootSteps, Backed, Possible, Prepared, Mounted
<1>5. Consumed'
  BY DEF RecordClean, Goto, Write, Exported, CleanMarks, disk, boot, StopSteps, Inv,
      TypeOK, Consumed, Booting, Mounted, Unmounted, Possible, BootSteps, CleanMark,
      Released, Seeded, Prepared
<1>6. Released'
  <2>1. pc = "record" /\ pc' = "sync" /\ ~recorded /\ failed' = {} /\ ended' = ended
        /\ UNCHANGED <<mounted, unclean>>
    BY DEF RecordClean, Goto, boot, Inv, Released
  <2>2. ASSUME recorded'
        PROVE  "complete" \in card' \cap seen' /\ ("p4" \in unclean => "p4" \in mounted)
    <3>1. "complete" \in seen /\ ~Exported /\ Write(seen \cup CleanMarks)
      BY <2>1, <2>2 DEF RecordClean
    <3> QED
      BY <2>1, <3>1 DEF Write, Exported, StopSteps, Inv, Backed, Possible
  <2>3. ended = "unmounted" => "complete" \in card' \cap seen'
    BY DEF RecordClean, Write, Inv, Released
  <2> QED
    BY <2>1, <2>2, <2>3 DEF Released, Inv, Unmounted, StopSteps, BootSteps
<1> QED
  BY <1>1, <1>2, <1>3, <1>4, <1>5, <1>6 DEF Inv

LEMMA SyncMarksInv == Inv /\ SyncMarks => Inv'
  BY DEF SyncMarks, Goto, Sync, disk, boot, power, Inv, TypeOK, Marks, Partitions,
      BootSteps, StopSteps, Prepared, Mounted, Unmounted, Released, Backed, Possible,
      Seeded, Consumed, Booting, CleanMarks, CleanMark

\* the programs that hold a partition open hold a mounted one
LEMMA UsersOpen == \A m : \A o \in Users(m) : o \subseteq m
  BY DEF Users

LEMMA UnmountUserInv == Inv /\ UnmountUser => Inv'
<1> SUFFICES ASSUME Inv, UnmountUser PROVE Inv'
  OBVIOUS
<1>1. TypeOK'
  <2>1. card' \subseteq Marks("p3") \cup Marks("p4")
    BY DEF UnmountUser, Goto, Unmount, disk, boot, Users, CleanMark, Marks, Inv, TypeOK,
        Partitions, BootSteps, StopSteps, Prepared, Mounted, Unmounted, Released
  <2>2. seen' \subseteq Marks("p3") \cup Marks("p4")
    BY DEF UnmountUser, Goto, Unmount, disk, boot, Users, CleanMark, Marks, Inv, TypeOK,
        Partitions, BootSteps, StopSteps, Prepared, Mounted, Unmounted, Released
  <2>3. mounted' \subseteq Partitions /\ unclean' \subseteq Partitions /\ failed' \subseteq Partitions
    BY DEF UnmountUser, Goto, Unmount, disk, boot, Users, CleanMark, Marks, Inv, TypeOK,
        Partitions, BootSteps, StopSteps, Prepared, Mounted, Unmounted, Released
  <2>4. open' \subseteq mounted'
    <3>1. CASE "p4" \notin mounted
      BY <3>1 DEF UnmountUser, Unmount, Inv, TypeOK
    <3>2. CASE "p4" \in mounted
      BY <3>2, UsersOpen DEF UnmountUser, Unmount, Inv, TypeOK
    <3> QED
      BY <3>1, <3>2
  <2>5. mounted' = {} => card' = seen'
    BY DEF UnmountUser, Goto, Unmount, disk, boot, Users, CleanMark, Marks, Inv, TypeOK,
        Partitions, BootSteps, StopSteps, Prepared, Mounted, Unmounted, Released
  <2>6. pc' \in BootSteps \cup StopSteps \cup {"off", "running", "recovery"}
    BY DEF UnmountUser, Goto, Unmount, disk, boot, Users, CleanMark, Marks, Inv, TypeOK,
        Partitions, BootSteps, StopSteps, Prepared, Mounted, Unmounted, Released
  <2> QED
    BY <2>1, <2>2, <2>3, <2>4, <2>5, <2>6
    DEF UnmountUser, Goto, Unmount, disk, boot, Users, CleanMark, Marks, Inv, TypeOK
<1>2. Backed'
  BY DEF UnmountUser, Goto, Unmount, disk, boot, Users, CleanMark, Marks, Inv, TypeOK,
      Backed, Possible, Prepared, Seeded, Mounted, Partitions
<1>3. Prepared'
  BY DEF UnmountUser, Goto, Unmount, disk, boot, Users, CleanMark, Marks, Inv, TypeOK,
      Partitions, Prepared, Mounted, Unmounted, Backed, Possible
<1>4. Seeded'
  BY DEF UnmountUser, Goto, Unmount, disk, boot, Users, CleanMark, Marks, Inv, TypeOK,
      Seeded, BootSteps, Backed, Possible, Prepared, Mounted
<1>5. Consumed'
  BY DEF UnmountUser, Goto, Unmount, disk, boot, Users, CleanMark, Marks, Inv, TypeOK,
      Consumed, Booting, Mounted, Unmounted, Possible, BootSteps, StopSteps,
      CleanMarks, Released, Seeded, Prepared
<1>6. Released'
  BY DEF UnmountUser, Goto, Unmount, disk, boot, Users, CleanMark, Marks, Inv, TypeOK,
      Released, Backed, Possible, BootSteps, StopSteps, Unmounted, Prepared,
      Partitions
<1> QED
  BY <1>1, <1>2, <1>3, <1>4, <1>5, <1>6 DEF Inv

LEMMA UnmountSystemInv == Inv /\ UnmountSystem => Inv'
<1> SUFFICES ASSUME Inv, UnmountSystem PROVE Inv'
  OBVIOUS
<1>1. TypeOK'
  <2>1. card' \subseteq Marks("p3") \cup Marks("p4")
    BY DEF UnmountSystem, Goto, Unmount, disk, boot, Users, CleanMark, Marks, Inv,
        TypeOK, Partitions, BootSteps, StopSteps, Prepared, Mounted, Unmounted, Released
  <2>2. seen' \subseteq Marks("p3") \cup Marks("p4")
    BY DEF UnmountSystem, Goto, Unmount, disk, boot, Users, CleanMark, Marks, Inv,
        TypeOK, Partitions, BootSteps, StopSteps, Prepared, Mounted, Unmounted, Released
  <2>3. mounted' \subseteq Partitions /\ unclean' \subseteq Partitions /\ failed' \subseteq Partitions
    BY DEF UnmountSystem, Goto, Unmount, disk, boot, Users, CleanMark, Marks, Inv,
        TypeOK, Partitions, BootSteps, StopSteps, Prepared, Mounted, Unmounted, Released
  <2>4. open' \subseteq mounted'
    <3>1. CASE "p3" \notin mounted
      BY <3>1 DEF UnmountSystem, Unmount, Inv, TypeOK
    <3>2. CASE "p3" \in mounted
      BY <3>2, UsersOpen DEF UnmountSystem, Unmount, Inv, TypeOK
    <3> QED
      BY <3>1, <3>2
  <2>5. mounted' = {} => card' = seen'
    BY DEF UnmountSystem, Goto, Unmount, disk, boot, Users, CleanMark, Marks, Inv,
        TypeOK, Partitions, BootSteps, StopSteps, Prepared, Mounted, Unmounted, Released
  <2>6. pc' \in BootSteps \cup StopSteps \cup {"off", "running", "recovery"}
    BY DEF UnmountSystem, Goto, Unmount, disk, boot, Users, CleanMark, Marks, Inv,
        TypeOK, Partitions, BootSteps, StopSteps, Prepared, Mounted, Unmounted, Released
  <2> QED
    BY <2>1, <2>2, <2>3, <2>4, <2>5, <2>6
    DEF UnmountSystem, Goto, Unmount, disk, boot, Users, CleanMark, Marks, Inv, TypeOK
<1>2. Backed'
  BY DEF UnmountSystem, Goto, Unmount, disk, boot, Users, CleanMark, Marks, Inv,
      TypeOK, Backed, Possible, Prepared, Seeded, Mounted, Partitions
<1>3. Prepared'
  BY DEF UnmountSystem, Goto, Unmount, disk, boot, Users, CleanMark, Marks, Inv,
      TypeOK, Partitions, Prepared, Mounted, Unmounted, Backed, Possible
<1>4. Seeded'
  BY DEF UnmountSystem, Goto, Unmount, disk, boot, Users, CleanMark, Marks, Inv,
      TypeOK, Seeded, BootSteps, Backed, Possible, Prepared, Mounted
<1>5. Consumed'
  BY DEF UnmountSystem, Goto, Unmount, disk, boot, Users, CleanMark, Marks, Inv,
      TypeOK, Consumed, Booting, Mounted, Unmounted, Possible, BootSteps, StopSteps,
      CleanMarks, Released, Seeded, Prepared
<1>6. Released'
  <2>1. pc = "umount3" /\ card = seen /\ "p3" \in mounted /\ unclean \subseteq Partitions
    BY DEF UnmountSystem, Inv, TypeOK, Released
  <2>2. pc' = (IF recorded /\ failed' = {} THEN "final" ELSE "log") /\ recorded' = recorded
        /\ ended' = ended
    BY DEF UnmountSystem, Goto
  <2>3. card' = seen'
    BY <2>1 DEF UnmountSystem, Unmount
  <2>4. "complete" \in card \cap seen => "complete" \in card' \cap seen'
    BY <2>1 DEF UnmountSystem, Unmount, CleanMark
  <2>5. recorded /\ failed' = {} => unclean' = {}
    BY <2>1 DEF UnmountSystem, Unmount, Inv, Released, Partitions
  <2> QED
    BY <2>1, <2>2, <2>3, <2>4, <2>5 DEF Released, Inv, Unmounted, StopSteps, BootSteps
<1> QED
  BY <1>1, <1>2, <1>3, <1>4, <1>5, <1>6 DEF Inv

LEMMA LogFinalInv == Inv /\ LogFinal => Inv'
<1> SUFFICES ASSUME Inv, LogFinal PROVE Inv'
  OBVIOUS
<1>1. TypeOK'
  <2>1. card' \subseteq Marks("p3") \cup Marks("p4")
    BY DEF LogFinal, Goto, Exported, disk, boot, power, StopSteps, Inv, TypeOK, Marks,
        Partitions, BootSteps, Prepared, Mounted, Unmounted, Released
  <2>2. seen' \subseteq Marks("p3") \cup Marks("p4")
    BY DEF LogFinal, Goto, Exported, disk, boot, power, StopSteps, Inv, TypeOK, Marks,
        Partitions, BootSteps, Prepared, Mounted, Unmounted, Released
  <2>3. mounted' \subseteq Partitions /\ unclean' \subseteq Partitions /\ failed' \subseteq Partitions
    BY DEF LogFinal, Goto, Exported, disk, boot, power, StopSteps, Inv, TypeOK, Marks,
        Partitions, BootSteps, Prepared, Mounted, Unmounted, Released
  <2>4. open' \subseteq mounted'
    BY DEF LogFinal, Goto, Exported, disk, boot, power, StopSteps, Inv, TypeOK, Marks,
        Partitions, BootSteps, Prepared, Mounted, Unmounted, Released
  <2>5. mounted' = {} => card' = seen'
    BY DEF LogFinal, Goto, Exported, disk, boot, power, StopSteps, Inv, TypeOK, Marks,
        Partitions, BootSteps, Prepared, Mounted, Unmounted, Released
  <2>6. pc' \in BootSteps \cup StopSteps \cup {"off", "running", "recovery"}
    BY DEF LogFinal, Goto, Exported, disk, boot, power, StopSteps, Inv, TypeOK, Marks,
        Partitions, BootSteps, Prepared, Mounted, Unmounted, Released
  <2> QED
    BY <2>1, <2>2, <2>3, <2>4, <2>5, <2>6
    DEF LogFinal, Goto, Exported, disk, boot, power, StopSteps, Inv, TypeOK
<1>2. Backed'
  BY DEF LogFinal, Goto, Exported, disk, boot, power, StopSteps, Inv, TypeOK, Backed,
      Possible, Prepared, Seeded, Mounted, Marks, Partitions
<1>3. Prepared'
  BY DEF LogFinal, Goto, Exported, disk, boot, power, StopSteps, Inv, TypeOK,
      Partitions, Prepared, Mounted, Unmounted, Backed, Possible
<1>4. Seeded'
  BY DEF LogFinal, Goto, Exported, disk, boot, power, StopSteps, Inv, TypeOK, Seeded,
      BootSteps, Backed, Possible, Prepared, Mounted
<1>5. Consumed'
  BY DEF LogFinal, Goto, Exported, disk, boot, power, StopSteps, Inv, TypeOK,
      Consumed, Booting, Mounted, Unmounted, Possible, BootSteps, CleanMarks,
      CleanMark, Released, Seeded, Prepared
<1>6. Released'
  BY DEF LogFinal, Goto, Exported, disk, boot, power, StopSteps, Inv, TypeOK,
      Released, Backed, Possible, BootSteps, Unmounted, Prepared, Partitions
<1> QED
  BY <1>1, <1>2, <1>3, <1>4, <1>5, <1>6 DEF Inv

LEMMA LogUnmountInv == Inv /\ LogUnmount => Inv'
  BY DEF LogUnmount, Goto, disk, boot, power, Inv, TypeOK, Marks, Partitions,
      BootSteps, StopSteps, Prepared, Mounted, Unmounted, Released, Backed, Possible,
      Seeded, Consumed, Booting, CleanMarks, CleanMark

LEMMA FinalActionInv == Inv /\ FinalAction => Inv'
  BY DEF FinalAction, Goto, Sync, disk, boot, power, Inv, TypeOK, Marks, Partitions,
      BootSteps, StopSteps, Prepared, Mounted, Unmounted, Released, Backed, Possible,
      Seeded, Consumed, Booting, CleanMarks, CleanMark

LEMMA StutterInv == Inv /\ UNCHANGED vars => Inv'
  BY DEF vars, disk, boot, power, Inv, TypeOK, Backed, Possible, Prepared, Mounted,
      Unmounted, Seeded, Consumed, Booting, Released

LEMMA NextInv == Inv /\ [Next]_vars => Inv'
<1> SUFFICES ASSUME Inv, [Next]_vars PROVE Inv'
  OBVIOUS
<1>1. CASE PowerOn \/ PowerCut \/ SwitchOff
  BY <1>1, PowerOnInv, PowerCutInv, SwitchOffInv
<1>2. CASE BootStep
  BY <1>2, AcceptFastInv, RejectFastInv, InspectFailsInv, GrowPartitionInv,
     GrowFailsInv, CheckExt4Inv, ResizeExt4Inv, CreateUserdataInv,
     FormatUserdataInv, StepFailsInv, CheckFatInv, CheckFailsInv, MountRuntimeInv,
     SeedBeginInv, SeedTreeInv, SeedCommitInv, SeedPersistInv, ConsumeMarksInv,
     FlushMarksInv, VerifySystemInv, HandoffInv DEF BootStep
<1>3. CASE ExportUserdata \/ ReturnUserdata \/ PowerAction
  BY <1>3, ExportUserdataInv, ReturnUserdataInv, PowerActionInv
<1>4. CASE StopStep
  BY <1>4, StopUsersInv, RecordCleanInv, SyncMarksInv, UnmountUserInv, UnmountSystemInv,
     LogFinalInv, LogUnmountInv, FinalActionInv DEF StopStep
<1>5. CASE UNCHANGED vars
  BY <1>5, StutterInv
<1> QED
  BY <1>1, <1>2, <1>3, <1>4, <1>5 DEF Next

LEMMA SpecInv == Spec => []Inv
<1>1. Init => Inv
  BY InitInv
<1>2. Inv /\ [Next]_vars => Inv'
  BY NextInv
<1> QED
  BY <1>1, <1>2, PTL DEF Spec

\* The types of the partitions and marks, and that an unmounted card has no
\* unsynced mark.
THEOREM TypesCorrect == Spec => []TypeOK
<1>1. Inv => TypeOK
  BY DEF Inv
<1> QED
  BY <1>1, SpecInv, PTL

\* provision/complete and .plumos-ready are on the card only with all that they
\* vouch for, at whatever step power was cut.
THEOREM MarksNeverLie == Spec => []MarksTrue
<1>1. Inv => MarksTrue
  BY DEF Inv, Backed, Possible, MarksTrue
<1> QED
  BY <1>1, SpecInv, PTL

\* A fast boot follows only a power action that had stopped the programs.
THEOREM CrashesAreChecked == Spec => []CrashedSessionChecked
<1>1. Inv => CrashedSessionChecked
  BY DEF Inv, Consumed, CrashedSessionChecked
<1> QED
  BY <1>1, SpecInv, PTL

\* After an undisturbed power action the fast boot skips no check that is due.
THEOREM SkippedChecksAreClean == Spec => []FastBootClean
<1>1. Inv => FastBootClean
  BY DEF Inv, Released, Unmounted, FastBootClean
<1> QED
  BY <1>1, SpecInv, PTL

\* No step formats or overlaps a fourth partition that has a file system.
THEOREM UserdataSafe == Spec => UserdataKept
<1>1. Inv /\ [Next]_vars =>
        [(p4 \in {"vfat", "foreign"}) => p4' = p4 /\ part3' = part3]_vars
  <2> SUFFICES ASSUME Inv, Next, p4 \in {"vfat", "foreign"}
               PROVE  p4' = p4 /\ part3' = part3
    OBVIOUS
  <2>1. CASE BootStep
    BY <2>1
    DEF BootStep, AcceptFast, RejectFast, InspectFails, GrowPartition, GrowFails,
        CheckExt4, ResizeExt4, CreateUserdata, FormatUserdata, StepFails, CheckFat,
        CheckFails, MountRuntime, SeedBegin, SeedTree, SeedCommit, SeedPersist,
        ConsumeMarks, FlushMarks, VerifySystem, Handoff, disk, Inv, Prepared
  <2>2. CASE StopStep
    BY <2>2
    DEF StopStep, StopUsers, RecordClean, SyncMarks, UnmountUser, UnmountSystem,
        LogFinal, LogUnmount, FinalAction, disk
  <2> QED
    BY <2>1, <2>2 DEF Next, PowerOn, PowerCut, SwitchOff, ExportUserdata,
           ReturnUserdata, PowerAction, disk
<1> QED
  BY <1>1, SpecInv, PTL DEF Spec, UserdataKept

-----------------------------------------------------------------------------
(* The lists of the library.                                                *)

Mine(o) == {i \in Inodes : i[1] = o}
Fields == DOMAIN Idle

\* An inode is only ever entered under the names of the output it was made for.
Types ==
    /\ DOMAIN scanner = Scanners
    /\ \A p \in Scanners :
          /\ DOMAIN scanner[p] = Fields
          /\ scanner[p].pc \in Pcs /\ scanner[p].out \in Outputs /\ scanner[p].lost \in BOOLEAN
    /\ Len(runs) \in Nat /\ DOMAIN runs = 1 .. Len(runs) /\ \E S : runs \in Seq(S)
    /\ \A r \in 1 .. Len(runs) : DOMAIN runs[r] = DOMAIN NoRun
    /\ names \in [FileNames -> Inodes \cup {None}] /\ durable \in [FileNames -> Inodes \cup {None}]
    /\ \A o \in Outputs : \A n \in {Tmp(o), List(o)} : {names[n], durable[n]} \subseteq Mine(o) \cup {None}
    /\ data \in [Inodes -> [1 .. 2 -> Nat]]
    /\ synced \subseteq Inodes /\ full \in BOOLEAN
    /\ acked \in [Outputs -> Nat]

\* What a scanner has open at each of its steps.
Handle(p) ==
    LET sc == scanner[p]
    IN  /\ sc.pc \notin {"write", "sync"} => sc.fd = None /\ ~sc.lost
        /\ sc.pc \in {"write", "sync"} => sc.fd \in Mine(sc.out)
        /\ sc.pc = "write" => sc.chunk \in {1, 2}
Handles == mixed \subseteq damaged /\ \A p \in Scanners : Handle(p)

\* One scanner at a time per output that is not mixed; its run is newer than the
\* acknowledged one.
Writers ==
    /\ \A p, q \in Scanners : Active(p) /\ Active(q) =>
          /\ scanner[p].run = scanner[q].run => p = q
          /\ scanner[p].out = scanner[q].out /\ scanner[p].out \notin mixed => p = q
    /\ \A p \in Scanners : Active(p) =>
          /\ scanner[p].run \in 1 .. Len(runs) /\ runs[scanner[p].run].out = scanner[p].out
          /\ scanner[p].out \notin mixed => acked[scanner[p].out] < scanner[p].run
    /\ \A o \in Outputs : acked[o] <= Len(runs)

\* How far the temporary file of a scanner that has it to itself is, at each step.
WrittenBy(p) ==
    LET sc == scanner[p]
        tmp == names[TmpName(p)]
    IN  /\ sc.pc \in {"write", "sync", "rename"} => tmp # None
        /\ sc.pc \in {"write", "sync"} => sc.fd = tmp
        /\ sc.pc = "write" => /\ sc.chunk = 1 => ~sc.lost
                              /\ sc.chunk = 2 /\ ~sc.lost => data[sc.fd][1] = sc.run
        /\ sc.pc = "sync" /\ ~sc.lost => WholeBy(sc.fd, sc.run)
        /\ sc.pc = "rename" => tmp \in synced /\ WholeBy(tmp, sc.run)
        /\ sc.pc = "dirsync" => /\ names[List(sc.out)] # None /\ names[List(sc.out)] \in synced
                                /\ WholeBy(names[List(sc.out)], sc.run)
        /\ sc.lost => full
Unmixed(p) == scanner[p].out \notin mixed => WrittenBy(p)
Written == \A p \in Scanners : Unmixed(p)

\* What a list's entry, present or after a power loss, leads to.
Kept(i, o) ==
    /\ i # None => /\ i \in synced
                   /\ \E r \in 1 .. Len(runs) : runs[r].out = o /\ WholeBy(i, r) /\ acked[o] <= r
    /\ acked[o] # 0 => i # None

\* No temporary file that may be truncated is a list.
Apart(o) ==
    /\ names[Tmp(o)] # None => names[Tmp(o)] \notin {names[List(o)], durable[List(o)]}
    /\ durable[Tmp(o)] # None => durable[Tmp(o)] # durable[List(o)]
ListOk(o) ==
    /\ o \notin damaged => Kept(names[List(o)], o) /\ Kept(durable[List(o)], o)
    /\ Apart(o)
Lists == \A o \in Outputs : ListOk(o)

ScanInv == Types /\ Handles /\ Writers /\ Written /\ Lists

-----------------------------------------------------------------------------
(* What the proofs need of names, inodes and records.                         *)

LEMMA Shape ==
    /\ Fields = {"pc", "out", "thumbs", "todo", "dirs", "roms", "run", "fd", "chunk", "lost"}
    /\ DOMAIN NoRun = {"out", "thumbs", "roms", "changed"}
BY DEF Fields, Idle, NoRun

LEMMA NamesAreApart ==
    /\ \A o \in Outputs : Tmp(o) \in FileNames /\ List(o) \in FileNames
    /\ \A o, u : Tmp(o) # List(u) /\ (Tmp(o) = Tmp(u) => o = u) /\ (List(o) = List(u) => o = u)
    /\ \A o : Tmp(o)[1] = o /\ List(o)[1] = o
    /\ \A n \in FileNames : \E o \in Outputs : n \in {Tmp(o), List(o)}
BY DEF FileNames, Tmp, List

LEMMA InodesAreApart ==
    /\ None \notin Inodes
    /\ \A o : Mine(o) \subseteq Inodes
    /\ \A o, u, i : i \in Mine(o) /\ i \in Mine(u) => o = u
BY DEF None, Inodes, Mine

\* A pair of chunks is known by its chunks.
LEMMA TwoChunks ==
    ASSUME NEW f \in [1 .. 2 -> Nat], NEW r
    PROVE  (f = <<r, r>>) <=> (f[1] = r /\ f[2] = r)
<1>1. \A g : g \in [1 .. 2 -> Nat] => g = [k \in 1 .. 2 |-> g[k]]
    OBVIOUS
<1>2. ASSUME f[1] = r, f[2] = r PROVE f = <<r, r>>
    <2>1. f = [k \in 1 .. 2 |-> r]
        BY <1>2
    <2>2. <<r, r>> = [k \in 1 .. 2 |-> r]
        OBVIOUS
    <2> QED BY <2>1, <2>2
<1> QED BY <1>2

LEMMA OneElementMore ==
    ASSUME NEW S, NEW x, IsFiniteSet(S)
    PROVE  /\ IsFiniteSet(S \cup {x}) /\ Cardinality(S \cup {x}) \in Nat
           /\ Cardinality(S \cup {x}) <= Cardinality(S) + 1
<1>1. Cardinality(S) \in Nat
    BY FS_CardinalityType
<1>2. /\ IsFiniteSet(S \cup {x})
      /\ Cardinality(S \cup {x}) = IF x \in S THEN Cardinality(S) ELSE Cardinality(S) + 1
    BY FS_AddElement
<1> QED BY <1>1, <1>2

\* The inode that fopen takes is free: an output holds at most three others and
\* what its scanners have open.
LEMMA FreshInode ==
    ASSUME Types, Handles, NEW o \in Outputs, names[Tmp(o)] = None
    PROVE  FreeInode(o) \in Mine(o) /\ FreeInode(o) \notin InUse
<1> DEFINE entries == {names[List(o)], durable[Tmp(o)], durable[List(o)]}
           handles == {scanner[p].fd : p \in Scanners}
           used == entries \cup handles
           n == 4 + Cardinality(Scanners)
<1>1. \A i \in InUse : i \in Mine(o) => i \in used
    <2>1. \A m \in FileNames : names[m] \in Mine(o) => names[m] \in entries
        <3> SUFFICES ASSUME NEW m \in FileNames, names[m] \in Mine(o) PROVE names[m] \in entries
            OBVIOUS
        <3>1. PICK u \in Outputs : m \in {Tmp(u), List(u)}
            BY NamesAreApart
        <3>2. names[m] \in Mine(u) \cup {None}
            BY <3>1 DEF Types
        <3>3. u = o
            BY <3>2, InodesAreApart
        <3> QED BY <3>1, <3>3, InodesAreApart
    <2>2. \A m \in FileNames : durable[m] \in Mine(o) => durable[m] \in entries
        <3> SUFFICES ASSUME NEW m \in FileNames, durable[m] \in Mine(o) PROVE durable[m] \in entries
            OBVIOUS
        <3>1. PICK u \in Outputs : m \in {Tmp(u), List(u)}
            BY NamesAreApart
        <3>2. durable[m] \in Mine(u) \cup {None}
            BY <3>1 DEF Types
        <3>3. u = o
            BY <3>2, InodesAreApart
        <3> QED BY <3>1, <3>3, InodesAreApart
    <2> QED BY <2>1, <2>2 DEF InUse
<1>2. IsFiniteSet(used) /\ Cardinality(Scanners) \in Nat /\ Cardinality(used) < n
    <2>1. IsFiniteSet(handles) /\ Cardinality(handles) <= Cardinality(Scanners)
          /\ Cardinality(handles) \in Nat /\ Cardinality(Scanners) \in Nat
        <3>1. [p \in Scanners |-> scanner[p].fd] \in Surjection(Scanners, handles)
            BY DEF Surjection
        <3>2. IsFiniteSet(handles) /\ Cardinality(handles) <= Cardinality(Scanners)
            BY <3>1, ScannersAssumption, FS_Surjection
        <3> QED BY <3>2, ScannersAssumption, FS_CardinalityType
    <2> HIDE DEF handles
    <2> DEFINE one == handles \cup {names[List(o)]}
               two == one \cup {durable[Tmp(o)]}
    <2>2. IsFiniteSet(one) /\ Cardinality(one) \in Nat /\ Cardinality(one) <= Cardinality(handles) + 1
        BY <2>1, OneElementMore
    <2> HIDE DEF one
    <2>3. IsFiniteSet(two) /\ Cardinality(two) \in Nat /\ Cardinality(two) <= Cardinality(one) + 1
        BY <2>2, OneElementMore
    <2> HIDE DEF two
    <2>4. used = two \cup {durable[List(o)]}
        BY DEF two, one
    <2>5. IsFiniteSet(used) /\ Cardinality(used) \in Nat /\ Cardinality(used) <= Cardinality(two) + 1
        BY <2>3, <2>4, OneElementMore
    <2> HIDE DEF used
    <2> QED BY <2>1, <2>2, <2>3, <2>5
<1> HIDE DEF entries, handles, used
<1>3. \A k \in 1 .. n : <<o, k>> \in Mine(o)
    BY <1>2 DEF Mine, Inodes
<1>4. \E k \in 1 .. n : <<o, k>> \notin used
    <2> SUFFICES ASSUME \A k \in 1 .. n : <<o, k>> \in used PROVE FALSE
        OBVIOUS
    <2>1. IsFiniteSet(1 .. n) /\ Cardinality(1 .. n) = n
        BY <1>2, FS_Interval
    <2> DEFINE f == [k \in 1 .. n |-> <<o, k>>]
    <2> HIDE DEF n
    <2>2. f \in [1 .. n -> used] /\ \A k \in 1 .. n : f[k] = <<o, k>>
        OBVIOUS
    <2> HIDE DEF f
    <2>3. Cardinality(used) < Cardinality(1 .. n)
        BY <1>2, <2>1
    <2>4. PICK K : K = 1 .. n
        OBVIOUS
    <2>5. IsFiniteSet(K) /\ IsFiniteSet(used) /\ Cardinality(used) < Cardinality(K) /\ f \in [K -> used]
        BY <1>2, <2>1, <2>2, <2>3, <2>4
    <2>6. \E x, y \in K : x # y /\ f[x] = f[y]
        BY <2>5, FS_PigeonHole
    <2> QED BY <2>2, <2>4, <2>6
<1>5. \E i \in Mine(o) : i \notin InUse
    BY <1>1, <1>3, <1>4, Zenon
<1> QED BY <1>5 DEF FreeInode, Mine

-----------------------------------------------------------------------------
(* What a step of one scanner leaves to the others.                           *)

\* The step changes no other output's files than those of o.
Touches(o) ==
    /\ \A u \in Outputs \ {o} : \A n \in {Tmp(u), List(u)} : names'[n] = names[n]
    /\ \A i \in Inodes \ Mine(o) : data'[i] = data[i] /\ (i \in synced' <=> i \in synced)
    /\ runs' = runs /\ full' = full

\* The step is one of p, which keeps its output and its run until it ends.
Moves(p) ==
    /\ DOMAIN scanner' = Scanners
    /\ \A q \in Scanners \ {p} : scanner'[q] = scanner[q]
    /\ DOMAIN scanner'[p] = Fields /\ scanner'[p].out \in Outputs /\ scanner'[p].pc \in Pcs
    /\ scanner'[p].lost \in BOOLEAN
    /\ scanner'[p].pc # "idle" =>
          scanner'[p].out = scanner[p].out /\ scanner'[p].run = scanner[p].run

LEMMA OthersKeep ==
    ASSUME Types, Handles, Writers, Written, NEW p \in Scanners, Active(p), Touches(scanner[p].out),
           mixed' = mixed, NEW q \in Scanners \ {p}, scanner'[q] = scanner[q]
    PROVE  Unmixed(q)'
<1> DEFINE u == scanner[q].out
           o == scanner[p].out
<1> SUFFICES ASSUME u \notin mixed PROVE WrittenBy(q)'
    BY DEF Unmixed
<1>1. CASE scanner[q].pc = "idle"
    BY <1>1 DEF Handles, Handle, WrittenBy, TmpName
<1>2. CASE scanner[q].pc # "idle"
    <2>1. u # o /\ u \in Outputs /\ o \in Outputs
        BY <1>2 DEF Writers, Active, Types
    <2>2. names'[Tmp(u)] = names[Tmp(u)] /\ names'[List(u)] = names[List(u)]
        BY <2>1 DEF Touches
    <2>3. \A i \in Mine(u) : data'[i] = data[i] /\ (i \in synced' <=> i \in synced)
        BY <2>1, InodesAreApart DEF Touches
    <2>4. names[Tmp(u)] \in Mine(u) \cup {None} /\ names[List(u)] \in Mine(u) \cup {None}
        BY <2>1 DEF Types
    <2>5. full' = full
        BY DEF Touches
    <2>6. TmpName(q) = Tmp(u) /\ TmpName(q)' = Tmp(u)
        BY DEF TmpName
    <2>7. WrittenBy(q)
        BY DEF Written, Unmixed
    <2> HIDE DEF u
    <2>8. scanner[q].out = u
        BY DEF u
    <2> QED BY <2>2, <2>3, <2>4, <2>5, <2>6, <2>7, <2>8 DEF WrittenBy, WholeBy
<1> QED BY <1>1, <1>2

LEMMA HandlesKeep ==
    ASSUME Handles, NEW p \in Scanners, \A q \in Scanners \ {p} : scanner'[q] = scanner[q],
           Handle(p)', mixed' \subseteq damaged'
    PROVE  Handles'
<1>1. ASSUME NEW q \in Scanners \ {p} PROVE Handle(q)'
    BY DEF Handles, Handle
<1> QED BY <1>1 DEF Handles

LEMMA WritersKeep ==
    ASSUME Types, Writers, NEW p \in Scanners, Active(p), Moves(p),
           Len(runs') = Len(runs), \A r \in 1 .. Len(runs) : runs'[r].out = runs[r].out,
           mixed' = mixed, \A u \in Outputs : acked'[u] = acked[u]
    PROVE  Writers'
<1>1. \A q \in Scanners : Active(q)' =>
          Active(q) /\ scanner'[q].out = scanner[q].out /\ scanner'[q].run = scanner[q].run
    BY DEF Active, Moves
<1>2. \A q \in Scanners : scanner[q].out \in Outputs
    BY DEF Types
<1> QED BY <1>1, <1>2 DEF Writers

LEMMA OtherLists ==
    ASSUME Types, Lists, NEW o \in Outputs, Touches(o), NEW u \in Outputs \ {o}, u \in damaged => u \in damaged',
           \A n \in {Tmp(u), List(u)} : durable'[n] = durable[n], acked'[u] = acked[u]
    PROVE  ListOk(u)'
<1>1. names'[Tmp(u)] = names[Tmp(u)] /\ names'[List(u)] = names[List(u)]
      /\ durable'[Tmp(u)] = durable[Tmp(u)] /\ durable'[List(u)] = durable[List(u)]
    BY DEF Touches
<1>2. names[List(u)] \in Mine(u) \cup {None} /\ durable[List(u)] \in Mine(u) \cup {None}
    BY DEF Types
<1>3. \A i \in Mine(u) : data'[i] = data[i] /\ (i \in synced' <=> i \in synced)
    BY InodesAreApart DEF Touches
<1>4. \A i \in Mine(u) \cup {None} : Kept(i, u) => Kept(i, u)'
    BY <1>3 DEF Kept, WholeBy, Touches
<1>5. ASSUME u \notin damaged' PROVE Kept(names[List(u)], u) /\ Kept(durable[List(u)], u)
    BY <1>5 DEF Lists, ListOk
<1>6. u \notin damaged' => Kept(names[List(u)], u)'
    BY <1>1, <1>2, <1>4, <1>5, ZenonT(30) DEF Kept
<1>7. u \notin damaged' => Kept(durable[List(u)], u)'
    BY <1>1, <1>2, <1>4, <1>5, ZenonT(30) DEF Kept
<1>8. Apart(u)'
    BY <1>1 DEF Lists, ListOk, Apart
<1> QED BY <1>6, <1>7, <1>8 DEF ListOk

\* Runs may be added or filled in: they keep their output.
LEMMA ListsStay ==
    ASSUME Types, Lists, UNCHANGED <<names, durable, data, synced, acked>>, damaged \subseteq damaged',
           Len(runs') \in Nat, Len(runs) <= Len(runs'),
           \A r \in 1 .. Len(runs) : runs'[r].out = runs[r].out
    PROVE  Lists'
<1>1. ASSUME NEW i, NEW o, Kept(i, o) PROVE Kept(i, o)'
    BY <1>1 DEF Kept, WholeBy, Types
<1>2. ASSUME NEW o \in Outputs PROVE ListOk(o)'
    <2>1. ListOk(o)
        BY DEF Lists
    <2> QED BY <1>1, <2>1 DEF ListOk, Apart
<1> QED BY <1>2 DEF Lists

LEMMA ListsStand ==
    ASSUME ScanInv, UNCHANGED <<names, durable, data, synced, acked, runs, damaged>>
    PROVE  Lists'
<1>1. Types /\ Lists
    BY DEF ScanInv
<1>2. Len(runs') \in Nat /\ Len(runs) <= Len(runs')
    BY <1>1 DEF Types
<1>3. \A r \in 1 .. Len(runs) : runs'[r].out = runs[r].out
    OBVIOUS
<1> QED BY <1>1, <1>2, <1>3, ListsStay

-----------------------------------------------------------------------------
(* The steps that leave the lists on the card alone.                          *)

LEMMA FunctionIsSeq ==
    ASSUME NEW S, NEW n \in Nat, NEW s \in [1 .. n -> S] PROVE s \in Seq(S) /\ Len(s) = n
OBVIOUS

\* Where no inode changes, how far the temporary files are does not either.
LEMMA WrittenStays ==
    ASSUME Written, UNCHANGED <<names, data, synced>>, NEW p \in Scanners, scanner'[p] = scanner[p],
           scanner[p].out \notin mixed' => scanner[p].out \notin mixed /\ (scanner[p].lost => full')
    PROVE  Unmixed(p)'
<1> SUFFICES ASSUME scanner[p].out \notin mixed' PROVE WrittenBy(p)'
    BY DEF Unmixed
<1>1. WrittenBy(p)
    BY DEF Written, Unmixed
<1>2. TmpName(p)' = TmpName(p)
    BY DEF TmpName
<1> QED BY <1>1, <1>2 DEF WrittenBy, WholeBy

\* A scanner between its start and its first write has nothing on the card.
LEMMA NothingWritten ==
    ASSUME NEW p \in Scanners, scanner'[p].pc \in {"idle", "scan", "open"},
           scanner'[p].fd = None, ~scanner'[p].lost
    PROVE  Unmixed(p)' /\ Handle(p)'
BY DEF Unmixed, WrittenBy, Handle

LEMMA TypesStay ==
    ASSUME Types, NEW p \in Scanners, Moves(p), runs' = runs, UNCHANGED <<names, durable, data, synced, full, acked>>
    PROVE  Types'
<1>1. \A q \in Scanners : scanner'[q].pc \in Pcs /\ scanner'[q].out \in Outputs /\ scanner'[q].lost \in BOOLEAN
                          /\ DOMAIN scanner'[q] = Fields
    BY DEF Types, Moves
<1>2. DOMAIN scanner' = Scanners
    BY DEF Moves
<1> QED BY <1>1, <1>2 DEF Types

LEMMA StartInv ==
    ASSUME ScanInv, NEW p \in Scanners, NEW o \in Outputs, NEW t \in BOOLEAN, Start(p, o, t)
    PROVE  ScanInv'
<1> DEFINE run == [NoRun EXCEPT !.out = o, !.thumbs = t]
<1>1. /\ scanner[p].pc = "idle" /\ runs' = Append(runs, run)
      /\ scanner' = [scanner EXCEPT ![p] = [Idle EXCEPT !.pc = "scan", !.out = o, !.thumbs = t,
                                                        !.todo = Work(o), !.run = Len(runs) + 1]]
      /\ UNCHANGED <<names, durable, data, synced, full, acked>>
      /\ damaged \subseteq damaged' /\ mixed' \subseteq damaged' /\ mixed' \subseteq mixed \cup {o}
      /\ mixed \subseteq mixed' \cup {o}
      /\ o \notin mixed' => \A q \in Scanners : Active(q) => scanner[q].out # o
    BY DEF Start, AtWork, Active, Disk, ScanInv, Handles
<1>2. /\ scanner'[p].pc = "scan" /\ scanner'[p].out = o /\ scanner'[p].run = Len(runs) + 1
      /\ scanner'[p].fd = None /\ scanner'[p].lost = FALSE /\ DOMAIN scanner'[p] = Fields
      /\ \A q \in Scanners \ {p} : scanner'[q] = scanner[q]
      /\ DOMAIN scanner' = Scanners
    BY <1>1 DEF ScanInv, Types, Idle, Fields
<1>3. run.out = o /\ DOMAIN run = DOMAIN NoRun
    BY DEF NoRun
<1> HIDE DEF run
<1>4. /\ Len(runs') = Len(runs) + 1 /\ DOMAIN runs' = 1 .. Len(runs') /\ (\E S : runs' \in Seq(S))
      /\ \A r \in 1 .. Len(runs) : runs'[r] = runs[r]
      /\ runs'[Len(runs) + 1] = run
    <2>1. PICK S : runs \in Seq(S)
        BY DEF ScanInv, Types
    <2>2. runs \in Seq(S \cup {run}) /\ run \in S \cup {run}
        BY <2>1
    <2> QED BY <1>1, <2>2, AppendProperties
<1>5. Types'
    <2>1. \A q \in Scanners : scanner'[q].pc \in Pcs /\ scanner'[q].out \in Outputs /\ scanner'[q].lost \in BOOLEAN
                              /\ DOMAIN scanner'[q] = Fields
        BY <1>2 DEF ScanInv, Types, Pcs
    <2>2. \A r \in 1 .. Len(runs') : DOMAIN runs'[r] = DOMAIN NoRun
        BY <1>3, <1>4 DEF ScanInv, Types
    <2> QED BY <1>1, <1>2, <1>4, <2>1, <2>2 DEF ScanInv, Types
<1>6. Writers'
    <2>1. \A q \in Scanners : Active(q)' =>
            \/ q = p
            \/ /\ q # p /\ Active(q) /\ scanner'[q] = scanner[q]
               /\ scanner[q].out \notin mixed' => scanner[q].out # o /\ scanner[q].out \notin mixed
        BY <1>1, <1>2 DEF Active
    <2>2. ASSUME NEW q \in Scanners, NEW u \in Scanners, Active(q)', Active(u)'
          PROVE  /\ scanner'[q].run = scanner'[u].run => q = u
                 /\ scanner'[q].out = scanner'[u].out /\ scanner'[q].out \notin mixed' => q = u
        <3>1. Len(runs) \in Nat /\ \A v \in Scanners : Active(v) => scanner[v].run \in 1 .. Len(runs)
            BY DEF ScanInv, Types, Writers
        <3> QED BY <1>2, <2>1, <2>2, <3>1 DEF ScanInv, Writers
    <2>3. \A q \in Scanners : Active(q)' =>
             /\ scanner'[q].run \in 1 .. Len(runs') /\ runs'[scanner'[q].run].out = scanner'[q].out
             /\ scanner'[q].out \notin mixed' => acked'[scanner'[q].out] < scanner'[q].run
        <3> SUFFICES ASSUME NEW q \in Scanners, Active(q)'
                     PROVE  /\ scanner'[q].run \in 1 .. Len(runs') /\ runs'[scanner'[q].run].out = scanner'[q].out
                            /\ scanner'[q].out \notin mixed' => acked'[scanner'[q].out] < scanner'[q].run
            OBVIOUS
        <3>1. CASE q = p
            BY <1>1, <1>2, <1>3, <1>4, <3>1 DEF ScanInv, Types, Writers
        <3>2. CASE q # p
            BY <1>1, <1>4, <2>1, <3>2 DEF ScanInv, Types, Writers
        <3> QED BY <3>1, <3>2
    <2>4. \A u \in Outputs : acked'[u] <= Len(runs')
        BY <1>1, <1>4 DEF ScanInv, Types, Writers
    <2> QED BY <2>2, <2>3, <2>4 DEF Writers
<1>7. Written'
    <2>1. Unmixed(p)'
        BY <1>2, NothingWritten
    <2>2. \A q \in Scanners \ {p} : Unmixed(q)'
        <3> SUFFICES ASSUME NEW q \in Scanners \ {p} PROVE Unmixed(q)'
            OBVIOUS
        <3>1. CASE scanner[q].pc = "idle"
            BY <1>2, <3>1, NothingWritten DEF ScanInv, Handles, Handle
        <3>2. CASE scanner[q].pc # "idle" /\ scanner[q].out \notin mixed'
            <4>1. scanner[q].out \notin mixed
                BY <1>1, <3>2 DEF Active
            <4>2. scanner[q].lost => full'
                BY <1>1, <4>1 DEF ScanInv, Written, Unmixed, WrittenBy
            <4> QED BY <1>1, <1>2, <4>1, <4>2, WrittenStays DEF ScanInv
        <3>3. CASE scanner[q].out \in mixed'
            BY <1>2, <3>3 DEF Unmixed
        <3> QED BY <3>1, <3>2, <3>3
    <2> QED BY <2>1, <2>2 DEF Written
<1>8. Lists'
    BY <1>1, <1>4, ListsStay DEF ScanInv, Types
<1>9. Handles'
    BY <1>1, <1>2, NothingWritten, HandlesKeep DEF ScanInv
<1> QED BY <1>5, <1>6, <1>7, <1>8, <1>9 DEF ScanInv

LEMMA ScanAliasInv ==
    ASSUME ScanInv, NEW p \in Scanners, ScanAlias(p) PROVE ScanInv'
<1>1. /\ scanner[p].pc = "scan" /\ runs' = runs
      /\ scanner' = [scanner EXCEPT ![p] = AfterAlias(p)]
      /\ UNCHANGED <<names, durable, data, synced, full, acked, mixed, damaged>>
    BY DEF ScanAlias, Disk, History
<1>2. /\ AfterAlias(p).pc = scanner[p].pc /\ AfterAlias(p).out = scanner[p].out
      /\ AfterAlias(p).run = scanner[p].run /\ AfterAlias(p).fd = scanner[p].fd
      /\ AfterAlias(p).lost = scanner[p].lost /\ DOMAIN AfterAlias(p) = Fields
    <2>1. DOMAIN scanner[p] = Fields
        BY DEF ScanInv, Types
    <2>2. PICK t, d, r : AfterAlias(p) \in {[scanner[p] EXCEPT !.todo = t],
                                            [[scanner[p] EXCEPT !.todo = t] EXCEPT !.dirs = d, !.roms = r]}
        BY Zenon DEF AfterAlias
    <2> QED BY <2>1, <2>2, Shape
<1>3. Moves(p) /\ scanner'[p].pc = "scan" /\ scanner'[p].fd = None /\ ~scanner'[p].lost
    BY <1>1, <1>2 DEF Moves, ScanInv, Types, Handles, Handle
<1>4. Types'
    BY <1>1, <1>3, TypesStay DEF ScanInv
<1>5. Writers'
    BY <1>1, <1>3, WritersKeep DEF ScanInv, Active
<1>6. Written'
    <2>1. \A q \in Scanners \ {p} : Unmixed(q)'
        BY <1>1, <1>3, WrittenStays DEF ScanInv, Moves, Written, Unmixed, WrittenBy
    <2> QED BY <1>3, <2>1, NothingWritten DEF Written
<1>7. Lists'
    BY <1>1, ListsStand
<1>8. Handles'
    BY <1>1, <1>3, NothingWritten, HandlesKeep DEF ScanInv, Moves, Handles
<1> QED BY <1>4, <1>5, <1>6, <1>7, <1>8 DEF ScanInv

LEMMA SortedInv ==
    ASSUME ScanInv, NEW p \in Scanners, Sorted(p) PROVE ScanInv'
<1> DEFINE k == scanner[p].run
           run == [runs[k] EXCEPT !.roms = scanner[p].roms]
<1>1. /\ scanner[p].pc = "scan" /\ runs' = [runs EXCEPT ![k] = run]
      /\ scanner' = [scanner EXCEPT ![p] = [scanner[p] EXCEPT !.pc = "open", !.roms = {}, !.dirs = {}]]
      /\ UNCHANGED <<names, durable, data, synced, full, acked, mixed, damaged>>
    BY DEF Sorted, Disk, History
<1>2. k \in 1 .. Len(runs)
    BY <1>1 DEF ScanInv, Writers, Active
<1>3. run.out = runs[k].out /\ DOMAIN run = DOMAIN NoRun
    BY <1>2 DEF ScanInv, Types, NoRun
<1> HIDE DEF run, k
<1>4. /\ Len(runs') = Len(runs) /\ DOMAIN runs' = 1 .. Len(runs') /\ (\E S : runs' \in Seq(S))
      /\ \A r \in 1 .. Len(runs) : runs'[r].out = runs[r].out /\ DOMAIN runs'[r] = DOMAIN NoRun
    <2>1. PICK S : runs \in Seq(S)
        BY DEF ScanInv, Types
    <2>2. runs \in Seq(S \cup {run}) /\ run \in S \cup {run}
        BY <2>1
    <2>3. /\ runs' \in Seq(S \cup {run}) /\ Len(runs') = Len(runs)
          /\ \A r \in 1 .. Len(runs) : runs'[r] = IF r = k THEN run ELSE runs[r]
        BY <1>1, <1>2, <2>2, ExceptSeq
    <2>4. \A r \in 1 .. Len(runs) : DOMAIN runs[r] = DOMAIN NoRun
        BY DEF ScanInv, Types
    <2>5. \A r \in 1 .. Len(runs) : runs'[r].out = runs[r].out /\ DOMAIN runs'[r] = DOMAIN NoRun
        BY <1>3, <2>3, <2>4
    <2>6. DOMAIN runs' = 1 .. Len(runs') /\ \E U : runs' \in Seq(U)
        BY <2>3
    <2> QED BY <2>3, <2>5, <2>6
<1>5. Moves(p) /\ scanner'[p].pc = "open" /\ scanner'[p].fd = None /\ ~scanner'[p].lost
    <2>1. DOMAIN scanner[p] = Fields
        BY DEF ScanInv, Types
    <2>2. /\ scanner'[p].pc = "open" /\ scanner'[p].out = scanner[p].out /\ scanner'[p].run = scanner[p].run
          /\ scanner'[p].fd = scanner[p].fd /\ scanner'[p].lost = scanner[p].lost /\ DOMAIN scanner'[p] = Fields
        BY <1>1, <2>1, Shape DEF ScanInv, Types
    <2> QED BY <1>1, <2>2 DEF Moves, ScanInv, Types, Handles, Handle, Pcs
<1>6. Types'
    <2>1. \A q \in Scanners : scanner'[q].pc \in Pcs /\ scanner'[q].out \in Outputs /\ scanner'[q].lost \in BOOLEAN
                              /\ DOMAIN scanner'[q] = Fields
        BY <1>5 DEF ScanInv, Types, Moves
    <2> QED BY <1>1, <1>4, <1>5, <2>1 DEF ScanInv, Types, Moves
<1>7. Writers'
    BY <1>1, <1>4, <1>5, WritersKeep DEF ScanInv, Active
<1>8. Written'
    <2>1. \A q \in Scanners \ {p} : Unmixed(q)'
        BY <1>1, <1>5, WrittenStays DEF ScanInv, Moves, Written, Unmixed, WrittenBy
    <2> QED BY <1>5, <2>1, NothingWritten DEF Written
<1>9. Lists'
    BY <1>1, <1>4, ListsStay DEF ScanInv, Types
<1>10. Handles'
    BY <1>1, <1>5, NothingWritten, HandlesKeep DEF ScanInv, Moves, Handles
<1> QED BY <1>6, <1>7, <1>8, <1>9, <1>10 DEF ScanInv

-----------------------------------------------------------------------------
(* The steps that write.                                                      *)

\* Work on the temporary file of an output leaves every list as it is.
LEMMA TmpOnly ==
    ASSUME Types, Lists, NEW o \in Outputs, NEW i \in Mine(o),
           i \notin {names[List(o)], durable[List(o)]} \/ o \in damaged,
           \A n \in FileNames \ {Tmp(o)} : names'[n] = names[n],
           \/ names'[Tmp(o)] \in {None, names[Tmp(o)]}
           \/ names'[Tmp(o)] = i /\ i \notin {names[List(o)], durable[List(o)]},
           \A j \in Inodes \ {i} : data'[j] = data[j] /\ (j \in synced' <=> j \in synced),
           UNCHANGED <<durable, acked, runs, full, damaged>>
    PROVE  Touches(o) /\ Lists'
<1>1. Touches(o)
    BY NamesAreApart DEF Touches, Mine
<1>2. \A u \in Outputs \ {o} : ListOk(u)'
    BY <1>1, OtherLists
<1>3. names'[List(o)] = names[List(o)]
    BY NamesAreApart
<1>4. \A j \in {names[List(o)], durable[List(o)]} : j \in Inodes \cup {None}
    BY NamesAreApart DEF Types
<1>5. \A j \in Inodes \cup {None} : j # i /\ Kept(j, o) => Kept(j, o)'
    BY DEF Kept, WholeBy
<1>6. ASSUME o \notin damaged'
      PROVE  /\ Kept(names[List(o)], o) /\ Kept(durable[List(o)], o)
             /\ names[List(o)] # i /\ durable[List(o)] # i
    BY <1>6 DEF Lists, ListOk
<1>7. o \notin damaged' => Kept(names[List(o)], o)'
    BY <1>3, <1>4, <1>5, <1>6, ZenonT(30) DEF Kept
<1>8. o \notin damaged' => Kept(durable[List(o)], o)'
    BY <1>4, <1>5, <1>6, ZenonT(30) DEF Kept
<1>9. Apart(o)'
    BY <1>3 DEF Lists, ListOk, Apart
<1>10. \A u \in Outputs : u = o \/ u \in Outputs \ {o}
    OBVIOUS
<1> QED BY <1>2, <1>1, <1>7, <1>8, <1>9, <1>10, Zenon DEF Lists, ListOk

LEMMA OpenTmpInv ==
    ASSUME ScanInv, NEW p \in Scanners, OpenTmp(p) PROVE ScanInv'
<1>1. PICK o \in Outputs : o = scanner[p].out
    BY DEF ScanInv, Types
<1>2. PICK i : i = IF names[Tmp(o)] = None THEN FreeInode(o) ELSE names[Tmp(o)]
    OBVIOUS
<1>3. /\ scanner[p].pc = "open" /\ names' = [names EXCEPT ![Tmp(o)] = i]
      /\ data' = [data EXCEPT ![i] = <<0, 0>>] /\ synced' = synced \ {i}
      /\ scanner' = [scanner EXCEPT ![p] = [scanner[p] EXCEPT !.pc = "write", !.fd = i, !.chunk = 1]]
      /\ UNCHANGED <<runs, durable, full, acked, mixed, damaged>>
    BY <1>1, <1>2 DEF OpenTmp, TmpName, History
<1>4. i \in Mine(o) /\ i \in Inodes /\ i \notin {names[List(o)], durable[List(o)]}
    <2>1. CASE names[Tmp(o)] = None
        BY <1>2, <2>1, FreshInode, NamesAreApart, InodesAreApart DEF ScanInv, InUse
    <2>2. CASE names[Tmp(o)] # None
        BY <1>2, <2>2, InodesAreApart DEF ScanInv, Types, Lists, ListOk, Apart
    <2> QED BY <2>1, <2>2
<1>5. /\ Moves(p) /\ scanner'[p].pc = "write" /\ scanner'[p].fd = i /\ scanner'[p].chunk = 1
      /\ ~scanner'[p].lost /\ scanner'[p].out = o
    <2>1. DOMAIN scanner[p] = Fields
        BY DEF ScanInv, Types
    <2>2. /\ scanner'[p].pc = "write" /\ scanner'[p].out = scanner[p].out /\ scanner'[p].run = scanner[p].run
          /\ scanner'[p].fd = i /\ scanner'[p].chunk = 1 /\ scanner'[p].lost = scanner[p].lost
          /\ DOMAIN scanner'[p] = Fields
        BY <1>3, <2>1, Shape DEF ScanInv, Types
    <2> QED BY <1>1, <1>3, <2>2 DEF Moves, ScanInv, Types, Handles, Handle, Pcs
<1>6. names'[Tmp(o)] = i /\ \A n \in FileNames \ {Tmp(o)} : names'[n] = names[n]
    BY <1>3, NamesAreApart DEF ScanInv, Types
<1>7. Touches(o) /\ Lists'
    BY <1>3, <1>4, <1>6, TmpOnly DEF ScanInv, Types
<1>8. Types'
    <2>1. \A q \in Scanners : scanner'[q].pc \in Pcs /\ scanner'[q].out \in Outputs /\ scanner'[q].lost \in BOOLEAN
                              /\ DOMAIN scanner'[q] = Fields
        BY <1>5 DEF ScanInv, Types, Moves
    <2>2. names' \in [FileNames -> Inodes \cup {None}]
        BY <1>3, <1>4 DEF ScanInv, Types
    <2>3. \A u \in Outputs : \A n \in {Tmp(u), List(u)} : {names'[n], durable'[n]} \subseteq Mine(u) \cup {None}
        BY <1>3, <1>4, <1>6, NamesAreApart DEF ScanInv, Types
    <2>4. data' \in [Inodes -> [1 .. 2 -> Nat]] /\ synced' \subseteq Inodes
        <3>1. <<0, 0>> \in [1 .. 2 -> Nat]
            OBVIOUS
        <3> QED BY <1>3, <3>1 DEF ScanInv, Types
    <2> QED BY <1>3, <1>5, <2>1, <2>2, <2>3, <2>4 DEF ScanInv, Types, Moves
<1>9. Writers'
    BY <1>3, <1>5, WritersKeep DEF ScanInv, Active
<1>10. Written'
    <2>1. \A q \in Scanners \ {p} : Unmixed(q)'
        BY <1>1, <1>3, <1>5, <1>7, OthersKeep DEF ScanInv, Active, Moves
    <2>2. WrittenBy(p)'
        BY <1>4, <1>5, <1>6, InodesAreApart DEF WrittenBy, TmpName
    <2> QED BY <2>1, <2>2 DEF Written, Unmixed
<1>11. Handles'
    BY <1>3, <1>4, <1>5, HandlesKeep DEF ScanInv, Moves, Handles, Handle
<1> QED BY <1>7, <1>8, <1>9, <1>10, <1>11 DEF ScanInv

LEMMA WriteChunkInv ==
    ASSUME ScanInv, NEW p \in Scanners, WriteChunk(p) PROVE ScanInv'
<1>1. PICK o \in Outputs : o = scanner[p].out
    BY DEF ScanInv, Types
<1>2. PICK i, c, r : i = scanner[p].fd /\ c = scanner[p].chunk /\ r = scanner[p].run
    OBVIOUS
<1>3. /\ scanner[p].pc = "write" /\ data' = IF full THEN data ELSE [data EXCEPT ![i][c] = r]
      /\ synced' = synced \ {i}
      /\ scanner' = [scanner EXCEPT ![p] = [scanner[p] EXCEPT !.chunk = c + 1, !.lost = full,
                                                              !.pc = IF c = 2 THEN "sync" ELSE "write"]]
      /\ UNCHANGED <<runs, names, durable, full, acked, mixed, damaged>>
    BY <1>2 DEF WriteChunk, History
<1>4. o \notin mixed =>
        /\ i = names[Tmp(o)] /\ (c = 1 => ~scanner[p].lost)
        /\ c = 2 /\ ~scanner[p].lost => data[i][1] = r
        /\ scanner[p].lost => full
    BY <1>1, <1>2, <1>3 DEF ScanInv, Written, Unmixed, WrittenBy, TmpName
<1>5. /\ i \in Mine(o) /\ i \in Inodes /\ i # None /\ c \in {1, 2}
      /\ i \notin {names[List(o)], durable[List(o)]} \/ o \in damaged
    <2>1. i \in Mine(o) /\ i \in Inodes /\ i # None /\ c \in {1, 2}
        BY <1>1, <1>2, <1>3, InodesAreApart DEF ScanInv, Handles, Handle
    <2>2. o \notin damaged => i = names[Tmp(o)]
        BY <1>4 DEF ScanInv, Handles
    <2> QED BY <2>1, <2>2 DEF ScanInv, Lists, ListOk, Apart
<1>6. r \in Nat
    BY <1>2, <1>3 DEF ScanInv, Types, Writers, Active
<1>7. /\ Moves(p) /\ scanner'[p].pc = (IF c = 2 THEN "sync" ELSE "write") /\ scanner'[p].fd = i
      /\ scanner'[p].chunk = c + 1 /\ scanner'[p].lost = full /\ scanner'[p].out = o /\ scanner'[p].run = r
    <2>1. DOMAIN scanner[p] = Fields /\ full \in BOOLEAN
        BY DEF ScanInv, Types
    <2>2. /\ scanner'[p].pc = (IF c = 2 THEN "sync" ELSE "write") /\ scanner'[p].out = scanner[p].out
          /\ scanner'[p].run = scanner[p].run /\ scanner'[p].fd = scanner[p].fd /\ scanner'[p].chunk = c + 1
          /\ scanner'[p].lost = full /\ DOMAIN scanner'[p] = Fields
        BY <1>3, <2>1, Shape DEF ScanInv, Types
    <2>3. scanner'[p].pc \in Pcs
        BY <2>2 DEF Pcs
    <2>4. DOMAIN scanner' = Scanners /\ \A q \in Scanners \ {p} : scanner'[q] = scanner[q]
        BY <1>3 DEF ScanInv, Types
    <2> QED BY <1>1, <1>2, <2>1, <2>2, <2>3, <2>4 DEF Moves
<1>8. /\ data' \in [Inodes -> [1 .. 2 -> Nat]] /\ \A j \in Inodes \ {i} : data'[j] = data[j]
      /\ ~full => data'[i] = [data[i] EXCEPT ![c] = r]
    BY <1>3, <1>5, <1>6 DEF ScanInv, Types
<1>9. Touches(o) /\ Lists'
    BY <1>3, <1>5, <1>8, TmpOnly DEF ScanInv, Types
<1>10. Types'
    <2>1. \A q \in Scanners : scanner'[q].pc \in Pcs /\ scanner'[q].out \in Outputs /\ scanner'[q].lost \in BOOLEAN
                              /\ DOMAIN scanner'[q] = Fields
        BY <1>7 DEF ScanInv, Types, Moves
    <2> QED BY <1>3, <1>7, <1>8, <2>1 DEF ScanInv, Types, Moves
<1>11. Writers'
    BY <1>3, <1>7, WritersKeep DEF ScanInv, Active
<1>12. Written'
    <2>1. \A q \in Scanners \ {p} : Unmixed(q)'
        BY <1>1, <1>3, <1>7, <1>9, OthersKeep DEF ScanInv, Active, Moves
    <2>2. ~full => data'[i][c] = r /\ (c = 2 => data'[i][1] = data[i][1]) /\ data'[i] \in [1 .. 2 -> Nat]
        BY <1>5, <1>8 DEF ScanInv, Types
    <2>3. o \notin mixed /\ ~full => ~scanner[p].lost
        BY <1>4
    <2>4. o \notin mixed /\ c = 2 /\ ~full => data'[i] = <<r, r>>
        BY <1>4, <2>2, <2>3, TwoChunks
    <2>5. c = 1 /\ ~full => data'[i][1] = r
        BY <2>2
    <2>6. TmpName(p)' = Tmp(o) /\ names' = names /\ full' = full
        BY <1>3, <1>7 DEF TmpName
    <2>7. o \notin mixed => WrittenBy(p)'
        BY <1>4, <1>5, <1>7, <2>4, <2>5, <2>6 DEF WrittenBy, WholeBy
    <2>8. Unmixed(p)'
        BY <1>3, <1>7, <2>7 DEF Unmixed
    <2> QED BY <2>1, <2>8 DEF Written
<1>13. Handles'
    BY <1>3, <1>5, <1>7, HandlesKeep DEF ScanInv, Moves, Handles, Handle
<1> QED BY <1>9, <1>10, <1>11, <1>12, <1>13 DEF ScanInv

LEMMA SyncInv ==
    ASSUME ScanInv, NEW p \in Scanners, SyncTmp(p) PROVE ScanInv'
<1>1. PICK o \in Outputs : o = scanner[p].out
    BY DEF ScanInv, Types
<1>2. PICK i, r : i = scanner[p].fd /\ r = scanner[p].run
    OBVIOUS
<1>3. /\ scanner[p].pc = "sync" /\ ~scanner[p].lost /\ synced' = synced \cup {i}
      /\ scanner' = [scanner EXCEPT ![p] = [scanner[p] EXCEPT !.pc = "rename", !.fd = None]]
      /\ UNCHANGED <<runs, names, durable, data, full, acked, mixed, damaged>>
    BY <1>2 DEF SyncTmp, History
<1>4. o \notin mixed => i = names[Tmp(o)] /\ WholeBy(i, r)
    BY <1>1, <1>2, <1>3 DEF ScanInv, Written, Unmixed, WrittenBy, TmpName
<1>5. /\ i \in Mine(o) /\ i \in Inodes /\ i # None
      /\ i \notin {names[List(o)], durable[List(o)]} \/ o \in damaged
    <2>1. i \in Mine(o) /\ i \in Inodes /\ i # None
        BY <1>1, <1>2, <1>3, InodesAreApart DEF ScanInv, Handles, Handle
    <2>2. o \notin damaged => i = names[Tmp(o)]
        BY <1>4 DEF ScanInv, Handles
    <2> QED BY <2>1, <2>2 DEF ScanInv, Lists, ListOk, Apart
<1>6. /\ Moves(p) /\ scanner'[p].pc = "rename" /\ scanner'[p].fd = None /\ ~scanner'[p].lost
      /\ scanner'[p].out = o /\ scanner'[p].run = r
    <2>1. DOMAIN scanner[p] = Fields
        BY DEF ScanInv, Types
    <2>2. /\ scanner'[p].pc = "rename" /\ scanner'[p].out = scanner[p].out
          /\ scanner'[p].run = scanner[p].run /\ scanner'[p].fd = None
          /\ scanner'[p].lost = scanner[p].lost /\ DOMAIN scanner'[p] = Fields
        BY <1>3, <2>1, Shape DEF ScanInv, Types
    <2> QED BY <1>1, <1>2, <1>3, <2>2 DEF Moves, ScanInv, Types, Pcs
<1>7. Touches(o) /\ Lists'
    BY <1>3, <1>5, TmpOnly DEF ScanInv, Types
<1>8. Types'
    <2>1. \A q \in Scanners : scanner'[q].pc \in Pcs /\ scanner'[q].out \in Outputs /\ scanner'[q].lost \in BOOLEAN
                              /\ DOMAIN scanner'[q] = Fields
        BY <1>6 DEF ScanInv, Types, Moves
    <2> QED BY <1>3, <1>5, <1>6, <2>1 DEF ScanInv, Types, Moves
<1>9. Writers'
    BY <1>3, <1>6, WritersKeep DEF ScanInv, Active
<1>10. Written'
    <2>1. \A q \in Scanners \ {p} : Unmixed(q)'
        BY <1>1, <1>3, <1>6, <1>7, OthersKeep DEF ScanInv, Active, Moves
    <2>2. TmpName(p)' = Tmp(o)
        BY <1>6 DEF TmpName
    <2>3. o \notin mixed => WrittenBy(p)'
        BY <1>3, <1>4, <1>5, <1>6, <2>2 DEF WrittenBy, WholeBy
    <2>4. Unmixed(p)'
        BY <1>3, <1>6, <2>3 DEF Unmixed
    <2> QED BY <2>1, <2>4 DEF Written
<1>11. Handles'
    BY <1>3, <1>6, HandlesKeep DEF ScanInv, Moves, Handles, Handle
<1> QED BY <1>7, <1>8, <1>9, <1>10, <1>11 DEF ScanInv

\* A scanner that ends moves to Idle.
LEMMA ExitMoves ==
    ASSUME Types, NEW p \in Scanners, Exit(p)
    PROVE  Moves(p) /\ scanner'[p].pc = "idle" /\ scanner'[p].fd = None /\ ~scanner'[p].lost
<1>1. scanner'[p] = Idle /\ DOMAIN scanner' = Scanners /\ \A q \in Scanners \ {p} : scanner'[q] = scanner[q]
    BY DEF Exit, Types
<1>2. Idle.pc = "idle" /\ Idle.fd = None /\ Idle.lost = FALSE /\ Idle.out \in Outputs
    BY DEF Idle, Outputs
<1> QED BY <1>1, <1>2 DEF Moves, Fields, Pcs

LEMMA GiveUpInv ==
    ASSUME ScanInv, NEW p \in Scanners, scanner[p].pc \in {"sync", "rename"}, GiveUp(p) PROVE ScanInv'
<1>1. PICK o \in Outputs : o = scanner[p].out
    BY DEF ScanInv, Types
<1>2. PICK i : i = IF names[Tmp(o)] = None THEN <<o, 1>> ELSE names[Tmp(o)]
    OBVIOUS
<1>3. /\ names' = [names EXCEPT ![Tmp(o)] = None] /\ Exit(p)
      /\ UNCHANGED <<runs, durable, data, synced, full, acked, mixed, damaged>>
    BY <1>1 DEF GiveUp, Unlink, TmpName, History
<1>4. <<o, 1>> \in Mine(o)
    BY ScannersAssumption, FS_CardinalityType DEF Mine, Inodes
<1>5. /\ i \in Mine(o)
      /\ i \notin {names[List(o)], durable[List(o)]} \/ o \in damaged
    <2>1. CASE names[Tmp(o)] = None
        <3>1. o \in mixed
            BY <1>1, <2>1 DEF ScanInv, Written, Unmixed, WrittenBy, TmpName
        <3> QED BY <1>2, <1>4, <2>1, <3>1 DEF ScanInv, Handles
    <2>2. CASE names[Tmp(o)] # None
        BY <1>2, <2>2, InodesAreApart DEF ScanInv, Types, Lists, ListOk, Apart
    <2> QED BY <2>1, <2>2
<1>6. Moves(p) /\ scanner'[p].pc = "idle" /\ scanner'[p].fd = None /\ ~scanner'[p].lost
    BY <1>3, ExitMoves DEF ScanInv
<1>7. names'[Tmp(o)] = None /\ \A n \in FileNames \ {Tmp(o)} : names'[n] = names[n]
    BY <1>3, NamesAreApart DEF ScanInv, Types
<1>8. Touches(o) /\ Lists'
    BY <1>3, <1>5, <1>7, TmpOnly DEF ScanInv, Types
<1>9. Types'
    <2>1. \A q \in Scanners : scanner'[q].pc \in Pcs /\ scanner'[q].out \in Outputs /\ scanner'[q].lost \in BOOLEAN
                              /\ DOMAIN scanner'[q] = Fields
        BY <1>6 DEF ScanInv, Types, Moves
    <2>2. names' \in [FileNames -> Inodes \cup {None}]
        BY <1>3 DEF ScanInv, Types
    <2>3. \A u \in Outputs : \A n \in {Tmp(u), List(u)} : {names'[n], durable'[n]} \subseteq Mine(u) \cup {None}
        BY <1>3, <1>7, NamesAreApart DEF ScanInv, Types
    <2> QED BY <1>3, <1>6, <2>1, <2>2, <2>3 DEF ScanInv, Types, Moves
<1>10. Writers'
    BY <1>3, <1>6, WritersKeep DEF ScanInv, Active
<1>11. Written'
    <2>1. \A q \in Scanners \ {p} : Unmixed(q)'
        BY <1>1, <1>3, <1>6, <1>8, OthersKeep DEF ScanInv, Active, Moves
    <2> QED BY <1>6, <2>1, NothingWritten DEF Written
<1>12. Handles'
    BY <1>3, <1>6, NothingWritten, HandlesKeep DEF ScanInv, Moves, Handles
<1> QED BY <1>8, <1>9, <1>10, <1>11, <1>12 DEF ScanInv

LEMMA RenameInv ==
    ASSUME ScanInv, NEW p \in Scanners, Rename(p) PROVE ScanInv'
<1>1. PICK o \in Outputs : o = scanner[p].out
    BY DEF ScanInv, Types
<1>2. PICK i, r : i = names[Tmp(o)] /\ r = scanner[p].run
    OBVIOUS
<1>3. /\ scanner[p].pc = "rename" /\ names' = [names EXCEPT ![Tmp(o)] = None, ![List(o)] = i]
      /\ scanner' = [scanner EXCEPT ![p] = [scanner[p] EXCEPT !.pc = "dirsync"]]
      /\ UNCHANGED <<runs, durable, data, synced, full, acked, mixed, damaged>>
    BY <1>1, <1>2 DEF Rename, TmpName, History
<1>4. /\ i # None /\ scanner[p].fd = None /\ ~scanner[p].lost
      /\ o \notin mixed => i \in synced /\ WholeBy(i, r)
    BY <1>1, <1>2, <1>3 DEF Rename, ScanInv, Handles, Handle, Written, Unmixed, WrittenBy, TmpName
<1>5. i \in Mine(o) /\ i \in Inodes
    BY <1>2, <1>4, InodesAreApart DEF ScanInv, Types
<1>6. r \in 1 .. Len(runs) /\ runs[r].out = o /\ (o \notin mixed => acked[o] <= r)
    BY <1>1, <1>2, <1>3 DEF ScanInv, Types, Writers, Active
<1>7. /\ Moves(p) /\ scanner'[p].pc = "dirsync" /\ scanner'[p].fd = None /\ ~scanner'[p].lost
      /\ scanner'[p].out = o /\ scanner'[p].run = r
    <2>1. DOMAIN scanner[p] = Fields
        BY DEF ScanInv, Types
    <2>2. /\ scanner'[p].pc = "dirsync" /\ scanner'[p].out = scanner[p].out
          /\ scanner'[p].run = scanner[p].run /\ scanner'[p].fd = scanner[p].fd
          /\ scanner'[p].lost = scanner[p].lost /\ DOMAIN scanner'[p] = Fields
        BY <1>3, <2>1, Shape DEF ScanInv, Types
    <2> QED BY <1>1, <1>2, <1>3, <1>4, <2>2 DEF Moves, ScanInv, Types, Pcs
<1>8. /\ names'[Tmp(o)] = None /\ names'[List(o)] = i
      /\ \A n \in FileNames \ {Tmp(o), List(o)} : names'[n] = names[n]
    BY <1>3, NamesAreApart DEF ScanInv, Types
<1>9. Touches(o)
    BY <1>3, <1>8, NamesAreApart DEF Touches
<1>10. Lists'
    <2>1. \A u \in Outputs \ {o} : ListOk(u)'
        BY <1>3, <1>9, OtherLists DEF ScanInv
    <2>2. o \notin damaged => Kept(names[List(o)], o)'
        <3> SUFFICES ASSUME o \notin damaged PROVE Kept(names[List(o)], o)'
            OBVIOUS
        <3>1. names'[List(o)] = i /\ UNCHANGED <<synced, data, runs, acked>> /\ o \notin mixed
            BY <1>3, <1>8 DEF ScanInv, Handles
        <3>2. r \in 1 .. Len(runs) /\ runs[r].out = o /\ data[i] = <<r, r>> /\ acked[o] <= r
            BY <1>4, <1>6, <3>1 DEF WholeBy
        <3>3. (\E k \in 1 .. Len(runs) : runs[k].out = o /\ WholeBy(names[List(o)], k) /\ acked[o] <= k)'
            BY <3>1, <3>2, Zenon DEF WholeBy
        <3> QED BY <1>4, <3>1, <3>3 DEF Kept
    <2>3. o \notin damaged => Kept(durable[List(o)], o)'
        BY <1>3 DEF ScanInv, Lists, ListOk, Kept, WholeBy
    <2>4. Apart(o)'
        BY <1>3, <1>8 DEF ScanInv, Lists, ListOk, Apart
    <2>5. ListOk(o)'
        BY <1>3, <2>2, <2>3, <2>4 DEF ListOk
    <2> QED BY <2>1, <2>5 DEF Lists
<1>11. Types'
    <2>1. \A q \in Scanners : scanner'[q].pc \in Pcs /\ scanner'[q].out \in Outputs /\ scanner'[q].lost \in BOOLEAN
                              /\ DOMAIN scanner'[q] = Fields
        BY <1>7 DEF ScanInv, Types, Moves
    <2>2. names' \in [FileNames -> Inodes \cup {None}]
        BY <1>3, <1>5 DEF ScanInv, Types
    <2>3. \A u \in Outputs : \A n \in {Tmp(u), List(u)} : {names'[n], durable'[n]} \subseteq Mine(u) \cup {None}
        BY <1>3, <1>5, <1>8, NamesAreApart DEF ScanInv, Types
    <2> QED BY <1>3, <1>7, <2>1, <2>2, <2>3 DEF ScanInv, Types, Moves
<1>12. Writers'
    BY <1>3, <1>7, WritersKeep DEF ScanInv, Active
<1>13. Written'
    <2>1. \A q \in Scanners \ {p} : Unmixed(q)'
        BY <1>1, <1>3, <1>7, <1>9, OthersKeep DEF ScanInv, Active, Moves
    <2>2. ASSUME o \notin mixed PROVE WrittenBy(p)'
        <3>1. i # None /\ i \in synced' /\ data'[i] = <<r, r>>
            BY <1>3, <1>4, <2>2 DEF WholeBy
        <3> QED BY <1>7, <1>8, <3>1 DEF WrittenBy, WholeBy
    <2>3. Unmixed(p)'
        BY <1>3, <1>7, <2>2 DEF Unmixed
    <2> QED BY <2>1, <2>3 DEF Written
<1>14. Handles'
    BY <1>3, <1>7, HandlesKeep DEF ScanInv, Moves, Handles, Handle
<1> QED BY <1>10, <1>11, <1>12, <1>13, <1>14 DEF ScanInv

LEMMA DirSyncInv ==
    ASSUME ScanInv, NEW p \in Scanners, DirSync(p) PROVE ScanInv'
<1>1. PICK o \in Outputs : o = scanner[p].out
    BY DEF ScanInv, Types
<1>2. PICK r : r = scanner[p].run
    OBVIOUS
<1>3. /\ scanner[p].pc = "dirsync" /\ durable' = names /\ acked' = [acked EXCEPT ![o] = r] /\ Exit(p)
      /\ damaged' = damaged \ ({o} \ mixed) /\ UNCHANGED <<runs, names, data, synced, full, mixed>>
    BY <1>1, <1>2 DEF DirSync
<1>4. Moves(p) /\ scanner'[p].pc = "idle" /\ scanner'[p].fd = None /\ ~scanner'[p].lost
    BY <1>3, ExitMoves DEF ScanInv
<1>5. o \notin mixed => names[List(o)] # None /\ names[List(o)] \in synced /\ WholeBy(names[List(o)], r)
    BY <1>1, <1>2, <1>3 DEF ScanInv, Written, Unmixed, WrittenBy
<1>6. r \in 1 .. Len(runs) /\ runs[r].out = o
    BY <1>1, <1>2, <1>3 DEF ScanInv, Writers, Active
<1>7. acked'[o] = r /\ r \in Nat /\ \A u \in Outputs \ {o} : acked'[u] = acked[u]
    BY <1>3, <1>6 DEF ScanInv, Types
<1>8. Types'
    <2>1. \A q \in Scanners : scanner'[q].pc \in Pcs /\ scanner'[q].out \in Outputs /\ scanner'[q].lost \in BOOLEAN
                              /\ DOMAIN scanner'[q] = Fields
        BY <1>4 DEF ScanInv, Types, Moves
    <2>2. acked' \in [Outputs -> Nat]
        BY <1>3, <1>7 DEF ScanInv, Types
    <2>3. DOMAIN scanner' = Scanners
        BY <1>4 DEF Moves
    <2> QED BY <1>3, <2>1, <2>2, <2>3 DEF ScanInv, Types
<1>9. Writers'
    <2>1. \A q \in Scanners : Active(q)' =>
            /\ q # p /\ Active(q) /\ scanner'[q] = scanner[q] /\ scanner[q].out \in Outputs
            /\ scanner[q].out \notin mixed => scanner[q].out # o
        BY <1>1, <1>3, <1>4 DEF Active, Moves, ScanInv, Types, Writers
    <2>2. \A u \in Outputs : acked'[u] <= Len(runs)
        <3>1. acked'[o] <= Len(runs)
            BY <1>6, <1>7
        <3>2. \A u \in Outputs \ {o} : acked'[u] <= Len(runs)
            BY <1>7, Zenon DEF ScanInv, Writers
        <3> QED BY <3>1, <3>2
    <2> QED BY <1>3, <1>7, <2>1, <2>2 DEF ScanInv, Writers
<1>10. Written'
    <2>1. \A q \in Scanners \ {p} : Unmixed(q)'
        BY <1>3, <1>4, WrittenStays DEF ScanInv, Moves, Written, Unmixed, WrittenBy
    <2> QED BY <1>4, <2>1, NothingWritten DEF Written
<1>11. Lists'
    <2>1. ASSUME NEW u \in Outputs, u \notin damaged' PROVE Kept(names[List(u)], u)'
        <3>1. CASE u = o
            <4>1. o \notin mixed
                BY <1>3, <2>1, <3>1 DEF ScanInv, Handles
            <4> QED BY <1>3, <1>5, <1>6, <1>7, <3>1, <4>1 DEF Kept, WholeBy
        <3>2. CASE u # o
            <4>1. Kept(names[List(u)], u)
                BY <1>3, <2>1, <3>2 DEF ScanInv, Lists, ListOk
            <4> QED BY <1>3, <1>7, <3>2, <4>1 DEF Kept, WholeBy
        <3> QED BY <3>1, <3>2
    <2>2. ASSUME NEW u \in Outputs, u \notin damaged' PROVE Kept(durable[List(u)], u)'
        <3>1. Kept(names[List(u)], u)'
            BY <2>1, <2>2
        <3> QED BY <1>3, <3>1 DEF Kept, WholeBy
    <2>3. \A u \in Outputs : Apart(u)'
        BY <1>3 DEF ScanInv, Lists, ListOk, Apart
    <2> QED BY <2>1, <2>2, <2>3 DEF Lists, ListOk
<1>12. Handles'
    <2>1. mixed' \subseteq damaged'
        BY <1>3 DEF ScanInv, Handles
    <2> QED BY <1>4, <2>1, NothingWritten, HandlesKeep DEF ScanInv, Moves
<1> QED BY <1>8, <1>9, <1>10, <1>11, <1>12 DEF ScanInv

LEMMA DirSyncFailsInv ==
    ASSUME ScanInv, NEW p \in Scanners, DirSyncFails(p) PROVE ScanInv'
<1>1. scanner[p].pc = "dirsync" /\ Exit(p) /\ UNCHANGED <<runs, names, durable, data, synced, full, acked, mixed, damaged>>
    BY DEF DirSyncFails, Disk, History
<1>2. Moves(p) /\ scanner'[p].pc = "idle" /\ scanner'[p].fd = None /\ ~scanner'[p].lost
    BY <1>1, ExitMoves DEF ScanInv
<1>3. Types'
    BY <1>1, <1>2, TypesStay DEF ScanInv
<1>4. Writers'
    BY <1>1, <1>2, WritersKeep DEF ScanInv, Active
<1>5. Written'
    <2>1. \A q \in Scanners \ {p} : Unmixed(q)'
        BY <1>1, <1>2, WrittenStays DEF ScanInv, Moves, Written, Unmixed, WrittenBy
    <2> QED BY <1>2, <2>1, NothingWritten DEF Written
<1>6. Lists'
    BY <1>1, ListsStand
<1>7. Handles'
    BY <1>1, <1>2, NothingWritten, HandlesKeep DEF ScanInv, Moves, Handles
<1> QED BY <1>3, <1>4, <1>5, <1>6, <1>7 DEF ScanInv

LEMMA StepInv ==
    ASSUME ScanInv, NEW p \in Scanners, Step(p) PROVE ScanInv'
BY ScanAliasInv, SortedInv, OpenTmpInv, WriteChunkInv, SyncInv, GiveUpInv, RenameInv, DirSyncInv, DirSyncFailsInv
   DEF Step, SyncFails, RenameFails

-----------------------------------------------------------------------------
(* The world around the scanners.                                             *)

\* While nothing on the card's lists and no scanner changes, all of it holds on.
LEMMA AroundInv ==
    ASSUME ScanInv, UNCHANGED <<scanner, names, durable, data, synced, acked>>, full' \in BOOLEAN,
           mixed \subseteq mixed', damaged \subseteq damaged', mixed' \subseteq damaged',
           \A p \in Scanners : scanner[p].lost => full' \/ scanner[p].out \in mixed',
           Len(runs') = Len(runs), DOMAIN runs' = 1 .. Len(runs'), \E S : runs' \in Seq(S),
           \A r \in 1 .. Len(runs) : runs'[r].out = runs[r].out /\ DOMAIN runs'[r] = DOMAIN NoRun
    PROVE  ScanInv'
<1>1. Types'
    BY DEF ScanInv, Types
<1>2. Writers'
    BY DEF ScanInv, Types, Writers, Active
<1>3. Written'
    <2>1. \A p \in Scanners : Unmixed(p)'
        BY WrittenStays DEF ScanInv
    <2> QED BY <2>1 DEF Written
<1>4. Lists'
    <2>1. Types /\ Lists
        BY DEF ScanInv
    <2>2. Len(runs') \in Nat /\ Len(runs) <= Len(runs')
        BY <2>1 DEF Types
    <2> QED BY <2>1, <2>2, ListsStay
<1>5. Handles'
    <2>1. ASSUME NEW p \in Scanners PROVE Handle(p)'
        BY DEF ScanInv, Handles, Handle
    <2> QED BY <2>1 DEF Handles
<1> QED BY <1>1, <1>2, <1>3, <1>4, <1>5 DEF ScanInv

LEMMA MarkedRuns ==
    ASSUME Types, MarkChanged
    PROVE  /\ Len(runs') = Len(runs) /\ DOMAIN runs' = 1 .. Len(runs') /\ \E S : runs' \in Seq(S)
           /\ \A r \in 1 .. Len(runs) : runs'[r].out = runs[r].out /\ DOMAIN runs'[r] = DOMAIN NoRun
<1>1. runs' = [r \in 1 .. Len(runs) |-> [runs[r] EXCEPT !.changed = TRUE]] /\ Len(runs) \in Nat
    BY DEF MarkChanged, Types
<1>2. runs' \in [1 .. Len(runs) -> {[runs[r] EXCEPT !.changed = TRUE] : r \in 1 .. Len(runs)}]
    BY <1>1
<1>3. Len(runs') = Len(runs) /\ \E S : runs' \in Seq(S)
    <2>1. PICK n \in Nat : n = Len(runs)
        BY <1>1
    <2>2. PICK S : runs' \in [1 .. n -> S]
        BY <1>2, <2>1
    <2>3. runs' \in Seq(S) /\ Len(runs') = n
        BY <2>2, FunctionIsSeq
    <2> QED BY <2>1, <2>3
<1>4. \A r \in 1 .. Len(runs) : DOMAIN runs[r] = DOMAIN NoRun
    BY DEF Types
<1>5. \A r \in 1 .. Len(runs) : runs'[r].out = runs[r].out /\ DOMAIN runs'[r] = DOMAIN NoRun
    BY <1>1, <1>4, Shape
<1> QED BY <1>1, <1>3, <1>5

LEMMA CardInv ==
    ASSUME ScanInv, CardChanges \/ ArtworkArrives \/ CardFills \/ CardGetsRoom PROVE ScanInv'
<1>1. \A p \in Scanners : scanner[p].lost => full \/ scanner[p].out \in mixed
    BY DEF ScanInv, Written, Unmixed, WrittenBy
<1>2. mixed \subseteq damaged
    BY DEF ScanInv, Handles
<1>3. CASE CardChanges \/ ArtworkArrives
    <2>1. MarkChanged /\ UNCHANGED <<scanner, names, durable, data, synced, acked, full, mixed, damaged>>
        BY <1>3 DEF CardChanges, ArtworkArrives, Disk, History
    <2> QED BY <1>1, <1>2, <2>1, MarkedRuns, AroundInv DEF ScanInv, Types
<1>4. CASE CardFills \/ CardGetsRoom
    <2>1. UNCHANGED <<scanner, names, durable, data, synced, acked, runs>> /\ full' \in BOOLEAN
          /\ mixed \subseteq mixed' /\ damaged \subseteq damaged' /\ mixed' \subseteq damaged'
        BY <1>2, <1>4 DEF CardFills, CardGetsRoom, History
    <2>2. \A p \in Scanners : scanner[p].lost => full' \/ scanner[p].out \in mixed'
        BY <1>1, <1>4 DEF CardFills, CardGetsRoom, Missing, History
    <2> QED BY <2>1, <2>2, AroundInv DEF ScanInv, Types
<1> QED BY <1>3, <1>4

LEMMA PowerLossInv ==
    ASSUME ScanInv, PowerLoss PROVE ScanInv'
<1>1. /\ scanner' = [p \in Scanners |-> Idle] /\ durable' = names' /\ synced' = Inodes /\ full' = FALSE
      /\ UNCHANGED <<runs, acked, mixed, damaged>>
    BY DEF PowerLoss, History
<1>2. PICK lost : names' = [n \in FileNames |-> IF n[1] \in lost THEN durable[n] ELSE names[n]]
    BY DEF PowerLoss
<1>3. PICK cut \in [{names'[n] : n \in FileNames} \ (synced \cup {None}) -> 0 .. 2] :
        data' = [i \in Inodes |-> IF i \in DOMAIN cut THEN [k \in 1 .. 2 |-> IF k <= cut[i] THEN data[i][k] ELSE 0]
                                  ELSE data[i]]
    BY DEF PowerLoss
<1>4. \A o \in Outputs :
        \/ names'[Tmp(o)] = names[Tmp(o)] /\ names'[List(o)] = names[List(o)]
        \/ names'[Tmp(o)] = durable[Tmp(o)] /\ names'[List(o)] = durable[List(o)]
    BY <1>2, NamesAreApart
<1>5. \A i \in synced : data'[i] = data[i]
    BY <1>3 DEF ScanInv, Types
<1>6. /\ Idle.pc = "idle" /\ Idle.fd = None /\ Idle.lost = FALSE /\ Idle.out \in Outputs
    BY DEF Idle, Outputs
<1>7. Types'
    <2>1. \A q \in Scanners : scanner'[q].pc \in Pcs /\ scanner'[q].out \in Outputs /\ scanner'[q].lost \in BOOLEAN
                              /\ DOMAIN scanner'[q] = Fields
        BY <1>1, <1>6 DEF Fields, Pcs
    <2>2. names' \in [FileNames -> Inodes \cup {None}]
        BY <1>2 DEF ScanInv, Types
    <2>3. \A u \in Outputs : \A n \in {Tmp(u), List(u)} : {names'[n], durable'[n]} \subseteq Mine(u) \cup {None}
        BY <1>1, <1>4 DEF ScanInv, Types
    <2>4. data' \in [Inodes -> [1 .. 2 -> Nat]]
        <3>1. ASSUME NEW i \in Inodes PROVE data'[i] \in [1 .. 2 -> Nat]
            BY <1>3 DEF ScanInv, Types
        <3> QED BY <1>3, <3>1
    <2> QED BY <1>1, <2>1, <2>2, <2>3, <2>4 DEF ScanInv, Types
<1>8. Writers'
    BY <1>1, <1>6 DEF ScanInv, Writers, Active
<1>9. Written'
    BY <1>1, <1>6, NothingWritten DEF Written
<1>10. Lists'
    <2>1. ASSUME NEW u \in Outputs, u \notin damaged PROVE Kept(names[List(u)], u)'
        <3>1. PICK i : i = names'[List(u)]
            OBVIOUS
        <3>2. Kept(i, u)
            BY <1>4, <2>1, <3>1 DEF ScanInv, Lists, ListOk
        <3>3. i # None => data'[i] = data[i] /\ i \in Inodes
            BY <1>5, <3>2 DEF Kept, ScanInv, Types
        <3> QED BY <1>1, <3>1, <3>2, <3>3 DEF Kept, WholeBy
    <2>2. ASSUME NEW u \in Outputs, u \notin damaged PROVE Kept(durable[List(u)], u)'
        <3>1. Kept(names[List(u)], u)'
            BY <2>1, <2>2
        <3> QED BY <1>1, <3>1 DEF Kept, WholeBy
    <2>3. \A u \in Outputs : names'[Tmp(u)] # None => names'[Tmp(u)] # names'[List(u)]
        BY <1>4 DEF ScanInv, Lists, ListOk, Apart
    <2> QED BY <1>1, <2>1, <2>2, <2>3 DEF Lists, ListOk, Apart
<1>11. Handles'
    <2>1. \A p \in Scanners : Handle(p)'
        BY <1>1, <1>6 DEF Handle
    <2> QED BY <1>1, <2>1 DEF ScanInv, Handles
<1> QED BY <1>7, <1>8, <1>9, <1>10, <1>11 DEF ScanInv

-----------------------------------------------------------------------------
(* The theorems.                                                              *)

LEMMA ScanInitInv == ScanInit => ScanInv
<1> SUFFICES ASSUME ScanInit PROVE ScanInv
    OBVIOUS
<1>1. /\ scanner = [p \in Scanners |-> Idle] /\ runs = <<>> /\ full = FALSE /\ synced = Inodes
      /\ names = [n \in FileNames |-> None] /\ durable = [n \in FileNames |-> None]
      /\ data = [i \in Inodes |-> <<0, 0>>] /\ acked = [o \in Outputs |-> 0]
      /\ mixed = {} /\ damaged = {}
    BY DEF ScanInit
<1>2. Idle.pc = "idle" /\ Idle.fd = None /\ Idle.lost = FALSE /\ Idle.out \in Outputs
    BY DEF Idle, Outputs
<1>3. \A o \in Outputs : names[Tmp(o)] = None /\ names[List(o)] = None
                         /\ durable[Tmp(o)] = None /\ durable[List(o)] = None
    BY <1>1, NamesAreApart
<1>4. Types
    <2>1. \A q \in Scanners : scanner[q].pc \in Pcs /\ scanner[q].out \in Outputs /\ scanner[q].lost \in BOOLEAN
                              /\ DOMAIN scanner[q] = Fields
        BY <1>1, <1>2 DEF Fields, Pcs
    <2>2. runs \in Seq({}) /\ Len(runs) = 0 /\ DOMAIN runs = 1 .. 0
        BY <1>1
    <2>3. <<0, 0>> \in [1 .. 2 -> Nat]
        OBVIOUS
    <2>4. data \in [Inodes -> [1 .. 2 -> Nat]] /\ acked \in [Outputs -> Nat]
        BY <1>1, <2>3
    <2>5. names \in [FileNames -> Inodes \cup {None}] /\ durable \in [FileNames -> Inodes \cup {None}]
        BY <1>1
    <2>6. \A o \in Outputs : \A n \in {Tmp(o), List(o)} : {names[n], durable[n]} \subseteq Mine(o) \cup {None}
        BY <1>3
    <2>7. Len(runs) \in Nat /\ DOMAIN runs = 1 .. Len(runs) /\ (\E S : runs \in Seq(S))
          /\ \A r \in 1 .. Len(runs) : DOMAIN runs[r] = DOMAIN NoRun
        BY <2>2
    <2> QED BY <1>1, <2>1, <2>4, <2>5, <2>6, <2>7 DEF Types
<1>5. Writers
    BY <1>1, <1>2 DEF Writers, Active
<1>6. Written
    BY <1>1, <1>2 DEF Written, Unmixed, WrittenBy
<1>7. Lists
    BY <1>1, <1>3 DEF Lists, ListOk, Apart, Kept
<1>8. Handles
    BY <1>1, <1>2 DEF Handles, Handle
<1> QED BY <1>4, <1>5, <1>6, <1>7, <1>8 DEF ScanInv

LEMMA ScanNextInv ==
    ASSUME ScanInv, [ScanNext]_scanVars PROVE ScanInv'
<1>1. CASE \E p \in Scanners : \E o \in Outputs, t \in BOOLEAN : Start(p, o, t)
    BY <1>1, StartInv
<1>2. CASE \E p \in Scanners : Step(p)
    BY <1>2, StepInv
<1>3. CASE CardChanges \/ ArtworkArrives \/ CardFills \/ CardGetsRoom
    BY <1>3, CardInv
<1>4. CASE PowerLoss
    BY <1>4, PowerLossInv
<1>5. CASE UNCHANGED scanVars
    BY <1>5, AroundInv DEF scanVars, ScanInv, Types, Handles, Written, Unmixed, WrittenBy
<1> QED BY <1>1, <1>2, <1>3, <1>4, <1>5 DEF ScanNext

\* What holds of the scanners, their temporary files and the lists on the card at
\* every step of write_library_index; of scanners that share a temporary file, no
\* more than whose inodes they write, and that they never write another list's.
THEOREM ScansKeepOrder == ScanSpec => []ScanInv
<1>1. ScanInit => ScanInv
    BY ScanInitInv
<1>2. ScanInv /\ [ScanNext]_scanVars => ScanInv'
    BY ScanNextInv
<1> QED BY <1>1, <1>2, PTL DEF ScanSpec

\* The list in place is missing or the whole list of one run for that output, and
\* no list of an acknowledged run is replaced by an older one, whatever power
\* losses, failures and other scans come between (write_library_index: temporary
\* file, fsync, rename, directory sync); what two scanners of this list, or a card
\* that got room again, did to it lasts until a scan that had it to itself ends well.
THEOREM ListsAreWhole == ScanSpec => []ListWhole
<1>1. ScanInv => ListWhole
    <2> SUFFICES ASSUME ScanInv, NEW o \in Outputs \ damaged
                 PROVE  /\ names[List(o)] # None =>
                              \E r \in DOMAIN runs : runs[r].out = o /\ WholeBy(names[List(o)], r)
                        /\ acked[o] # 0 =>
                              names[List(o)] # None /\ data[names[List(o)]][1] >= acked[o]
        BY DEF ListWhole
    <2>1. Kept(names[List(o)], o) /\ DOMAIN runs = 1 .. Len(runs) /\ acked[o] \in Nat
        BY DEF ScanInv, Lists, ListOk, Types
    <2>2. \A r : WholeBy(names[List(o)], r) => data[names[List(o)]][1] = r
        BY DEF WholeBy
    <2> QED BY <2>1, <2>2 DEF Kept
<1> QED BY <1>1, ScansKeepOrder, PTL

-----------------------------------------------------------------------------
(* What a list holds.                                                         *)

AliasAt(w) == SystemList[w[1]].aliases[w[2]]
DirAt(w) == DirOf[AliasAt(w).name]

\* The scan remembers all directories it can come to (systems.json names 209
\* aliases, MAX_SCANNED_DIRS is 1024).
AliasDirs == {<<w[1], DirAt(w)>> : w \in Work(Full)}
RoomForDirs == IsFiniteSet(AliasDirs) /\ Cardinality(AliasDirs) <= MaxScannedDirs

\* Of the aliases that lead to one directory, none lists more than an earlier one.
FirstIsWidest ==
    \A i \in DOMAIN SystemList : \A a, b \in DOMAIN SystemList[i].aliases :
        /\ a < b /\ DirAt(<<i, a>>) = DirAt(<<i, b>>)
        /\ a > 1 /\ AliasAt(<<i, a>>).shared
        => AliasAt(<<i, b>>).shared

\* The part of a list that the alias w brings, for the files and artwork given.
PartAt(files, arts, thumbs, w) ==
    {[sys |-> w[1], alias |-> AliasAt(w).name, item |-> ShownAs(SystemList[w[1]], f),
      art |-> thumbs /\ ShownAs(SystemList[w[1]], f) \in arts] :
       f \in {g \in files : /\ Belongs(SystemList[w[1]], g)
                            /\ FirstAlias(SystemList[w[1]], g.dir) = w[2]}}
ListOf(files, arts, thumbs, W) == UNION {PartAt(files, arts, thumbs, w) : w \in W}

LEMMA SmallestOf ==
    ASSUME NEW T \in SUBSET Nat, T # {}
    PROVE  \E x \in T : \A y \in T : x <= y
<1> DEFINE R == {u \in Nat \X Nat : u[1] < u[2]}
<1>1. IsWellFoundedOn(R, Nat)
    BY NatLessThanWellFounded DEF OpToRel
<1> HIDE DEF R
<1>2. PICK x \in T : \A y \in T : <<y, x>> \notin R
    BY <1>1, WFMin
<1>3. ASSUME NEW y \in T PROVE x <= y
    <2>1. <<y, x>> \notin R /\ <<y, x>> \in Nat \X Nat
        BY <1>2
    <2>2. ~(y < x)
        BY <2>1 DEF R
    <2> QED BY <2>2
<1> QED BY <1>3

LEMMA Positions ==
    /\ DOMAIN SystemList \in SUBSET Nat
    /\ \A i \in DOMAIN SystemList : DOMAIN SystemList[i].aliases \in SUBSET Nat /\ 0 \notin DOMAIN SystemList[i].aliases
    /\ \A i \in DOMAIN SystemList : SystemList[i].enabled \in BOOLEAN
                                    /\ \A a \in DOMAIN SystemList[i].aliases : AliasAt(<<i, a>>).shared \in BOOLEAN
<1> DEFINE Aliases == [name : DOMAIN DirOf, shared : BOOLEAN]
<1>1. DOMAIN SystemList \in SUBSET Nat
    BY SystemsAssumption
<1>2. ASSUME NEW i \in DOMAIN SystemList
      PROVE  SystemList[i].enabled \in BOOLEAN /\ SystemList[i].aliases \in Seq(Aliases)
    <2> DEFINE Names == {SystemList[j].id : j \in DOMAIN SystemList}
               AliasLists == Seq(Aliases)
               Systems == [id : Names, enabled : BOOLEAN, aliases : AliasLists, exts : SUBSET STRING, scanDirs : BOOLEAN]
    <2>1. SystemList \in Seq(Systems)
        BY SystemsAssumption
    <2> HIDE DEF Systems
    <2>2. SystemList[i] \in Systems
        BY <2>1
    <2> HIDE DEF AliasLists, Names
    <2>3. SystemList[i].enabled \in BOOLEAN /\ SystemList[i].aliases \in AliasLists
        BY <2>2 DEF Systems
    <2> QED BY <2>3 DEF AliasLists
<1>3. ASSUME NEW i \in DOMAIN SystemList, NEW a \in DOMAIN SystemList[i].aliases
      PROVE  a \in Nat /\ a # 0 /\ AliasAt(<<i, a>>).shared \in BOOLEAN
    <2> HIDE DEF Aliases
    <2>1. SystemList[i].aliases[a] \in Aliases /\ a \in Nat /\ a # 0
        BY <1>2
    <2> QED BY <2>1 DEF AliasAt, Aliases
<1>4. \A i \in DOMAIN SystemList : DOMAIN SystemList[i].aliases \subseteq Nat
    BY <1>3
<1> QED BY <1>1, <1>2, <1>3, <1>4

\* The first alias that leads to a directory.
LEMMA FirstAliasIs ==
    ASSUME NEW i \in DOMAIN SystemList, NEW d, NEW a \in DOMAIN SystemList[i].aliases, DirAt(<<i, a>>) = d
    PROVE  /\ FirstAlias(SystemList[i], d) \in DOMAIN SystemList[i].aliases
           /\ DirAt(<<i, FirstAlias(SystemList[i], d)>>) = d
           /\ FirstAlias(SystemList[i], d) <= a
<1> DEFINE s == SystemList[i]
           at == {b \in DOMAIN s.aliases : DirOf[s.aliases[b].name] = d}
<1>1. a \in at /\ at \in SUBSET Nat
    BY Positions DEF DirAt, AliasAt
<1>2. FirstAlias(s, d) = Min(at)
    BY <1>1 DEF FirstAlias
<1> HIDE DEF at
<1>3. \E x \in at : \A y \in at : x <= y
    BY <1>1, SmallestOf
<1>4. Min(at) \in at /\ \A y \in at : Min(at) <= y
    BY <1>3 DEF Min
<1> QED BY <1>1, <1>2, <1>4 DEF at, DirAt, AliasAt

LEMMA NoAlias ==
    ASSUME NEW i \in DOMAIN SystemList, NEW d, FirstAlias(SystemList[i], d) # 0
    PROVE  /\ FirstAlias(SystemList[i], d) \in DOMAIN SystemList[i].aliases
           /\ DirAt(<<i, FirstAlias(SystemList[i], d)>>) = d
<1>1. \E a \in DOMAIN SystemList[i].aliases : DirAt(<<i, a>>) = d
    BY DEF FirstAlias, DirAt, AliasAt
<1> QED BY <1>1, FirstAliasIs

\* The loops come to the aliases in order.
LEMMA WorkIs ==
    ASSUME NEW o, NEW w \in Work(o)
    PROVE  /\ w = <<w[1], w[2]>> /\ w[1] \in DOMAIN SystemList /\ w[2] \in DOMAIN SystemList[w[1]].aliases
           /\ w[1] \in Nat /\ w[2] \in Nat
           /\ SystemList[w[1]].enabled /\ o \in {Full, SystemList[w[1]].id}
           /\ \A b \in DOMAIN SystemList[w[1]].aliases : <<w[1], b>> \in Work(o)
BY Positions DEF Work, Chosen

LEMMA NextIs ==
    ASSUME NEW o, NEW T \in SUBSET Work(o), T # {}
    PROVE  NextAlias(T) \in T /\ \A u \in T : ~Before(u, NextAlias(T))
<1> DEFINE systems == {w[1] : w \in T}
<1>1. systems \in SUBSET Nat /\ systems # {}
    BY WorkIs
<1>2. PICK x \in systems : \A y \in systems : x <= y
    BY <1>1, SmallestOf
<1> DEFINE places == {w[2] : w \in {u \in T : u[1] = x}}
<1>3. places \in SUBSET Nat /\ places # {}
    BY WorkIs
<1>4. PICK z \in places : \A y \in places : z <= y
    BY <1>3, SmallestOf
<1>5. PICK w \in T : w[1] = x /\ w[2] = z
    OBVIOUS
<1>6. ASSUME NEW u \in T PROVE ~Before(u, w)
    <2>1. u[1] \in Nat /\ u[2] \in Nat /\ x \in Nat /\ z \in Nat /\ x <= u[1]
        BY <1>1, <1>2, <1>3, WorkIs
    <2>2. u[1] = x => z <= u[2]
        BY <1>4
    <2> QED BY <1>5, <2>1, <2>2 DEF Before
<1> QED BY <1>6 DEF NextAlias

-----------------------------------------------------------------------------
(* The part of one alias.                                                     *)

\* An alias that leads nowhere, or where an earlier one led, brings nothing.
LEMMA NothingNew ==
    ASSUME NEW o, NEW w \in Work(o), NEW files \in SUBSET AllFiles, NEW arts, NEW thumbs,
           \/ DirAt(w) = NoDir
           \/ \E b \in DOMAIN SystemList[w[1]].aliases : b < w[2] /\ DirAt(<<w[1], b>>) = DirAt(w)
    PROVE  PartAt(files, arts, thumbs, w) = {}
<1> DEFINE s == SystemList[w[1]]
<1> SUFFICES ASSUME NEW f \in files, Belongs(s, f), FirstAlias(s, f.dir) = w[2] PROVE FALSE
    BY DEF PartAt
<1>1. FirstAlias(s, f.dir) # 0
    BY DEF Belongs
<1>2. DirAt(<<w[1], w[2]>>) = f.dir
    BY <1>1, NoAlias, WorkIs
<1>3. DirAt(w) = f.dir /\ f.dir # NoDir
    BY <1>2, WorkIs, FilesAssumption
<1>4. PICK b \in DOMAIN SystemList[w[1]].aliases : b < w[2] /\ DirAt(<<w[1], b>>) = f.dir
    BY <1>3
<1>5. w[2] <= b
    BY <1>4, FirstAliasIs, WorkIs
<1>6. b \in Nat /\ w[2] \in Nat
    BY WorkIs, Positions
<1> QED BY <1>4, <1>5, <1>6

\* What belongs under the first alias of a directory is what lies there.
LEMMA FirstBrings ==
    ASSUME NEW o, NEW w \in Work(o), NEW files, FirstAlias(SystemList[w[1]], DirAt(w)) = w[2]
    PROVE  \A x : x \in ItemsUnder(SystemList[w[1]], DirAt(w), w[2] > 1 /\ AliasAt(w).shared, files)
                  <=> \E f \in files : /\ Belongs(SystemList[w[1]], f) /\ FirstAlias(SystemList[w[1]], f.dir) = w[2]
                                       /\ x = ShownAs(SystemList[w[1]], f)
<1> DEFINE s == SystemList[w[1]]
           filter == w[2] > 1 /\ AliasAt(w).shared
<1>1. w[1] \in DOMAIN SystemList /\ w[2] \in Nat /\ w[2] # 0 /\ s.enabled /\ AliasAt(w) = s.aliases[w[2]] /\ w = <<w[1], w[2]>>
    BY WorkIs, Positions DEF AliasAt
<1>2. ASSUME NEW f \in files
      PROVE  (Belongs(s, f) /\ FirstAlias(s, f.dir) = w[2])
             <=> (/\ f.dir = DirAt(w)
                  /\ (s.scanDirs /\ f.sub # NoSub) \/ (~f.hidden /\ ExtMatches(s, f, filter)))
    <2>1. FirstAlias(s, f.dir) = w[2] => f.dir = DirAt(w)
        BY <1>1, NoAlias
    <2>2. f.dir = DirAt(w) => FirstAlias(s, f.dir) = w[2]
        OBVIOUS
    <2> QED BY <1>1, <2>1, <2>2 DEF Belongs, ExtMatches
<1>3. \A x : x \in ItemsUnder(s, DirAt(w), filter, files)
             <=> \E f \in files : /\ f.dir = DirAt(w) /\ x = ShownAs(s, f)
                                  /\ (s.scanDirs /\ f.sub # NoSub) \/ (~f.hidden /\ ExtMatches(s, f, filter))
    BY DEF ItemsUnder, ShownAs
<1> QED BY <1>2, <1>3

-----------------------------------------------------------------------------
(* How far a scan is.                                                         *)

\* The list of a run is the one that belongs on the card, if nothing changed.
Exact(r) == ~runs[r].changed => runs[r].roms = ListOf(romFiles, art, runs[r].thumbs, Work(runs[r].out))

Done(p) == Work(scanner[p].out) \ scanner[p].todo

\* The aliases of a system are gone through in order, and the directories and
\* games remembered are those of the aliases gone through.
Walk(p) ==
    LET sc == scanner[p]
    IN  /\ sc.todo \subseteq Work(sc.out)
        /\ \A u \in sc.todo, w \in Work(sc.out) : u[1] = w[1] /\ u[2] < w[2] => w \in sc.todo
        /\ \A d \in sc.dirs : \E w \in Done(p) : d = <<w[1], DirAt(w)>> /\ DirAt(w) # NoDir
        /\ RoomForDirs => \A w \in Done(p) : DirAt(w) # NoDir => <<w[1], DirAt(w)>> \in sc.dirs
        /\ sc.thumbs = runs[sc.run].thumbs
Gathered(p) == ~runs[scanner[p].run].changed =>
                   scanner[p].roms = ListOf(romFiles, art, scanner[p].thumbs, Done(p))
Progress(p) == Walk(p) /\ Gathered(p)

\* What is on the card of any list, and what a scanner is about to put there.
Listed ==
    /\ romFiles \subseteq AllFiles
    /\ \A i \in Inodes : \A k \in 1 .. 2 : data[i][k] # 0 => data[i][k] \in 1 .. Len(runs) /\ Exact(data[i][k])
    /\ \A p \in Scanners : /\ scanner[p].pc = "scan" => Progress(p)
                           /\ scanner[p].pc \notin {"idle", "scan"} => Exact(scanner[p].run)

\* One more alias adds its part.
LEMMA OneMore ==
    ASSUME NEW files, NEW arts, NEW thumbs, NEW W, NEW w
    PROVE  ListOf(files, arts, thumbs, W \cup {w}) = ListOf(files, arts, thumbs, W) \cup PartAt(files, arts, thumbs, w)
<1>1. \A e : e \in ListOf(files, arts, thumbs, W \cup {w})
             <=> \E u \in W \cup {w} : e \in PartAt(files, arts, thumbs, u)
    BY Zenon DEF ListOf
<1>2. \A e : e \in ListOf(files, arts, thumbs, W) <=> \E u \in W : e \in PartAt(files, arts, thumbs, u)
    BY Zenon DEF ListOf
<1>3. \A e : e \in ListOf(files, arts, thumbs, W \cup {w})
             <=> e \in ListOf(files, arts, thumbs, W) \cup PartAt(files, arts, thumbs, w)
    BY <1>1, <1>2
<1> QED BY <1>3

\* An alias that was gone through shares no directory with one that is not remembered.
LEMMA Remembers ==
    ASSUME RoomForDirs, NEW o, NEW W \in SUBSET Work(o), NEW w \in Work(o), DirAt(w) # NoDir,
           NEW dirs, \A d \in dirs : \E u \in Work(o) : d = <<u[1], DirAt(u)>> /\ DirAt(u) # NoDir,
           <<w[1], DirAt(w)>> \notin dirs
    PROVE  Remembered(dirs, w[1], DirAt(w)) = dirs \cup {<<w[1], DirAt(w)>>}
<1> DEFINE d == <<w[1], DirAt(w)>>
<1>1. dirs \cup {d} \subseteq AliasDirs
    <2>1. \A u \in Work(o) : u \in Work(Full)
        BY WorkIs DEF Work, Chosen
    <2> QED BY <2>1 DEF AliasDirs
<1>2. IsFiniteSet(dirs \cup {d}) /\ Cardinality(dirs \cup {d}) <= Cardinality(AliasDirs)
    BY <1>1, FS_Subset DEF RoomForDirs
<1>3. IsFiniteSet(dirs)
    BY <1>2, FS_Subset
<1>4. Cardinality(dirs \cup {d}) = Cardinality(dirs) + 1
    BY <1>3, FS_AddElement
<1>5. Cardinality(dirs) \in Nat /\ Cardinality(AliasDirs) \in Nat
    BY <1>3, FS_CardinalityType DEF RoomForDirs
<1>6. Cardinality(dirs) < MaxScannedDirs
    BY <1>2, <1>4, <1>5, BoundsAssumption DEF RoomForDirs
<1> QED BY <1>6 DEF Remembered

-----------------------------------------------------------------------------
(* One alias.                                                                 *)

\* The alias the scan goes through next, and what is new in its directory.
Upcoming(p) == NextAlias(scanner[p].todo)
FoundBy(p) ==
    LET w == Upcoming(p)
    IN  ItemsUnder(SystemList[w[1]], DirAt(w), w[2] > 1 /\ AliasAt(w).shared, romFiles)
NewItems(p) == {x \in FoundBy(p) : \A r \in scanner[p].roms : ~(r.sys = Upcoming(p)[1] /\ r.item = x)}
Skipped(p) == DirAt(Upcoming(p)) = NoDir \/ Seen(scanner[p].dirs, Upcoming(p)[1], DirAt(Upcoming(p)))
NewEntries(p) ==
    {[sys |-> Upcoming(p)[1], alias |-> AliasAt(Upcoming(p)).name, item |-> x, art |-> scanner[p].thumbs /\ x \in art]
       : x \in NewItems(p)}

LEMMA AliasStep ==
    ASSUME Types, NEW p \in Scanners, ScanAlias(p)
    PROVE  /\ scanner'[p].todo = scanner[p].todo \ {Upcoming(p)}
           /\ scanner'[p].pc = "scan" /\ scanner'[p].out = scanner[p].out /\ scanner'[p].run = scanner[p].run
           /\ scanner'[p].thumbs = scanner[p].thumbs
           /\ Skipped(p) => scanner'[p].dirs = scanner[p].dirs /\ scanner'[p].roms = scanner[p].roms
           /\ ~Skipped(p) => /\ scanner'[p].dirs = Remembered(scanner[p].dirs, Upcoming(p)[1], DirAt(Upcoming(p)))
                             /\ scanner'[p].roms = scanner[p].roms \cup NewEntries(p)
           /\ \A q \in Scanners \ {p} : scanner'[q] = scanner[q]
<1> DEFINE sc == scanner[p]
           rest == [sc EXCEPT !.todo = @ \ {Upcoming(p)}]
<1>1. scanner' = [scanner EXCEPT ![p] = AfterAlias(p)] /\ sc.pc = "scan" /\ DOMAIN sc = Fields /\ DOMAIN scanner = Scanners
    BY DEF ScanAlias, Types
<1>2. NewEntries(p) = {Entry(Upcoming(p)[1], AliasAt(Upcoming(p)).name, x, sc.thumbs) : x \in NewItems(p)}
    BY DEF NewEntries, Entry, HasArt
<1>3. AfterAlias(p) = IF Skipped(p) THEN rest
                      ELSE [rest EXCEPT !.dirs = Remembered(rest.dirs, Upcoming(p)[1], DirAt(Upcoming(p))),
                                        !.roms = rest.roms \cup NewEntries(p)]
    BY <1>2 DEF AfterAlias, Skipped, Upcoming, NewItems, FoundBy, DirAt, AliasAt
<1> HIDE DEF sc
<1>4. rest.dirs = sc.dirs /\ rest.roms = sc.roms
    BY <1>1, Shape DEF sc
<1>5. scanner'[p] = AfterAlias(p) /\ \A q \in Scanners \ {p} : scanner'[q] = scanner[q]
    BY <1>1
<1>6. DOMAIN rest = Fields /\ rest.todo = sc.todo \ {Upcoming(p)} /\ rest.pc = sc.pc /\ rest.out = sc.out
      /\ rest.run = sc.run /\ rest.thumbs = sc.thumbs
    BY <1>1, Shape DEF sc
<1> HIDE DEF rest
<1>7. CASE Skipped(p)
    BY <1>1, <1>3, <1>4, <1>5, <1>6, <1>7 DEF sc
<1>8. CASE ~Skipped(p)
    <2>1. PICK d, g : d = Remembered(sc.dirs, Upcoming(p)[1], DirAt(Upcoming(p))) /\ g = sc.roms \cup NewEntries(p)
        OBVIOUS
    <2>2. AfterAlias(p) = [rest EXCEPT !.dirs = d, !.roms = g]
        BY <1>3, <1>4, <1>8, <2>1
    <2> QED BY <1>1, <1>5, <1>6, <1>8, <2>1, <2>2, Shape DEF sc
<1> QED BY <1>7, <1>8

\* What lies in a directory, without the order of the two passes over it.
LEMMA FoundIs ==
    ASSUME NEW s, NEW dir, NEW filter, NEW files
    PROVE  \A x : x \in ItemsUnder(s, dir, filter, files)
                  <=> \E f \in files : /\ f.dir = dir /\ x = ShownAs(s, f)
                                       /\ (s.scanDirs /\ f.sub # NoSub) \/ (~f.hidden /\ ExtMatches(s, f, filter))
BY DEF ItemsUnder, ShownAs

LEMMA NextInTodo ==
    ASSUME NEW p \in Scanners, scanner[p].todo # {}, Walk(p)
    PROVE  /\ Upcoming(p) \in scanner[p].todo /\ Upcoming(p) \in Work(scanner[p].out)
           /\ \A u \in scanner[p].todo : ~Before(u, Upcoming(p))
BY NextIs DEF Walk, Upcoming

\* The first alias of a directory: none of its games is in the list yet.
LEMMA FirstPart ==
    ASSUME NEW p \in Scanners, scanner[p].todo # {}, Walk(p), Gathered(p), ~runs[scanner[p].run].changed,
           FirstAlias(SystemList[Upcoming(p)[1]], DirAt(Upcoming(p))) = Upcoming(p)[2]
    PROVE  NewEntries(p) = PartAt(romFiles, art, scanner[p].thumbs, Upcoming(p))
<1> DEFINE w == Upcoming(p)
           s == SystemList[w[1]]
           thumbs == scanner[p].thumbs
<1>1. w \in scanner[p].todo /\ w \in Work(scanner[p].out) /\ w = <<w[1], w[2]>>
    BY NextInTodo, WorkIs
<1>2. \A x : x \in FoundBy(p)
             <=> \E f \in romFiles : /\ Belongs(s, f) /\ FirstAlias(s, f.dir) = w[2] /\ x = ShownAs(s, f)
    BY <1>1, FirstBrings DEF FoundBy
<1>3. ASSUME NEW x \in FoundBy(p), NEW r \in scanner[p].roms, r.sys = w[1], r.item = x PROVE FALSE
    <2>1. PICK u \in Done(p) : r \in PartAt(romFiles, art, thumbs, u)
        BY DEF Gathered, ListOf
    <2>2. PICK g \in romFiles : /\ FirstAlias(SystemList[u[1]], g.dir) = u[2]
                                /\ r.sys = u[1] /\ r.item = ShownAs(SystemList[u[1]], g)
        BY <2>1 DEF PartAt
    <2>3. PICK f \in romFiles : FirstAlias(s, f.dir) = w[2] /\ x = ShownAs(s, f)
        BY <1>2
    <2>4. ShownAs(s, f).dir = f.dir /\ ShownAs(s, g).dir = g.dir
        BY DEF ShownAs, ItemOf, DirItem
    <2>5. u[1] = w[1]
        BY <1>3, <2>2
    <2>6. u[2] = w[2]
        BY <1>3, <2>2, <2>3, <2>4, <2>5
    <2>7. u = <<u[1], u[2]>> /\ u \notin scanner[p].todo
        BY WorkIs DEF Done
    <2> QED BY <1>1, <2>5, <2>6, <2>7
<1>4. NewItems(p) = FoundBy(p)
    BY <1>3 DEF NewItems
<1>5. \A e : e \in NewEntries(p)
             <=> \E x : x \in FoundBy(p)
                   /\ e = [sys |-> w[1], alias |-> AliasAt(w).name, item |-> x, art |-> thumbs /\ x \in art]
    BY <1>4 DEF NewEntries
<1>6. \A e : e \in PartAt(romFiles, art, thumbs, w)
             <=> \E f \in romFiles :
                   /\ Belongs(s, f) /\ FirstAlias(s, f.dir) = w[2]
                   /\ e = [sys |-> w[1], alias |-> AliasAt(w).name, item |-> ShownAs(s, f),
                           art |-> thumbs /\ ShownAs(s, f) \in art]
    BY DEF PartAt
<1> HIDE DEF w, s, thumbs
<1>7. \A e : e \in NewEntries(p) <=> e \in PartAt(romFiles, art, thumbs, w)
    BY <1>2, <1>5, <1>6
<1> QED BY <1>7 DEF w, thumbs

\* A later alias of a directory that was forgotten: all it has is in the list.
LEMMA LaterPart ==
    ASSUME NEW p \in Scanners, scanner[p].todo # {}, Walk(p), Gathered(p), ~runs[scanner[p].run].changed,
           FirstIsWidest, NEW b \in DOMAIN SystemList[Upcoming(p)[1]].aliases, b < Upcoming(p)[2],
           FirstAlias(SystemList[Upcoming(p)[1]], DirAt(Upcoming(p))) = b, DirAt(<<Upcoming(p)[1], b>>) = DirAt(Upcoming(p))
    PROVE  NewEntries(p) = {}
<1> DEFINE w == Upcoming(p)
           s == SystemList[w[1]]
           thumbs == scanner[p].thumbs
           u == <<w[1], b>>
<1>1. /\ w \in scanner[p].todo /\ w \in Work(scanner[p].out) /\ w = <<w[1], w[2]>>
      /\ w[1] \in DOMAIN SystemList /\ w[2] \in DOMAIN s.aliases /\ s.enabled
    BY NextInTodo, WorkIs
<1>2. u \in Done(p)
    <2>1. u \in Work(scanner[p].out)
        BY <1>1, WorkIs
    <2>2. Before(u, w)
        BY DEF Before
    <2> QED BY <2>1, <2>2, NextInTodo DEF Done
<1>3. AliasAt(u).shared /\ b > 1 => w[2] > 1 /\ AliasAt(w).shared
    <2>1. b \in Nat /\ w[2] \in Nat
        BY <1>1, Positions
    <2>2. b > 1 /\ AliasAt(<<w[1], b>>).shared => AliasAt(<<w[1], w[2]>>).shared
        BY <1>1, Zenon DEF FirstIsWidest
    <2> QED BY <1>1, <2>1, <2>2
<1>4. ASSUME NEW x \in FoundBy(p)
      PROVE  \E r \in scanner[p].roms : r.sys = w[1] /\ r.item = x
    <2>1. PICK f \in romFiles :
            /\ f.dir = DirAt(w) /\ x = ShownAs(s, f)
            /\ (s.scanDirs /\ f.sub # NoSub) \/ (~f.hidden /\ ExtMatches(s, f, w[2] > 1 /\ AliasAt(w).shared))
        BY FoundIs DEF FoundBy
    <2>2. b # 0 /\ AliasAt(u) = s.aliases[b]
        BY <1>1, Positions DEF AliasAt
    <2>3. Belongs(s, f) /\ FirstAlias(s, f.dir) = b
        BY <1>1, <1>3, <2>1, <2>2 DEF Belongs, ExtMatches
    <2>4. [sys |-> w[1], alias |-> AliasAt(u).name, item |-> x, art |-> thumbs /\ x \in art]
            \in PartAt(romFiles, art, thumbs, u)
        BY <2>1, <2>3 DEF PartAt
    <2>5. [sys |-> w[1], alias |-> AliasAt(u).name, item |-> x, art |-> thumbs /\ x \in art] \in scanner[p].roms
        BY <1>2, <2>4 DEF Gathered, ListOf
    <2> QED BY <2>5
<1>5. NewItems(p) = {}
    BY <1>4 DEF NewItems
<1> QED BY <1>5 DEF NewEntries

\* One alias more: its part is added, whether it is scanned or skipped.
LEMMA NextPart ==
    ASSUME Types, Listed, RoomForDirs \/ FirstIsWidest, NEW p \in Scanners, ScanAlias(p),
           ~runs[scanner[p].run].changed
    PROVE  scanner'[p].roms = scanner[p].roms \cup PartAt(romFiles, art, scanner[p].thumbs, Upcoming(p))
<1> DEFINE w == Upcoming(p)
           o == scanner[p].out
           part == PartAt(romFiles, art, scanner[p].thumbs, w)
<1>1. Walk(p) /\ Gathered(p) /\ scanner[p].todo # {}
    BY DEF Listed, Progress, ScanAlias
<1>2. /\ w \in scanner[p].todo /\ w \in Work(o) /\ w = <<w[1], w[2]>>
      /\ w[1] \in DOMAIN SystemList /\ w[2] \in DOMAIN SystemList[w[1]].aliases /\ w[2] \in Nat
    BY <1>1, NextInTodo, WorkIs
<1>3. romFiles \in SUBSET AllFiles
    BY DEF Listed
<1>4. CASE DirAt(w) = NoDir
    <2>1. part = {}
        BY <1>2, <1>3, <1>4, NothingNew
    <2> QED BY <1>4, <2>1, AliasStep DEF Skipped
<1>5. CASE DirAt(w) # NoDir /\ Seen(scanner[p].dirs, w[1], DirAt(w))
    <2>1. PICK u \in Done(p) : <<w[1], DirAt(w)>> = <<u[1], DirAt(u)>>
        BY <1>1, <1>5 DEF Seen, Walk
    <2>2. u \in Work(o) /\ u \notin scanner[p].todo
        BY DEF Done
    <2>3. u[1] = w[1] /\ DirAt(u) = DirAt(w) /\ u = <<u[1], u[2]>> /\ u[2] \in Nat /\ u[2] \in DOMAIN SystemList[w[1]].aliases
        BY <2>1, <2>2, WorkIs
    <2>4. u[2] # w[2] /\ ~(w[2] < u[2])
        BY <1>1, <1>2, <2>2, <2>3 DEF Walk
    <2>5. u[2] < w[2] /\ DirAt(<<w[1], u[2]>>) = DirAt(w)
        BY <1>2, <2>3, <2>4
    <2>6. part = {}
        BY <1>2, <1>3, <2>3, <2>5, NothingNew
    <2> QED BY <1>5, <2>6, AliasStep DEF Skipped
<1>6. CASE ~Skipped(p)
    <2> DEFINE b == FirstAlias(SystemList[w[1]], DirAt(w))
    <2>1. b \in DOMAIN SystemList[w[1]].aliases /\ DirAt(<<w[1], b>>) = DirAt(w) /\ b <= w[2] /\ b \in Nat
        BY <1>2, FirstAliasIs, Positions
    <2>2. CASE b = w[2]
        BY <1>1, <1>6, <2>2, FirstPart, AliasStep
    <2>3. CASE b # w[2]
        <3>1. b < w[2]
            BY <1>2, <2>1, <2>3
        <3>2. part = {}
            BY <1>2, <1>3, <2>1, <3>1, NothingNew
        <3>3. CASE RoomForDirs
            <4>1. <<w[1], b>> \in Done(p)
                <5>1. <<w[1], b>> \in Work(o) /\ Before(<<w[1], b>>, w)
                    BY <1>2, <2>1, <3>1, WorkIs DEF Before
                <5> QED BY <1>1, <5>1, NextInTodo DEF Done
            <4>2. <<w[1], DirAt(w)>> \in scanner[p].dirs
                BY <1>1, <1>6, <2>1, <3>3, <4>1 DEF Walk, Skipped
            <4> QED BY <1>6, <4>2 DEF Skipped, Seen
        <3>4. CASE FirstIsWidest
            <4>1. NewEntries(p) = {}
                BY <1>1, <2>1, <3>1, <3>4, LaterPart
            <4> QED BY <1>6, <3>2, <4>1, AliasStep
        <3> QED BY <3>3, <3>4
    <2> QED BY <2>2, <2>3
<1> QED BY <1>4, <1>5, <1>6 DEF Skipped

LEMMA ScanAliasProgress ==
    ASSUME ScanInv, Listed, RoomForDirs \/ FirstIsWidest, NEW p \in Scanners, ScanAlias(p)
    PROVE  Progress(p)'
<1> DEFINE w == Upcoming(p)
           sc == scanner[p]
           o == sc.out
<1>1. Walk(p) /\ Gathered(p) /\ sc.todo # {} /\ Types
    BY DEF Listed, Progress, ScanAlias, ScanInv
<1>2. UNCHANGED <<romFiles, art, runs>>
    BY DEF ScanAlias, World
<1>3. w \in sc.todo /\ w \in Work(o) /\ w = <<w[1], w[2]>> /\ sc.todo \subseteq Work(o)
      /\ \A u \in sc.todo : ~Before(u, w)
    BY <1>1, NextInTodo, WorkIs DEF Walk
<1>4. scanner'[p].todo = sc.todo \ {w} /\ scanner'[p].out = o /\ scanner'[p].thumbs = sc.thumbs
      /\ scanner'[p].run = sc.run
    BY <1>1, AliasStep
<1>5. Done(p)' = Done(p) \cup {w}
    BY <1>3, <1>4 DEF Done
<1>6. \/ /\ Skipped(p)
         /\ scanner'[p].dirs = sc.dirs
      \/ /\ ~Skipped(p)
         /\ scanner'[p].dirs = Remembered(sc.dirs, w[1], DirAt(w))
    BY <1>1, AliasStep
<1>7. Walk(p)'
    <2>1. \A u \in sc.todo \ {w}, v \in Work(o) : u[1] = v[1] /\ u[2] < v[2] => v \in sc.todo \ {w}
        BY <1>1, <1>3 DEF Walk, Before
    <2>2. \A d \in scanner'[p].dirs : \E v \in Done(p) \cup {w} : d = <<v[1], DirAt(v)>> /\ DirAt(v) # NoDir
        <3>1. \A d \in scanner'[p].dirs : d \in sc.dirs \/ (d = <<w[1], DirAt(w)>> /\ DirAt(w) # NoDir)
            BY <1>6 DEF Remembered, Skipped
        <3> QED BY <1>1, <3>1 DEF Walk
    <2>3. ASSUME RoomForDirs
          PROVE  \A v \in Done(p) \cup {w} : DirAt(v) # NoDir => <<v[1], DirAt(v)>> \in scanner'[p].dirs
        <3>1. \A v \in Done(p) : DirAt(v) # NoDir => <<v[1], DirAt(v)>> \in sc.dirs
            BY <1>1, <2>3 DEF Walk
        <3>2. \A d \in sc.dirs : \E u \in Work(o) : d = <<u[1], DirAt(u)>> /\ DirAt(u) # NoDir
            BY <1>1 DEF Walk, Done
        <3>3. CASE Skipped(p)
            BY <1>6, <3>1, <3>3 DEF Skipped, Seen
        <3>4. CASE ~Skipped(p)
            <4>1. DirAt(w) # NoDir /\ <<w[1], DirAt(w)>> \notin sc.dirs
                BY <3>4 DEF Skipped, Seen
            <4>2. Remembered(sc.dirs, w[1], DirAt(w)) = sc.dirs \cup {<<w[1], DirAt(w)>>}
                BY <1>3, <2>3, <3>2, <4>1, Remembers
            <4> QED BY <1>6, <3>1, <3>4, <4>2
        <3> QED BY <3>3, <3>4
    <2>4. sc.thumbs = runs[sc.run].thumbs
        BY <1>1 DEF Walk
    <2> HIDE DEF w, sc, o
    <2> QED BY <1>2, <1>3, <1>4, <1>5, <2>1, <2>2, <2>3, <2>4 DEF Walk
<1>8. Gathered(p)'
    <2>1. ASSUME ~runs[sc.run].changed
          PROVE  scanner'[p].roms = ListOf(romFiles, art, sc.thumbs, Done(p) \cup {w})
        <3>1. scanner'[p].roms = sc.roms \cup PartAt(romFiles, art, sc.thumbs, w)
            BY <1>1, <2>1, NextPart
        <3>2. sc.roms = ListOf(romFiles, art, sc.thumbs, Done(p))
            BY <1>1, <2>1 DEF Gathered
        <3> QED BY <3>1, <3>2, OneMore
    <2> QED BY <1>2, <1>4, <1>5, <2>1 DEF Gathered
<1> QED BY <1>7, <1>8 DEF Progress

-----------------------------------------------------------------------------
(* The steps.                                                                 *)

\* A run that stays as it is stays exact while the card stays as it is.
LEMMA ExactStays ==
    ASSUME NEW r, UNCHANGED <<romFiles, art>>, runs'[r] = runs[r], Exact(r) PROVE Exact(r)'
BY DEF Exact

\* A scanner on which nothing happens is where it was.
LEMMA ProgressStays ==
    ASSUME NEW p \in Scanners, UNCHANGED <<romFiles, art>>, scanner'[p] = scanner[p],
           runs'[scanner[p].run] = runs[scanner[p].run], Progress(p)
    PROVE  Progress(p)'
BY DEF Progress, Walk, Gathered, Done

\* One scanner moves; the runs of the others and those on the card stay as they are.
LEMMA OneMoves ==
    ASSUME ScanInv, Listed, NEW p \in Scanners, UNCHANGED <<romFiles, art>>,
           \A q \in Scanners \ {p} : scanner'[q] = scanner[q],
           Len(runs') \in Nat, Len(runs) <= Len(runs'),
           \A r \in 1 .. Len(runs) : Exact(r) => Exact(r)',
           \A q \in Scanners \ {p} : Active(q) => runs'[scanner[q].run] = runs[scanner[q].run],
           \A i \in Inodes : \A k \in 1 .. 2 :
               \/ data'[i][k] \in {data[i][k], 0}
               \/ data'[i][k] \in 1 .. Len(runs) /\ Exact(data'[i][k]),
           (scanner[p].pc = "scan" => Progress(p))',
           (scanner[p].pc \notin {"idle", "scan"} => Exact(scanner[p].run))'
    PROVE  Listed'
<1>0. Len(runs) \in Nat
    BY DEF ScanInv, Types
<1>1. (romFiles \subseteq AllFiles)'
    BY DEF Listed
<1>2. ASSUME NEW i \in Inodes, NEW k \in 1 .. 2, data'[i][k] # 0
      PROVE  data'[i][k] \in 1 .. Len(runs') /\ Exact(data[i][k])'
    <2>1. data'[i][k] \in 1 .. Len(runs) /\ Exact(data'[i][k])
        BY <1>2 DEF Listed
    <2>2. PICK r \in 1 .. Len(runs) : r = data'[i][k] /\ Exact(r)
        BY <2>1
    <2>3. Exact(r)'
        BY <2>2
    <2>4. Exact(data[i][k])'
        BY <2>2, <2>3 DEF Exact
    <2> QED BY <1>0, <2>1, <2>4
<1>3. ASSUME NEW q \in Scanners
      PROVE  (/\ scanner[q].pc = "scan" => Progress(q)
              /\ scanner[q].pc \notin {"idle", "scan"} => Exact(scanner[q].run))'
    <2>1. CASE q = p
        BY <2>1
    <2>2. CASE q # p
        <3>1. scanner'[q] = scanner[q]
            BY <2>2
        <3>2. CASE scanner[q].pc = "idle"
            BY <3>1, <3>2
        <3>3. CASE scanner[q].pc = "scan"
            <4>1. Progress(q) /\ runs'[scanner[q].run] = runs[scanner[q].run]
                BY <2>2, <3>3 DEF Listed, Active
            <4> QED BY <3>1, <3>3, <4>1, ProgressStays
        <3>4. CASE scanner[q].pc \notin {"idle", "scan"}
            <4>1. Exact(scanner[q].run) /\ runs'[scanner[q].run] = runs[scanner[q].run]
                BY <2>2, <3>4 DEF Listed, Active
            <4>2. Exact(scanner[q].run)'
                BY <3>1, <4>1 DEF Exact
            <4> QED BY <3>1, <3>4, <4>2
        <3> QED BY <3>2, <3>3, <3>4
    <2> QED BY <2>1, <2>2
<1> QED BY <1>1, <1>2, <1>3 DEF Listed

LEMMA StartListed ==
    ASSUME ScanInv, Listed, NEW p \in Scanners, NEW o \in Outputs, NEW t \in BOOLEAN, Start(p, o, t) PROVE Listed'
<1> DEFINE run == [NoRun EXCEPT !.out = o, !.thumbs = t]
<1>1. /\ runs' = Append(runs, run) /\ UNCHANGED <<romFiles, art, data>>
      /\ scanner' = [scanner EXCEPT ![p] = [Idle EXCEPT !.pc = "scan", !.out = o, !.thumbs = t,
                                                        !.todo = Work(o), !.run = Len(runs) + 1]]
    BY DEF Start, Disk, World
<1>2. /\ scanner'[p].pc = "scan" /\ scanner'[p].out = o /\ scanner'[p].run = Len(runs) + 1
      /\ scanner'[p].todo = Work(o) /\ scanner'[p].dirs = {} /\ scanner'[p].roms = {} /\ scanner'[p].thumbs = t
      /\ \A q \in Scanners \ {p} : scanner'[q] = scanner[q]
    BY <1>1 DEF ScanInv, Types, Idle
<1>3. run.thumbs = t
    BY DEF NoRun
<1> HIDE DEF run
<1>4. /\ Len(runs) \in Nat /\ Len(runs') = Len(runs) + 1 /\ runs'[Len(runs) + 1] = run
      /\ \A r \in 1 .. Len(runs) : runs'[r] = runs[r]
    <2>1. PICK S : runs \in Seq(S)
        BY DEF ScanInv, Types
    <2>2. runs \in Seq(S \cup {run}) /\ run \in S \cup {run}
        BY <2>1
    <2> QED BY <1>1, <2>2, AppendProperties
<1>5. Progress(p)'
    <2>1. Done(p)' = {}
        BY <1>2 DEF Done
    <2>2. ListOf(romFiles', art', t, {}) = {}
        BY DEF ListOf
    <2> QED BY <1>2, <1>3, <1>4, <2>1, <2>2 DEF Progress, Walk, Gathered
<1>6. \A r \in 1 .. Len(runs) : Exact(r) => Exact(r)'
    BY <1>1, <1>4, ExactStays
<1>7. \A q \in Scanners \ {p} : Active(q) => runs'[scanner[q].run] = runs[scanner[q].run]
    BY <1>4 DEF ScanInv, Writers
<1>8. (scanner[p].pc \notin {"idle", "scan"} => Exact(scanner[p].run))'
    BY <1>2
<1>9. \A i \in Inodes : \A k \in 1 .. 2 : data'[i][k] \in {data[i][k], 0}
    BY <1>1
<1>10. UNCHANGED <<romFiles, art>> /\ Len(runs') \in Nat /\ Len(runs) <= Len(runs')
    BY <1>1, <1>4
<1> QED BY <1>2, <1>5, <1>6, <1>7, <1>8, <1>9, <1>10, OneMoves

LEMMA SortedListed ==
    ASSUME ScanInv, Listed, NEW p \in Scanners, Sorted(p) PROVE Listed'
<1>0. PICK k, run : k = scanner[p].run /\ run = [runs[k] EXCEPT !.roms = scanner[p].roms]
    OBVIOUS
<1>1. /\ scanner[p].pc = "scan" /\ scanner[p].todo = {} /\ runs' = [runs EXCEPT ![k] = run]
      /\ UNCHANGED <<romFiles, art, data>>
      /\ scanner' = [scanner EXCEPT ![p] = [scanner[p] EXCEPT !.pc = "open", !.roms = {}, !.dirs = {}]]
    BY <1>0 DEF Sorted, Disk, World
<1>2. k \in 1 .. Len(runs) /\ runs[k].out = scanner[p].out /\ Progress(p) /\ DOMAIN scanner[p] = Fields
    BY <1>0, <1>1 DEF ScanInv, Writers, Active, Listed, Types
<1>3. /\ scanner'[p].pc = "open" /\ scanner'[p].run = k
      /\ \A q \in Scanners \ {p} : scanner'[q] = scanner[q]
    BY <1>0, <1>1, <1>2, Shape DEF ScanInv, Types
<1>4. run.out = runs[k].out /\ run.thumbs = runs[k].thumbs /\ run.changed = runs[k].changed
      /\ run.roms = scanner[p].roms
    BY <1>0, <1>2 DEF ScanInv, Types, NoRun
<1>5. Len(runs) \in Nat /\ Len(runs') = Len(runs) /\ \A r \in 1 .. Len(runs) : runs'[r] = IF r = k THEN run ELSE runs[r]
    <2>1. PICK S : runs \in Seq(S)
        BY DEF ScanInv, Types
    <2>2. runs \in Seq(S \cup {run}) /\ run \in S \cup {run}
        BY <2>1
    <2> QED BY <1>1, <1>2, <2>2, ExceptSeq
<1>6. run.changed \/ run.roms = ListOf(romFiles, art, run.thumbs, Work(run.out))
    <2>1. Done(p) = Work(runs[k].out)
        BY <1>1, <1>2 DEF Done
    <2> QED BY <1>0, <1>2, <1>4, <2>1 DEF Progress, Gathered, Walk
<1>7. Exact(k)'
    BY <1>1, <1>2, <1>5, <1>6 DEF Exact
<1>8. \A r \in 1 .. Len(runs) : Exact(r) => Exact(r)'
    BY <1>1, <1>5, <1>7, ExactStays
<1>9. Exact(scanner[p].run)'
    BY <1>3, <1>7 DEF Exact
<1>10. \A q \in Scanners \ {p} : Active(q) => runs'[scanner[q].run] = runs[scanner[q].run]
    BY <1>0, <1>1, <1>5 DEF ScanInv, Writers, Active
<1> QED BY <1>1, <1>3, <1>5, <1>8, <1>9, <1>10, OneMoves

\* Writing the list: chunks of this run or none, until the scanner ends.
LEMMA WritingListed ==
    ASSUME ScanInv, Listed, NEW p \in Scanners, UNCHANGED <<romFiles, art, runs>>,
           \A q \in Scanners \ {p} : scanner'[q] = scanner[q], scanner[p].pc \notin {"idle", "scan"},
           \/ scanner'[p].pc = "idle"
           \/ scanner'[p].pc \notin {"idle", "scan"} /\ scanner'[p].run = scanner[p].run,
           \A i \in Inodes : \A k \in 1 .. 2 : data'[i][k] \in {data[i][k], 0, scanner[p].run}
    PROVE  Listed'
<1>1. Exact(scanner[p].run) /\ scanner[p].run \in 1 .. Len(runs) /\ Len(runs) \in Nat
    BY DEF Listed, ScanInv, Writers, Active, Types
<1>2. \A r \in 1 .. Len(runs) : Exact(r) => Exact(r)'
    BY ExactStays
<1>3. (scanner[p].pc \notin {"idle", "scan"} => Exact(scanner[p].run))'
    BY <1>1 DEF Exact
<1>4. \A i \in Inodes : \A k \in 1 .. 2 :
        data'[i][k] \in {data[i][k], 0} \/ (data'[i][k] \in 1 .. Len(runs) /\ Exact(data'[i][k]))
    BY <1>1
<1> QED BY <1>1, <1>2, <1>3, <1>4, OneMoves

LEMMA StepListed ==
    ASSUME ScanInv, Listed, RoomForDirs \/ FirstIsWidest, NEW p \in Scanners, Step(p) PROVE Listed'
<1>1. DOMAIN scanner = Scanners /\ DOMAIN scanner[p] = Fields /\ Idle.pc = "idle"
      /\ data \in [Inodes -> [1 .. 2 -> Nat]]
    BY DEF ScanInv, Types, Idle
<1>2. CASE ScanAlias(p)
    <2>1. UNCHANGED <<romFiles, art, runs, data>> /\ scanner'[p].pc = "scan"
          /\ \A q \in Scanners \ {p} : scanner'[q] = scanner[q]
        BY <1>2, AliasStep DEF ScanAlias, World, Disk, ScanInv
    <2>2. Progress(p)'
        BY <1>2, ScanAliasProgress
    <2>3. \A r \in 1 .. Len(runs) : Exact(r) => Exact(r)'
        BY <2>1, ExactStays
    <2>4. (scanner[p].pc \notin {"idle", "scan"} => Exact(scanner[p].run))'
        BY <2>1
    <2>5. Len(runs') \in Nat /\ Len(runs) <= Len(runs')
        BY <2>1 DEF ScanInv, Types
    <2> QED BY <2>1, <2>2, <2>3, <2>4, <2>5, OneMoves
<1>3. CASE Sorted(p)
    BY <1>3, SortedListed
<1>4. CASE OpenTmp(p)
    <2>1. scanner[p].pc = "open" /\ UNCHANGED <<romFiles, art, runs>>
          /\ \E i : /\ data' = [data EXCEPT ![i] = <<0, 0>>]
                    /\ scanner' = [scanner EXCEPT ![p] = [scanner[p] EXCEPT !.pc = "write", !.fd = i, !.chunk = 1]]
        BY <1>4 DEF OpenTmp, World
    <2>2. scanner'[p].pc = "write" /\ scanner'[p].run = scanner[p].run
          /\ \A q \in Scanners \ {p} : scanner'[q] = scanner[q]
        BY <1>1, <2>1, Shape
    <2>3. \A i \in Inodes : \A k \in 1 .. 2 : data'[i][k] \in {data[i][k], 0}
        BY <1>1, <2>1
    <2> QED BY <2>1, <2>2, <2>3, WritingListed
<1>5. CASE WriteChunk(p)
    <2>1. scanner[p].pc = "write" /\ UNCHANGED <<romFiles, art, runs>>
          /\ data' \in {data, [data EXCEPT ![scanner[p].fd] = [data[scanner[p].fd] EXCEPT ![scanner[p].chunk] = scanner[p].run]]}
        BY <1>5 DEF WriteChunk, World
    <2>2. \E c, l, n : n \in {"write", "sync"} /\
            scanner' = [scanner EXCEPT ![p] = [scanner[p] EXCEPT !.chunk = c, !.lost = l, !.pc = n]]
        BY <1>5 DEF WriteChunk
    <2>3. scanner'[p].pc \in {"write", "sync"} /\ scanner'[p].run = scanner[p].run
          /\ \A q \in Scanners \ {p} : scanner'[q] = scanner[q]
        BY <1>1, <2>2, Shape
    <2>4. \A i \in Inodes : \A k \in 1 .. 2 : data'[i][k] \in {data[i][k], scanner[p].run}
        BY <1>1, <2>1
    <2> QED BY <2>1, <2>3, <2>4, WritingListed
<1>6. CASE SyncTmp(p)
    <2>1. scanner[p].pc = "sync" /\ UNCHANGED <<romFiles, art, runs, data>>
          /\ scanner' = [scanner EXCEPT ![p] = [scanner[p] EXCEPT !.pc = "rename", !.fd = None]]
        BY <1>6 DEF SyncTmp, World
    <2>2. scanner'[p].pc = "rename" /\ scanner'[p].run = scanner[p].run
          /\ \A q \in Scanners \ {p} : scanner'[q] = scanner[q]
        BY <1>1, <2>1, Shape
    <2> QED BY <2>1, <2>2, WritingListed
<1>7. CASE Rename(p)
    <2>1. scanner[p].pc = "rename" /\ UNCHANGED <<romFiles, art, runs, data>>
          /\ scanner' = [scanner EXCEPT ![p] = [scanner[p] EXCEPT !.pc = "dirsync"]]
        BY <1>7 DEF Rename, World
    <2>2. scanner'[p].pc = "dirsync" /\ scanner'[p].run = scanner[p].run
          /\ \A q \in Scanners \ {p} : scanner'[q] = scanner[q]
        BY <1>1, <2>1, Shape
    <2> QED BY <2>1, <2>2, WritingListed
<1>8. CASE SyncFails(p) \/ RenameFails(p) \/ DirSync(p) \/ DirSyncFails(p)
    <2>1. scanner[p].pc \in {"sync", "rename", "dirsync"} /\ UNCHANGED <<romFiles, art, runs, data>> /\ Exit(p)
        BY <1>8 DEF SyncFails, RenameFails, GiveUp, DirSync, DirSyncFails, World, Disk
    <2>2. scanner'[p].pc = "idle" /\ \A q \in Scanners \ {p} : scanner'[q] = scanner[q]
        BY <1>1, <2>1 DEF Exit
    <2> QED BY <2>1, <2>2, WritingListed
<1> QED BY <1>2, <1>3, <1>4, <1>5, <1>6, <1>7, <1>8 DEF Step

\* A change of the card is one for all runs so far.
LEMMA ChangeListed ==
    ASSUME ScanInv, Listed, CardChanges \/ ArtworkArrives PROVE Listed'
<1>1. /\ runs' = [r \in 1 .. Len(runs) |-> [runs[r] EXCEPT !.changed = TRUE]]
      /\ UNCHANGED <<scanner, data>> /\ romFiles' \subseteq AllFiles
    BY DEF CardChanges, ArtworkArrives, MarkChanged, Disk, ScanInv, Types, Listed
<1>2. \A r \in 1 .. Len(runs) : DOMAIN runs[r] = DOMAIN NoRun
    BY DEF ScanInv, Types
<1>3. \A r \in 1 .. Len(runs) : runs'[r].changed = TRUE /\ runs'[r].thumbs = runs[r].thumbs
    BY <1>1, <1>2, Shape
<1>4. \A r \in 1 .. Len(runs) : Exact(r)'
    BY <1>3 DEF Exact
<1>5. Len(runs') = Len(runs)
    BY MarkedRuns DEF CardChanges, ArtworkArrives, ScanInv
<1>6. \A p \in Scanners : Active(p) => scanner[p].run \in 1 .. Len(runs)
    BY DEF ScanInv, Writers
<1>7. ASSUME NEW p \in Scanners, scanner[p].pc = "scan" PROVE Progress(p)'
    <2>1. scanner[p].run \in 1 .. Len(runs) /\ Progress(p)
        BY <1>6, <1>7 DEF Active, Listed
    <2> QED BY <1>1, <1>3, <2>1 DEF Progress, Walk, Gathered, Done
<1>8. ASSUME NEW p \in Scanners, scanner[p].pc \notin {"idle", "scan"} PROVE Exact(scanner[p].run)'
    <2>1. PICK r \in 1 .. Len(runs) : r = scanner[p].run
        BY <1>6, <1>8 DEF Active
    <2>2. Exact(r)'
        BY <1>4
    <2> QED BY <1>1, <2>1, <2>2 DEF Exact
<1>9. ASSUME NEW i \in Inodes, NEW k \in 1 .. 2, data[i][k] # 0
      PROVE  data'[i][k] \in 1 .. Len(runs') /\ Exact(data[i][k])'
    <2>1. PICK r \in 1 .. Len(runs) : r = data[i][k]
        BY <1>9 DEF Listed
    <2>2. Exact(r)'
        BY <1>4
    <2> QED BY <1>1, <1>5, <2>1, <2>2 DEF Exact
<1> QED BY <1>1, <1>7, <1>8, <1>9 DEF Listed

\* A power loss ends the scans; of what was written some chunks may be gone.
LEMMA PowerLossListed ==
    ASSUME ScanInv, Listed, PowerLoss PROVE Listed'
<1>1. scanner' = [p \in Scanners |-> Idle] /\ UNCHANGED <<romFiles, art, runs>> /\ Idle.pc = "idle"
    BY DEF PowerLoss, Idle
<1>2. PICK cut : data' = [i \in Inodes |-> IF i \in DOMAIN cut THEN [k \in 1 .. 2 |-> IF k <= cut[i] THEN data[i][k] ELSE 0]
                                           ELSE data[i]]
    BY DEF PowerLoss
<1>3. \A i \in Inodes : \A k \in 1 .. 2 : data'[i][k] \in {data[i][k], 0}
    BY <1>2
<1>4. ASSUME NEW i \in Inodes, NEW k \in 1 .. 2, data'[i][k] # 0
      PROVE  data'[i][k] \in 1 .. Len(runs') /\ Exact(data[i][k])'
    <2>1. PICK r \in 1 .. Len(runs) : r = data'[i][k] /\ r = data[i][k] /\ Exact(r)
        BY <1>3, <1>4 DEF Listed
    <2>2. Exact(r)'
        BY <1>1, <2>1, ExactStays
    <2> QED BY <1>1, <2>1, <2>2 DEF Exact
<1> QED BY <1>1, <1>4 DEF Listed

LEMMA ListedStays ==
    ASSUME Listed, UNCHANGED <<romFiles, art, runs, scanner, data>> PROVE Listed'
BY DEF Listed, Exact, Progress, Walk, Gathered, Done

LEMMA ListedInit == ScanInit => Listed
<1> SUFFICES ASSUME ScanInit PROVE Listed
    OBVIOUS
<1>1. Idle.pc = "idle"
    BY DEF Idle
<1>2. \A i \in Inodes : \A k \in 1 .. 2 : data[i][k] = 0
    BY DEF ScanInit
<1> QED BY <1>1, <1>2, FilesAssumption DEF ScanInit, Listed

LEMMA ListedNext ==
    ASSUME RoomForDirs \/ FirstIsWidest, ScanInv, Listed, [ScanNext]_scanVars PROVE Listed'
<1>1. CASE \E p \in Scanners : \E o \in Outputs, t \in BOOLEAN : Start(p, o, t)
    BY <1>1, StartListed
<1>2. CASE \E p \in Scanners : Step(p)
    BY <1>2, StepListed
<1>3. CASE CardChanges \/ ArtworkArrives
    BY <1>3, ChangeListed
<1>4. CASE CardFills \/ CardGetsRoom \/ UNCHANGED scanVars
    <2>1. UNCHANGED <<romFiles, art, runs, scanner, data>>
        BY <1>4 DEF CardFills, CardGetsRoom, scanVars, World
    <2> QED BY <2>1, ListedStays
<1>5. CASE PowerLoss
    BY <1>5, PowerLossListed
<1> QED BY <1>1, <1>2, <1>3, <1>4, <1>5 DEF ScanNext

\* What a scan should list is what its aliases bring.
LEMMA ExpectedIs ==
    ASSUME NEW r PROVE Expected(r) = ListOf(romFiles, art, r.thumbs, Work(r.out))
<1> DEFINE E(i, f) == [sys |-> i, alias |-> SystemList[i].aliases[FirstAlias(SystemList[i], f.dir)].name,
                       item |-> ShownAs(SystemList[i], f), art |-> r.thumbs /\ ShownAs(SystemList[i], f) \in art]
           Here(i) == r.out \in {Full, SystemList[i].id}
<1>1. \A e : e \in Expected(r) <=> \E i \in DOMAIN SystemList : \E f \in romFiles :
                                     Here(i) /\ Belongs(SystemList[i], f) /\ e = E(i, f)
    BY DEF Expected, ExpectedOf, Entry, HasArt
<1>2. \A e : e \in ListOf(romFiles, art, r.thumbs, Work(r.out))
             <=> \E w \in Work(r.out) : \E f \in romFiles :
                   /\ Belongs(SystemList[w[1]], f) /\ FirstAlias(SystemList[w[1]], f.dir) = w[2]
                   /\ e = E(w[1], f)
    BY DEF ListOf, PartAt, AliasAt
<1> HIDE DEF E
<1>3. ASSUME NEW i \in DOMAIN SystemList, NEW f \in romFiles, Here(i), Belongs(SystemList[i], f)
      PROVE  <<i, FirstAlias(SystemList[i], f.dir)>> \in Work(r.out)
    <2>1. FirstAlias(SystemList[i], f.dir) \in DOMAIN SystemList[i].aliases /\ SystemList[i].enabled
        BY <1>3, NoAlias DEF Belongs
    <2> QED BY <1>3, <2>1 DEF Work, Chosen
<1>4. \A e : e \in Expected(r) => e \in ListOf(romFiles, art, r.thumbs, Work(r.out))
    <2> SUFFICES ASSUME NEW i \in DOMAIN SystemList, NEW f \in romFiles, Here(i), Belongs(SystemList[i], f), NEW e, e = E(i, f)
                 PROVE  e \in ListOf(romFiles, art, r.thumbs, Work(r.out))
        BY <1>1
    <2>1. PICK w \in Work(r.out) : w[1] = i /\ w[2] = FirstAlias(SystemList[i], f.dir)
        BY <1>3
    <2> QED BY <1>2, <2>1
<1>5. \A e : e \in ListOf(romFiles, art, r.thumbs, Work(r.out)) => e \in Expected(r)
    <2>1. \A w \in Work(r.out) : w[1] \in DOMAIN SystemList /\ Here(w[1])
        BY WorkIs
    <2> HIDE DEF Here
    <2> QED BY <1>1, <1>2, <2>1
<1> QED BY <1>4, <1>5

\* Every part of a list in place holds exactly what belongs on it: each game once, under the
\* first alias that leads to it, archives of a shared directory only for the
\* system that owns it, with its artwork (scan_systems, scan_alias_dir,
\* add_rom_entry), when neither the card nor the artwork has changed since the
\* scan began, also after failed writes and power losses; where all directories
\* are remembered, or the first alias of a directory lists the most.
THEOREM ListsAreExact ==
    ASSUME RoomForDirs \/ FirstIsWidest PROVE ScanSpec => []ListExact
<1>1. ScanInv /\ Listed => ListExact
    <2> SUFFICES ASSUME ScanInv, Listed, NEW o \in Outputs, names[List(o)] # None, NEW k \in 1 .. 2,
                        data[names[List(o)]][k] # 0, ~runs[data[names[List(o)]][k]].changed
                 PROVE  runs[data[names[List(o)]][k]].roms = Expected(runs[data[names[List(o)]][k]])
        BY DEF ListExact
    <2>1. PICK i : i = names[List(o)]
        OBVIOUS
    <2>2. i \in Inodes
        BY <2>1, NamesAreApart DEF ScanInv, Types
    <2>3. Exact(data[i][k])
        BY <2>1, <2>2 DEF Listed
    <2> QED BY <2>1, <2>3, ExpectedIs DEF Exact
<1>2. ScanInit => Listed
    BY ListedInit
<1>3. ScanInv /\ Listed /\ [ScanNext]_scanVars => Listed'
    BY ListedNext
<1> QED BY <1>1, <1>2, <1>3, ScansKeepOrder, PTL DEF ScanSpec
=============================================================================
