--------------------------- MODULE DeviceSettings ---------------------------
(***************************************************************************)
(* config/system/settings.json and its three writers: the settings screen  *)
(* of the frontend, the helpers that the hardware key daemon runs after a  *)
(* volume or brightness key, and the volume helper that the launcher runs  *)
(* when a game ends.  Each reads the file, edits a copy and renames the    *)
(* copy over it; nothing is locked.  The level in force is in tmpfs        *)
(* (volume) or in the backlight (brightness).                              *)
(*                                                                         *)
(* The file is on ext4: a rename is whole, but a power loss may bring back *)
(* any of the files since the last sync.                                   *)
(***************************************************************************)
EXTENDS Integers

CONSTANTS
    Floor, Top,    \* lowest and highest level of each kind
    MaxPresses     \* bound: volume and brightness keys

Kinds == {"volume", "brightness"}

Keys == Kinds \cup {"other"}

Writers == {"keys", "launcher"}

ASSUME LevelsAssumption ==
    /\ Floor \in [Kinds -> Nat] /\ Top \in [Kinds -> Nat]
    /\ \A k \in Kinds : Floor[k] < Top[k]
    /\ MaxPresses \in Nat

NoValue == -1

VARIABLES
    file,       \* settings.json
    versions,   \* what a power loss may leave of it
    runtime,    \* /run/plumos/volume/current, /run/plumos/display/brightness
    shown,      \* level of the backlight
    device,     \* ui->device: the frontend's copy of the file
    saving,     \* the save that the settings screen makes
    helper,     \* the persist-runtime helper of each writer
    pending,    \* volume_pending, display_pending of the key daemon
    presses     \* keys pressed

settings == <<file, versions, runtime, shown, device, saving, helper, pending, presses>>

Clamp(k, v) == IF v < Floor[k] THEN Floor[k] ELSE IF v > Top[k] THEN Top[k] ELSE v

Idle == [step |-> "idle"]

Level(k) == IF runtime[k] = NoValue THEN file[k] ELSE runtime[k]

DeviceInit ==
    /\ file = [k \in Keys |-> IF k \in Kinds THEN Top[k] ELSE 0]
    /\ versions = {file} /\ device = file
    /\ runtime = [volume |-> file["volume"], brightness |-> NoValue]
    /\ shown = file["brightness"]
    /\ saving = Idle /\ helper = [w \in Writers |-> Idle]
    /\ pending = {} /\ presses = 0

-----------------------------------------------------------------------------
(* Keys *)

(* One step up or down of the level in force, in tmpfs only; the daemon    *)
(* does it itself (volume) or waits for the helper (brightness).           *)
Press(k, direction) ==
    /\ helper["keys"] = Idle /\ presses < MaxPresses
    /\ LET level == Clamp(k, Level(k) + direction) IN
        /\ runtime' = [runtime EXCEPT ![k] = level]
        /\ shown' = IF k = "brightness" THEN level ELSE shown
    /\ pending' = pending \cup {k} /\ presses' = presses + 1
    /\ UNCHANGED <<file, versions, device, saving, helper>>

-----------------------------------------------------------------------------
(* persist-runtime *)

HelperReads(w, k) ==
    /\ helper[w] = Idle /\ (w = "keys" => k \in pending)
    /\ helper' = [helper EXCEPT ![w] = [step |-> "read", kind |-> k, level |-> Level(k)]]
    /\ UNCHANGED <<file, versions, runtime, shown, device, saving, pending, presses>>

(* Mutant: every save writes the short file.                               *)
MutantEdited(k, level) == [other \in Keys |-> IF other = k THEN level ELSE NoValue]

(* sed when the key is there, else a file of its own.                      *)
Edited(k, level) ==
    IF file[k] # NoValue THEN [file EXCEPT ![k] = level]
    ELSE [other \in Keys |-> IF other = k THEN level ELSE NoValue]

HelperCopies(w) ==
    /\ helper[w].step = "read"
    /\ helper' = [helper EXCEPT ![w] = [step |-> "copied", kind |-> helper[w].kind, level |-> helper[w].level,
                                        copy |-> Edited(helper[w].kind, helper[w].level)]]
    /\ UNCHANGED <<file, versions, runtime, shown, device, saving, pending, presses>>

HelperReplaces(w) ==
    /\ helper[w].step = "copied"
    /\ file' = helper[w].copy /\ versions' = versions \cup {file'}
    /\ helper' = [helper EXCEPT ![w] = [step |-> "replaced", kind |-> helper[w].kind, level |-> helper[w].level]]
    /\ UNCHANGED <<runtime, shown, device, saving, pending, presses>>

(* The level that was read comes into force again: volume in tmpfs,        *)
(* brightness in the backlight, whose tmpfs level is removed.              *)
HelperWritesBack(w) ==
    /\ helper[w].step = "replaced"
    /\ LET k == helper[w].kind IN
        /\ runtime' = [runtime EXCEPT ![k] = IF k = "volume" THEN helper[w].level ELSE NoValue]
        /\ shown' = IF k = "brightness" THEN helper[w].level ELSE shown
        /\ pending' = IF w = "keys" THEN pending \ {k} ELSE pending
    /\ helper' = [helper EXCEPT ![w] = Idle]
    /\ UNCHANGED <<file, versions, device, saving, presses>>

(* The copy or the rename fails; the daemon keeps the level pending.       *)
HelperFails(w) ==
    /\ helper[w].step \in {"read", "copied"}
    /\ helper' = [helper EXCEPT ![w] = Idle]
    /\ UNCHANGED <<file, versions, runtime, shown, device, saving, pending, presses>>

Helper(w) == HelperCopies(w) \/ HelperReplaces(w) \/ HelperWritesBack(w) \/ HelperFails(w)

-----------------------------------------------------------------------------
(* Frontend *)

(* LEFT or RIGHT on a setting: the new value counts from the frontend's    *)
(* copy, the other keys are those of the file now.                         *)
NextLevel(k, direction) == Clamp(k, device[k] + direction)

NextChoice(k) == 1 - device[k]

SaveBegins(k, direction) ==
    /\ saving = Idle
    /\ LET value == IF k \in Kinds THEN NextLevel(k, direction) ELSE NextChoice(k) IN
        saving' = [step |-> "copied", key |-> k, value |-> value, copy |-> [file EXCEPT ![k] = value]]
    /\ UNCHANGED <<file, versions, runtime, shown, device, helper, pending, presses>>

(* fsync, rename, sync.                                                    *)
SaveReplaces ==
    /\ saving.step = "copied"
    /\ file' = saving.copy /\ versions' = {file'}
    /\ device' = [device EXCEPT ![saving.key] = saving.value]
    /\ saving' = [step |-> "saved", key |-> saving.key]
    /\ UNCHANGED <<runtime, shown, helper, pending, presses>>

VolumeApplied == [runtime EXCEPT !["volume"] = device["volume"]]

(* The helper's apply with a level: for volume it writes tmpfs, for        *)
(* brightness the backlight alone.  Then the list is read again.           *)
SaveApplies ==
    /\ saving.step = "saved"
    /\ runtime' = IF saving.key = "volume" THEN VolumeApplied ELSE runtime
    /\ shown' = IF saving.key = "brightness" THEN device["brightness"] ELSE shown
    /\ device' = file /\ saving' = Idle
    /\ UNCHANGED <<file, versions, helper, pending, presses>>

SaveFails ==
    /\ saving.step = "copied" /\ saving' = Idle
    /\ UNCHANGED <<file, versions, runtime, shown, device, helper, pending, presses>>

(* load_device_settings: a settings screen opens, a game has ended.        *)
Reload ==
    /\ saving = Idle /\ device' = file
    /\ UNCHANGED <<file, versions, runtime, shown, saving, helper, pending, presses>>

(* Before the first screen is shown the frontend applies the brightness of *)
(* its copy once more.                                                     *)
ApplyBrightness ==
    /\ shown' = device["brightness"]
    /\ UNCHANGED <<file, versions, runtime, device, saving, helper, pending, presses>>

-----------------------------------------------------------------------------
(* The power goes; the daemon and the frontend start with the saved levels.*)
RestartWith(saved) ==
    /\ file' = saved /\ versions' = {saved} /\ device' = saved
    /\ runtime' = [volume |-> saved["volume"], brightness |-> NoValue]
    /\ shown' = saved["brightness"]
    /\ saving' = Idle /\ helper' = [w \in Writers |-> Idle]
    /\ pending' = {} /\ UNCHANGED presses

(* No writer ever leaves a file without one of the settings, on the card   *)
(* now or after a power loss: whole files are copied and renamed, and the  *)
(* short file of the helpers is for a missing key only.                    *)
KeysKept == \A f \in versions \cup {file} : \A k \in Keys : f[k] # NoValue
=============================================================================
