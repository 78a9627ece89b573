# plumOS for the V90S: specifications, model checking and proofs

plumOS is a Linux distribution for the V90S handheld. Its own programs are a
C frontend, a few resident C programs, an ALSA plug-in, a Python updater, and
many POSIX shell scripts from the initramfs to the final power action. This
directory holds TLA+ models of the parts whose correctness depends on the order
of their steps (what is on the card when power goes, which process owns a
device, what a waiting process does not see, which list is behind a screen), the
TLC configurations that check them and TLAPS proofs of their safety properties.

Paths are relative to the repository. `PROJECT.json` lists components, runs,
mutants (a plausible bug for each property, with the property TLC then finds
violated), the map from definitions to source lines, hazards and theorems.

Contents: [1 inventory](#1-inventory) · [2
modules](#2-modules-and-how-they-correspond-to-the-code)
· [3 runs](#3-runs) · [4 fairness](#4-fairness) · [5 proofs](#5-proofs)
· [6 disagreements](#6-where-code-and-documentation-disagree) ·
[7 observations](#7-other-observations) · [8 not modelled](#8-not-modelled)
· [9 plan](#9-plan)

## 1. Inventory

The card has four partitions: p1 PLUMBOOT (two system slots, FAT), p2 with kernel
and initramfs, p3 PLUMOS_SYS (ext4: the runtime under `/mnt/plumos`, update
state, provisioning marks) and p4 PLUMOS (FAT32: the user's roms, saves, images). A
boot runs U-Boot, the initramfs, init, the app layer bootstrap and the frontend.

### The system under the programs

**Runtime updater** (`scripts/plumos-system-update.py`: `request`,
`apply_runtime`, `rollback_runtime`, `recover_prior_runtime`, `mark_healthy`).
State: the live tree, `backups/update-previous`, the journal
`runtime-transaction.json`, `runtime-pending.json`, `request.json`, a lock file
in `/run`. Operations: `request-latest` from the frontend, `apply-pending` by
init before the frontend, `mark-healthy` by a background loop of init once the
frontend has drawn. Interaction: the bootstrap accepts or refuses the tree by
`VERSION` and `checksums.sha256`. Hard: power may go between any two of the
durable steps, any write may fail, and the three callers share the lock. Correct
when the frontend always finds a whole release, a rollback restores the tree
that the transaction started from, the journal's verdict is true, and `VERSION`
changes last.

**System updater** (same script: `apply_system`, `mark_healthy`;
`scripts/v90s-four-partition-init`: slot selection, verification, fast boot).
State: image, digest and verified digest of both slots, `system-active`,
`system-pending`, `system-pending-attempted`, the request, the clean-shutdown
marks. Operations: stage, trial boot, promote, reject. Hard: staging over FAT
without ordering before `os.sync`, four files that must change together, a
request that the trial boot still finds, a fast boot that checks no digest.
Correct when the device always finds an intact slot, only intact images run,
each candidate gets one trial, and only a ready trial is promoted.

**Persistent storage** (initramfs provisioning and fast boot;
`scripts/plumos-power-action-rootfs.sh`: clean marks and final unmounts). State:
partition sizes, the file system on p3, p4, the marks on both, what is mounted
and in use. Hard: every step of the first boot may be the last one before a
power cut; marks announce work that is not done yet; FAT writes reach the card in
any order; a program may keep a partition busy. Correct when `complete` and
`.plumos-ready` are true, checks are left out only after a clean shutdown, the
user's file systems are never formatted.

**USB Disk Mode** (`package/network-services/plumos/bin/plumos-usb-disk-mode`,
with `plumos-adbd`, `plumos-adb-uevent` and the service scripts as it uses
them). State: shell variables of each helper process, p4 mounts and bindings,
the gadget bound to the one USB controller, `services.conf` and its copy, restore
marks in `/run`, the command mailbox. Operations: enter, leave, mount, unmount,
commands, the signal trap. Hard: a helper may be interrupted between any two
commands, ADB's recovery wakes up by itself, the PC may disappear, no lock
orders the helpers. Correct when p4 has one owner, is checked after the PC had
it, a batch runs once, and everything that was paused comes back.

**Hardware key daemon** (`src/services/plumos_v90s_hardware_keys.c`). State:
open nodes, keys seen, the held direction, the Select + Start timer and latch,
repeat, menu and save timers, levels that still have to be saved. Operations:
one `poll` loop that reads three devices, waits for helpers (power menu, stop
port, brightness, save) and repeats or saves. Hard: while a helper runs, keys
move and events queue; a node may go away with its releases; helpers fail.
Correct when no key is remembered that is up, a port is stopped by a deliberate
hold and once, the menu does not reopen by its own key presses, and changed
levels reach `settings.json`.

**Audio router** (`package/audio-router-v90s/plumos_hotplug.c`). The PCM that
every program plays to. State: the physical card and its PCM, `submitted_ptr`,
the probe countdown, the producer's speed, a recovery that is due. Operations:
the ioplug callbacks that alsa-lib calls in the program's thread. Hard: a USB
DAC goes or comes inside a transfer or between a transfer and the question for
the position; XRUN and suspend recovery; positions known modulo the buffer only.
Correct when the position never passes the program's own, playback goes on and
ends up on the card that is there.

### The frontend

**Controller frontend** (`src/frontend/plumos_controller_ui.c`). One process, one
`struct ui_state`, one `poll` loop. Five aspects of it are modelled, each with
the state it needs:

- *Screens*: which screen a key leads to; `back_screen`, `power_back_screen`,
  `core_back_screen` and `gallery_back_screen` to return by; the list loaded behind the
  screen; the USB Disk Mode helper that the loop starts and watches. Hard: one
  return variable per menu, lists that menus replace, loads that fail.
- *Input*: the gamepad and the Power key are read together, directions repeat, a
  child that was started blocks the loop while its keys queue up. Hard: what was
  pressed for a game must not act on the list.
- *Game lists*: directories, Favorites, Recent, gallery; cursor, cursor memory,
  stars; a scan in the background that replaces the list shown.
- *Launch*: the frontend runs `plumos-text-ui launch`
  (`src/frontend/plumos_text_ui.c`), which resolves the profile, saves
  `recent.json` and `resume-session.json`, runs the emulator and clears the
  session; `boot` runs the head of the recent list again. Hard: power lost
  between two saves, lists at their limit, profiles that a release no longer has.
- *Levels*: `settings.json` is read, edited and replaced by the settings screen,
  by the key daemon's helper and by the launcher's, without a lock; the levels in
  force are in tmpfs and in the backlight.

**Library scanner** (`src/frontend/plumos_library_scan.c`). Lists the games of a
system or of all of them into a file that the frontend reads. Hard: a power cut at
any step of the replacement, a full card, two scanners at once, aliases
that lead to one directory. Correct when the list read is whole and lists what
belongs on it, once.

**Music player** (`src/apps/plumos_music_player.c`). A main loop for keys and
drawing and an audio thread share one `player_state` under a lock. Hard: seeks
asked by one thread and made by the other, tracks that do not open, outputs that
go away or block. Correct when the time shown is the time heard, playing comes to
its end, and B leaves whatever the output does.

### Components that are not (fully) modelled

| component | state and operations | what is hard | correct when |
|---|---|---|---|
| Power menu overlay, `plumos-power-menu-overlay` | lock directory, stopped display owners, frame hold | a kill leaves stopped processes | every stopped process continues |
| Frontend network jobs, scraper, thumbnails | child processes and result files | jobs that end after their screen | results match the current state |
| Emulator launch and stop scripts, PortMaster adapter | process groups, pid files, display ownership | stop racing a start | one owner, no survivors |
| Network control, Wi-Fi recovery, SSH, clock | profiles, daemons, `services.conf` | recovery against the user's disable | the user's choice wins |
| Safe shutdown, SD2 content mounts | jobs, overlay mounts | a job that does not end | see Storage |
| Factory reset | the settings files, one after the other | a crash in the middle | old or default, not mixed |
| Renderer, build and image scripts | pixels, images, caches | little concurrency | functional |

The frontend calls the updater (`plumos_controller_ui.c:11578-11624`) and USB
Disk Mode (`10821-10904`); it proves to init that it draws with a flag file
(`255`). It starts scanners in the background (`12348`) or waits for them, and
launches games through the text frontend. The key daemon starts the overlay, the
overlay the safe shutdown, that the power action. The power action asks programs
to stop, records the marks and unmounts; the next initramfs reads the marks. USB
Disk Mode takes p4 and the USB controller away from the services and ADB. Key
daemon, launcher and frontend meet in `settings.json`.

## 2. Modules and how they correspond to the code

| module | content |
|---|---|
| `RuntimeUpdate`, `MCRuntimeUpdate` | runtime half of the updater with init and the frontend's readiness; releases and files for TLC |
| `RuntimeUpdateInv`, `RuntimeUpdateProofs` | its inductive invariant and theorems |
| `TrialBoot` | abstract contract of a system update |
| `SystemUpdate`, `SystemUpdateProofs` | system half with the initramfs; implements `TrialBoot` |
| `Storage` | p3 and p4 from first boot to shutdown |
| `UsbDiskMode`, `UsbDiskModeProofs` | helper processes, p4, controller, services, mailbox |
| `HardwareKeys`, `MCHardwareKeys`, `HardwareKeysProofs` | the input daemon, and the devices it is checked on |
| `AudioRouter` | the PCM plug-in with program, cards and physical PCM |
| `FrontendScreens` | which screen is shown and what is remembered behind it |
| `FrontendInput` | how the frontend's loop takes its keys |
| `FrontendProofs` | theorems of `FrontendScreens` and `FrontendInput` |
| `RomBrowser`, `MCRomBrowser` | game lists, directories, gallery, cursor memory, stars, scans in the background |
| `LibraryScan`, `MCLibraryScan` | scanner processes and the list files on the card |
| `CardProofs` | theorems of `Storage` and `LibraryScan` |
| `DeviceSettings` | `settings.json` and its three writers |
| `GameLaunch`, `MCGameLaunch` | launcher, recents, session, profiles; composed with `DeviceSettings` |
| `GameProofs` | theorems of `GameLaunch` with `DeviceSettings`, and of `RomBrowser` |
| `MusicPlayer`, `MCMusicPlayer` | main loop, audio thread, list of tracks |
| `SoundProofs` | theorems of `AudioRouter` and `MusicPlayer` |

Where the theorems of two components share a module, one of the two gives its
operators names of their own (`InputSpec`, `ScanSpec`, `BrowserSpec`, `PlayerSpec`,
with `InputNext` and so on).

**RuntimeUpdate.** `live` and `backup` are functions from managed paths to
contents; paths are numbered in `runtime_sort_key` order, so that the loop of
`apply_runtime` takes the smallest and the reversed loop of `rollback_runtime`
the largest path left in `todo`. `pc` goes through `recover_prior_runtime`
(`RecoverPriorRuntime`), `rollback_runtime` (`RollbackRemove`, `RollbackRestore`
for each record, `RollbackJournal`, `RollbackUnpend`), the request
(`NoRequest`, `RejectRequest`, `AcceptRequest`), and `apply_runtime`
(`ClearBackup`, `OpenJournal`; for each file the journal record
`LogOperation`, the rename to the backup `MoveAside`, the rename into place
`Place`; `SealJournal`, `FlagPending`, `ConsumeRequest`). `ApplyFails`,
`RollbackFails`, `FinishFails` are the exception paths: inside the `try`,
inside the rollback, outside both. `ConfirmStart .. ConfirmFails` is
`mark_healthy` under the lock, `Request*` is `request-latest`. Packages are
those that `build-v90s-update-package.py` makes: the delta between two releases
and the full package. Signatures, digests, space checks and extraction end in
`RejectRequest`. Staging happens before `ClearBackup` and touches no modelled
file. `base`, `trial` and `exposed` are history: the tree the transaction
started from, whether this boot applied it, and the paths whose only copy a
later rollback may delete: the path between its journal record and the rename to
the backup, and, when a rollback fails before its end, all paths of the
transaction, because the next rollback starts again and the session in between may
confirm the tree as it is (section 6).

**SystemUpdate.** One function per file kind over the two slots; digests stand
for the version whose digest they are, `Torn` is an image with no such digest.
`InspectFastBoot`, `SelectActive/Trial/Rollback`, `DropPending`,
`ForgetAttempt`, `RemoveCleanMarkers`, `VerifyPasses/Fails` are the initramfs;
`ReplaceImage .. ConsumeRequest` are `apply_system`; `Confirm*` and `Request*`
as above. Before `os.sync` a power cut leaves the new image, a torn one or none,
and the digest as it is or none; an old image beside a new digest counts as torn,
old beside old is a power cut before the copy. `DamageCandidate` damages the
staged image while power is off. `StageFails` is an exception at any step of
`apply_system`, also behind the write of `system-pending`. Three variables are
history: `tried` (a trial of the pending slot was begun), `late` (the staging failed
when its slot was on record) and `overrun` (a trial system has replaced the image it
runs from: possible only after a late failure, whose request is still there or is
made again). The refinement to `TrialBoot` maps `candidate` to the digest of the
pending slot unless that is the active one, `trial` to none, due, begun or spent, and
`fault` to what `late` and `overrun` say.

**Storage.** Marks are files whose existence is read at boot; `card` is what a
power cut may leave, `seen` what the mounted file systems show, and `PowerCut`
keeps of every unsynced change the old or the new state. The initramfs is
`AcceptFast .. Handoff` in source order, the power action `StopUsers ..
FinalAction`. `unclean`, `ended` and `why` are history. Which slot the fast boot
verifies is `SystemUpdate`'s subject: here it may refuse without a reason.

**UsbDiskMode.** A session is one helper process with its `at` (next step) and
`shell` (variables). Calls of `mount_userdata` remember where to continue when it
succeeds or fails (`ok`, `ko`). `udc` is the gadget the controller is bound
to: a second bind fails, as the kernel refuses it. `settling` is the sleeping
`plumos-adb-uevent`. ftp, sftp and Samba are one service, the four content
bindings one binding. `disturbed` is chosen at the start: a disturbed device
meets the `Interrupts` of the instance (signals, power cuts, a full p3), an
undisturbed one does not, and `DeviceReturns` speaks of the latter.

**HardwareKeys.** Time is counted in time-outs of `poll`; a timer is 0 (off), 1
(reached at the last reading of the clock) or n + 1; `lag` is the time since
that reading, so that a helper can make it stale exactly as `now` is in the
code. `helper` names the process the loop waits for; keys move meanwhile.
Whether the frontend owns `/dev/fb0` (then it serves the Power key itself) is a
free choice in `ReadPower`, signals are free choices in `Interrupted`,
`Requested` and `Top`. Levels are abstracted to `unsaved` (in force and not in
`settings.json`) and `pending` (the daemon's flags). A brightness helper that fails
may have stored the new level before (`StoredByFailure`); `untold` is the history of
the levels that were changed only so. The two second interval
for reopening nodes is a free choice. The keys, the nodes that may fail and the
bounds are a record chosen in the initial state from `Setups`.

**AudioRouter.** A frame of the model is a period of the code's arithmetic;
positions are taken modulo `Buffer` as in the code. `io`, `lastHw`, `queued` are
the program's side as alsa-lib keeps it, `dev`, `dq` the physical PCM, the rest
`plumos_pcm_t`. `Prepare`, `Start`, `Stop`, `Drain`, `Close`, `Pointer`,
`PollRevents` are the callbacks; a transfer is `Transfer` and one `WriteStep` for
each write, so that `Environment` (cards that come, go, are opened by another
program, begin or cease to refuse the program; a suspend) falls between any two of
them. `OpenPhysical` fails if the card is held and the program does not block, or if
the card is in `refusing`: its configuration or rate is not the program's, or the
mixer of the internal card fails. `SwitchRoute` gives every result the code can
return, with the fallback to the internal card; the program's speed decides whether
excess is dropped. `DeadHandle` names the state in which a card has come back under
the number of the handle that died with it. What alsa-lib does between the callbacks
is modelled from its use here.

**FrontendScreens.** `ui` holds the screens of `struct ui_state` that are
remembered to return to, what list is loaded, the depth of the directory, the
menu and page shown and the state of USB Disk Mode. A handler is an operator
from a state to the set of states it may leave (`Handle(u, key)`); what it runs
with `system()` runs to its end inside it. `StartHelper` and `PollHelper` are
what `run_event_loop` does without a key; `HelperEnds` is the helper.

**FrontendInput.** The same loop from the side of its input: `queue` of each
device, the repeat of a held direction, `pc` `"child"` while a handler is in
`system()` and `"settle"` while `settle_input_after_child` waits. `Tick` is time.
The rest is history: `pressed` says of each key, and of its unread events, whether it
was pressed while the frontend took input, while it did not (in a child, in the wait
after it, in the time in which input is ignored), or was held over the begin of a
child or over the moment when input was taken again; `begun` the same of the key that
repeats; `acted` what the last action came from (a press, the kernel's autorepeat, the
loop's own repeat) and when that key was pressed; `since` the
time since the child ended.

**RomBrowser.** A path is the alias, the directories and the file; `View` is what
`load_rom_entries` makes of a scanned list for a directory: directories first,
each part in the order of the setting (`Sorted`, which picks the n-th of a set by
its place in `NameOrder` or `PathOrder`), stars from `favorites.json`. `Load` says
whether a scan is waited for, started or left out. `Remembered`, `Restored` and
`Reselected` are the three ways a cursor is kept, `queued` a move asked for
during the slide of the gallery. `ScannerEnds` and `PollScan` are
the child and the loop's `waitpid`; `CardChanges`, `SaveSortRoms` and the menus
are the world around. A finished scan is the set of ROMs that was on the card.

**LibraryScan.** `Work(o)` is the set of aliases a run goes through, each a pair of
the system's and the alias's index; `NextAlias` takes the one the two loops of
`scan_systems` come to first. Each process walks them (`ScanAlias`), sorts, and
writes its list through the temporary file: `OpenTmp`, two `WriteChunk`, `SyncTmp`
(fflush, fsync, close), `Rename`, `DirSync`,
with a failing variant of each. `names` and `data` are the card as programs see
it, `durable` and `synced` what a power loss must keep: of an inode that was not
fsynced any prefix, of the two names of an output the entries at the last
directory sync or the present ones, always both of one moment, because the lists
are on p3, whose journal makes a rename one change. An inode belongs to the output
it was made for. `runs` records what each run was going to write. Nothing keeps two
scanners of one list apart, and a full card may get room at any step. `mixed` is
the history of the lists that two scanners have in hand, or that lost a part on a
full card; `damaged` that of the lists which such scanners may have put in place, until
a scanner that had the list to itself has exited with success.

**DeviceSettings and GameLaunch.** `DeviceSettings` has the three writers step by
step: read, copy, rename, and bring the level into force. The key daemon's and
the launcher's helper are one operator with two callers; the settings screen's
save is a second one. `GameLaunch` extends it: `Begin` resolves the profile
(game, then system, then default, of those that the release lists),
`SaveRecents`, `SaveSession`, `Start`, `Stop`, the volume helper, `ClearSession`,
`Return`; `PowerCut` keeps any version of `settings.json` since the last sync and
lets another release be installed; `Boot` is boot resume. `Choose` is one
command of the core selector.

**MusicPlayer.** The lock of `player_state` makes each of its holders one action:
keys and drawing of the main loop, and the turns of the audio thread
(`DecodeChunk`, `WriteChunk` outside the lock, `OpenOutput`, `EndThread`). A frame
stands for many PCM frames; a decoder is reduced to where a seek lands and by how
much the length it reports is too long (`Excess`); the order in which `readdir`
lists a directory is free (`Listings`). `device`
is the output: ready, gone, or a write that blocks for good.

## 3. Runs

States are distinct states found; all runs are exhaustive within their
constants. Deadlock is checked except in `library_scan` and `rom_browser`, whose
bounded runs and changes of the card are used up at last.

| run | instance | what it shows |
|---|---|---|
| `runtime_update` | 4 paths, two of them metadata, 3 releases that add, change and remove a path; 2.1 M states | the frontend runs whole releases, rollback stays possible, every boot reaches the frontend |
| `system_update` | 2 slots, 3 versions, every write may fail; 1 297 797 states | always bootable, intact images only, refinement of `TrialBoot` |
| `storage` | all five kinds of fault; 1 110 states | marks are true, no unchecked boot after a crash, p4 is kept |
| `usb_disk` | one helper after another, all five verbs, 2 batches, all interrupts; 687 820 states | one owner, a batch runs once, exports end, the device comes back |
| `keys` | three setups: menus with a gamepad node that comes and goes; failing helpers; a volume node that comes and goes; 679 718 states | phantom keys, hold, menu, saving |
| `audio_router` | internal DAC and one USB DAC, either busy or refusing, buffer of 4, hardware buffer of 2; 579 694 states | position, progress, route |
| `frontend_screens` | 7 settings pages, directories 2 deep; 466 917 states | list behind the screen, way back, USB helper watched |
| `frontend_input` | 3 presses, 3 unread events; 3 944 766 states | presses of a game do not act, the wait ends |
| `rom_browser` | 2 systems, 3 games in 2 directories, memory of 2 places, 1 change; 850 262 states | stars, selection, return |
| `library_scan` | 2 systems with shared, double and directory entries, 2 scanners, 2 runs, 1 change, a card that fills up and empties, 1 power loss; 2 668 738 states | whole lists, exact lists |
| `game_launch` | 3 games, a list of 2, 3 profiles, 3 orders, 1 power loss; 1 509 977 states | recents, what runs after a power loss, `settings.json` whole |
| `music_player` | 5 entries (one file twice, one that does not open), 3 keys, 2 changes of the output; 691 868 states | position, end of the list, B |

The properties, and what would break them:

- `ReleasedTree`, `WholeGeneration`: the frontend starts on one whole release.
  Mixed trees need a wrong order of two renames or a rollback that forgets a
  kind of record.
- `RollbackRestores`: while a rollback is due, journal and backup determine the
  old tree, at every step and not only at its end.
- `VerdictMatchesTree`: `rolled_back` and `healthy` are true of the tree.
- `VersionCommitsLast`: `VERSION` never names a release before its files are
  there, in the apply and in the reversed rollback.
- `BootCompletes`: no failure keeps init from the frontend.
- `NeverRecovery`, `RunsIntact`, `ImplementsTrialBoot`: the system slots: the
  device always boots, a cached digest is never inherited by another image, a
  candidate has one trial and only a ready trial is promoted. Each speaks of every
  failure and excepts what follows from one history: a late failure of the staging,
  then a promotion without a trial (granted by `TrialBoot`), or a trial that stages
  over the image it runs from (`RunsIntact`) and is promoted (`NeverRecovery`).
- `MarksTrue`: marks that let work be left out are true on the card, in whatever
  order writes reach it.
- `CrashedSessionChecked`, `FastBootClean`: a fast boot needs a power action
  that stopped the programs; after an undisturbed one both partitions were
  unmounted. The second does not speak of power cuts inside the power action or
  inside the fast boot itself (section 7).
- `UserdataKept`: no step of provisioning touches a p4 that has a file system.
- `OneOwner`: p4 is never mounted while it is exported, and a check lies between
  the PC and the next mount, whatever is interrupted.
- `RunsOnce`: a batch survives neither its execution nor a power cut around it.
- `DeviceReturns`: a helper that nothing interrupted leaves p4, the services and
  ADB as the user had them, through every failure the script handles.
- `ExportEnds`: an export nobody takes times out, one that the PC left is ended.
- `NoPhantomKeys`, `OneStopPerHold`, `MenuStaysClosed`, `SettingsSaved`: the key
  daemon. `OneStopPerHold` excepts holds during which a menu or a brightness
  helper kept the loop waiting (section 6), `SettingsSaved` a brightness that only a
  helper which failed has changed (section 7).
- `PositionBounds`: what the card still holds is part of what is not reported as
  played, through route changes, recoveries, dropped excess and repeated
  transfers. `PlaybackGoesOn`: if the internal card takes the program at last, it
  plays, whatever the USB cards do. `RouteFollowsCards`: if the first USB card, or the
  internal one where there is none, takes it at last, it plays there. Both except the
  time in which a dead handle has the number of a card that is there (section 7).
- `ListMatchesScreen`: on every way back the list loaded is that of the screen,
  so A starts what is shown. `BackLeadsOut`: B leads to the top, unless START was
  pressed on a screen of the menu (section 7). `UsbWatched`: the helper's result
  is always still going to be read.
- `StaleKeysDropped`: a press made for the game, or while input is not taken, does
  not act on the list. A key of that time acts at most by a repeat, and only if it was
  still down when the frontend took input again, or if its repeat ran when the game
  began (section 6). `ReactsAgain`: a stick that never rests does not lock the
  frontend.
- `StarsTrue`, `SelectionKept`, `ReturnToPlace`: what is shown and selected is
  what the files say, though files and lists change under the cursor. The last
  holds while the memory has a place for the parent.
- `ListWhole`: the list is that of one run, and an acknowledged run is not
  undone. A list that two scanners wrote at once, or with a hole from a full card, is
  excepted, until a scanner that had it to itself has exited with success: the damage
  is never to another list, and does not last. `ListExact` compares the walk with a
  definition that does not walk, for each part of a list, also of a mixed one.
- `RunningIsRecent`, `RecentOrder`: a power loss brings back the game that ran;
  the list is the last `MaxRecents` games in order, each once.
- `KeysKept`: three writers without a lock lose levels (section 7), but no key.
- `PositionNear`: the time shown is at most one packet ahead of the time heard, or as
  much more as the decoder overstates the length.
  `PlayEnds`, `BLeaves`: the player comes to its end and can always be left.

Type invariants (`TypeOK`, `ScanTypes`) document the state
machines. Five of them are theorems (section 5), the others are covered by the
types in the inductive invariants there; the runs spend their time on the
properties above.

**Bounds and why they are enough.** Runtime updates: the four paths are a
tool that the second release changes, a plug-in that it drops and the third
release adds again, and the two metadata paths, so every kind of journal record
(replace, install, delete) occurs together with the metadata order; three
releases allow an update after a rolled back and after a confirmed one; nothing
else is bounded. System updates: three versions let both slots differ from the
request. Storage has no counters. USB: a second batch shows that a batch armed
later still runs once. Keys: a hold of three time-outs is longer than the
debounce and than one helper's step; a queue of three holds a press, a release
and an event of another device; the bound also means that evdev's buffer never
overflows (section 7). Audio: the hardware buffer is smaller than the program's,
so that transfers are split, and `Slack` of one leaves the program the free
frame it has in practice (section 7). Screens: two directories inside one
another, one page of each nesting of the settings; nothing else is bounded.
Input: three presses are one for the game, one in the wait and one after it.
Lists: two places of memory and three directories (top and two) reach the limit.
Library: two runs are one old and one new list, two scanners at once, or a list with a
hole and its repair; the repair of a list that two scanners mixed takes a third run,
and that `ListWhole` and `ListExact` hold for any number of runs is proved (section 5).
Two directories are remembered where a scan of all systems comes to three, so that an
alias is walked twice.
Launches: a list of two of three games drops one and moves another. Music: three
keys are two seeks and one change of track between two turns of the thread, and
the five entries meet both decoders, a track of unknown length, one that does
not open, the nesting limit and the same directory twice. Counters of time
saturate at the longest delay. Symmetry reduction is used in `game_launch` (games)
and `library_scan` (scanners) only, which check no liveness.

## 4. Fairness

Only programs that are already running are fair; the user, the PC, power, cards
and their damage never are.

- `RuntimeUpdate`: weak fairness of the boot's steps (init runs them one after
  the other).
- `UsbDiskMode`: weak fairness of each process step, which includes the deadline
  of `wait_for_disconnect`; `ExportEnds` assumes that the cable is at last left
  out.
- `HardwareKeys`: weak fairness of the loop; strong fairness of `PollTimesOut`,
  because time passes although keys interrupt `poll` again and again; strong
  fairness of a successful save, because `SettingsSaved` is about retries and not
  about a card that never works again. Its premise is that events stop at last;
  helpers may fail to the end, those of the brightness too.
- `AudioRouter`: a program that plays keeps calling (prepare after an error,
  position, start, transfer) and the card's clock runs: weak fairness. Strong
  fairness of a transfer, which a program makes again and again although states
  in between do not allow it, and of a successful write: a suspend does not hit
  every write. The premises (`LeftAlone`) are that at last no card is used by another
  program, the internal card takes the program, and no dead handle has the number of a
  card that is there; USB cards may come and go for ever in `PlaybackGoesOn`.
- `MusicPlayer`: weak fairness of leaving the main loop, which polls for 10 ms and
  looks at `running`, and of the audio thread's turns. A blocked write has no
  turn: it stays blocked.

The other modules state no fairness, and no liveness is claimed of them.

## 5. Proofs

All theorems hold for every value of the constants that satisfies the named
assumptions of the modules, and for the constants stated here.

| module | theorem | states |
|---|---|---|
| `RuntimeUpdateProofs` | `TypeCorrect` | `Spec => []TypeOK` |
| | `ReleasedTreeHolds` | `Spec => []ReleasedTree` |
| | `WholeGenerationHolds` | `Spec => []WholeGeneration` |
| | `RollbackRestoresHolds` | `Spec => []RollbackRestores` |
| | `VerdictHolds` | `Spec => []VerdictMatchesTree` |
| | `VersionCommitsLastHolds` | `Spec => []VersionCommitsLast` |
| `SystemUpdateProofs` | `TypesCorrect` | `Spec => []TypeOK` |
| | `AlwaysBoots` | `Spec => []NeverRecovery` |
| | `OnlyIntactRuns` | `Spec => []RunsIntact` |
| | `KeepsContract` | `Spec => ImplementsTrialBoot` |
| `CardProofs` | `TypesCorrect` | `Spec => []TypeOK` |
| | `MarksNeverLie` | `Spec => []MarksTrue` |
| | `CrashesAreChecked` | `Spec => []CrashedSessionChecked` |
| | `SkippedChecksAreClean` | `Spec => []FastBootClean` |
| | `UserdataSafe` | `Spec => UserdataKept` |
| | `ScansKeepOrder` | `ScanSpec => []ScanInv` |
| | `ListsAreWhole` | `ScanSpec => []ListWhole` |
| | `ListsAreExact` | `RoomForDirs \/ FirstIsWidest`: `ScanSpec => []ListExact` |
| `UsbDiskModeProofs` | `TypesCorrect` | `Spec => []TypeOK` |
| | `OwnersExclude` | `Spec => []OneOwner` |
| | `BatchesRunOnce` | `Spec => []RunsOnce` |
| | `HelperRestores` | `Spec => []DeviceReturns` |
| `FrontendProofs` | `StaleKeysNeverAct` | `InputSpec => []StaleKeysDropped` |
| | `InputReturns` | `InputSpec => []ReactsAgain` |
| | `ReturnsToItsList` | `Spec => []ListMatchesScreen` |
| | `HelperIsWatched` | `Spec => []UsbWatched` |
| | `ButtonBLeadsOut` | `Spec => []BackLeadsOut` |
| `HardwareKeysProofs` | `KeysInvariant` | `Spec => []KeysInv` |
| | `TypesCorrect` | `Spec => []TypeOK` |
| | `KeysAreReal` | `Spec => []NoPhantomKeys` |
| | `MenuIsClosedOnce` | `Spec => MenuStaysClosed` |
| | `PortStopsOnce` | `Spec => OneStopPerHold` |
| `GameProofs` | `Invariance` | `Spec => [](Types /\ Launching /\ Ordered)` |
| | `SettingsKept` | `Spec => []KeysKept` |
| | `HeadRuns` | `Spec => []RunningIsRecent` |
| | `LatestFirst` | `Spec => []RecentOrder` |
| | `StarsAreTrue` | `BrowserSpec => []StarsTrue` |
| | `SelectionStays` | `BrowserSpec => SelectionKept` |
| | `BackToPlace` | `BrowserSpec => ReturnToPlace` |
| `SoundProofs` | `PositionsAgree` | `Spec => []PositionBounds` |
| | `TimeIsHeard` | `PlayerSpec => []PositionNear` |

The table has every invariant and every action property that a run checks; what is
left to TLC alone is liveness.

**RuntimeUpdate**, for every set of files, critical files, versions and releases
that satisfy `FilesAssumption` (paths are numbers, metadata sorts last),
`ReleaseAssumption` (`VERSION` and the checksums identify the release) and
`PackageAssumption`. The properties mostly speak of the moment at which the
frontend starts, so none of them is inductive. `IInv` (`RuntimeUpdateInv`) says
what holds at every step:

- `TxnOK`, `RecordsOK`: the journal belongs to one package and its `existed`
  records are true of `base`;
- `CopiesOK`: a copy is empty or the original, an unlogged path is untouched, and
  each path holds its old content, its new content or nothing;
- `ArmedOK`: while a rollback is due, each recorded path is in one of the stages
  of `Shape` (in place; moved aside; replaced with its original in the backup),
  and only the path that is just being handled is in danger;
- `RollbackOK`, `ApplyOK`: how far the two loops have come; paths behind the
  loop are finished, those ahead untouched, and the order of paths puts the
  metadata at the end of one and the start of the other;
- `TreeOK`: where the tree is wholly old or wholly new, and `base` is always a
  release that some version ships;
- `ControlOK`: lock, session and confirmation go with `pc`.

One lemma per action shows that it keeps `IInv`; the actions that move files
have a second one about the tree (`RollbackRemoveTree`, `PlaceTree`, ...).
`TargetFacts` and `ReleasedGoal` are the facts about packages: a package turns
the release it was made from into the release it names. `Invariance` combines
them, and each theorem is `IInv => property` and a temporal step.

**SystemUpdate**, for any versions, slot names and packages, where every step of
`apply_system` may fail. `Control` (who runs when) always holds. As long as no
running image was replaced, `Safe` holds: the active slot is whole (`ActiveGood`); a
boot's slot is the staged one if there is one (`Chosen`); a fast boot has nothing
staged (`NoFastTrial`), which is why a digest that was not checked in this boot
suffices; a boot with a staged slot that came past the selection is its trial, and a
session with one is that trial or the session after a late failure (`OnTrial`); a
request that outlives its staging is for the staged version, which the trial boot
refuses, unless such a session made another one (`Consumed`); staging writes the slot
that neither runs nor boots, and the exception, a trial system with another request,
comes after a late failure only (`Apart`); `Confirming`: the steps of `mark-healthy`.
When a trial system has replaced its own image, `Spared` is left: the active slot is
whole, and the trial is rejected by the next boot, which ends the exception, or
promoted, which ends the promise. `KeepsContract` is a step simulation: each action,
under this invariant, is a step of `TrialBoot` or leaves its variables alone; after a
replaced image every step is one that `TrialBoot` makes no promise about
(`NoPromise`, `StaysOverrun`), up to the rejection.

**Storage**, for any set of faults. A power cut keeps of each unsynced mark the old
or the new state, so what must be true of the card afterwards is stated of every
mark in `card \cup seen` (`Possible`). `Backed`: a possible mark never runs ahead
of what it vouches for; `Prepared`, `Seeded`: what the initramfs has ensured when
it is at a step; `Consumed`: the clean marks of the last shutdown are gone from
the card before a session can crash; `Released`: what a power action unmounted
before it ended. `UserdataSafe` follows from `Prepared`: the step that formats is
reached with an unformatted p4 only.

**UsbDiskMode**, for one helper process at a time, any batches and commands, and
any interrupts. `Owner`: p4 is out of the V90S's hands when the gadget takes it,
and checked when it is mounted. `Once`: a batch is in the mailbox, on the card or
with the process, and has run only when it is in none of them; the sync of the
removal comes before the execution. `Undisturbed`, while nothing interrupts:
what the process still has to give back at each step (`Path`, `Owed`,
`Returning`) is recorded in its variables and in the marks. With two helpers
`Owner` is false (section 6).

**FrontendInput**, for all lengths of the waits and of the queues. `Timed`: time
passed and time left make up the limit; `Fresh`: while the loop takes its input, no
key that is down and no unread event is of a press that it was away for, and an unread
press was made in front of it; `RepeatKnown`: nor is the key that repeats.

**FrontendScreens**, for any settings pages whose parents are pages and any depth of
directories. `Sound(u)` says of one state of the screens that each menu returns to a
screen it can be opened on (`powerBack`, `back`, `coreBack`) and that what lies
under the menus (`Under`) shows the entries that are loaded; with the states of the
helper it is inductive (`ScreensInv`). Most handlers change other fields
(`Keeps`, `SoundStays`), so that each needs a proof only of the screens it opens or
leaves. `BackLeadsOut` speaks of as many presses as the constants allow, one
application of `afterB` each: `Rank` counts the presses left (directories of the
list, then the menu, its pages, the core menu and the power menu), each press
takes at least one away (`Leading`), and `RankBounded` says that `MaxDepth + 7`
are enough. That the states of `afterB[n]` are at TOP or n below the rank of the
first one is shown by a least counterexample among the naturals, and so is that the
recursive function `afterB` is what its definition says (`AfterMaxBack`).

**AudioRouter**, for any cards, buffers, periods and intervals of probing, also where
a program fills the whole buffer. `Handed`: the frames that the program has handed
over, modulo the buffer, are `submitted`, also in the middle of a transfer and after
any route change, and the card holds no more than is queued; `Fits`: a transfer in
progress fits into the buffer. The arithmetic modulo `Buffer` is in lemmas of its
own.

**HardwareKeys**, for any set-ups of devices, any delays and any number of events.
A key the daemon takes for pressed may be up as long as its release is unread, so
nothing can be said of `seen` alone. `SeenAfter(q, s, k, i)` is what the daemon
will believe of `k` after the next `i` events of `q`; `Releases` says that after all
events of an open
node it believes no key pressed that is up. `Queues`: only an open node has unread
events, of its own keys, and a closed one has no believed keys; `Places`: which
helper and which timer belong to which place of the loop. Together with the types
they are inductive (`KeysInv`), and `KeysAreReal` is the case of empty queues.
`MenuStaysClosed` needs `MenuKeys`: presses made in a menu are unread only while
the menu runs or the Power node is being drained with the time still running in
which such keys are ignored. `OneStopPerHold` needs `Spent` (in whatever the
daemon has still to read, a hold that stopped a port is latched, and no new hold
is seen before its end) and `Holds`: unless a menu or a brightness change kept the
loop waiting, the timer is no further than the hold (`HoldTime`), or the hold has
ended and the daemon reads so before it looks at the timer (`EndUnread`).

**GameLaunch**, for any games, profiles, releases and sizes of the list.
`WholeFiles` says of each of the three writers which of its copies is a whole
`settings.json` at each of its steps, and that every version which a power loss
could bring back is one; `SettingsKept` follows. `Launching`: from the save of the
recent list to the end of the game, its head is the entry that runs, with a
profile the release lists. `Ordered`: no game is listed twice, of two listed games
the first was launched last, and what is not listed was launched before all that
are, while the list is not full. `AddedList` is the lemma about
`add_recent_entry`: what stays, what moves by one and what drops out, whether or
not the game was there. `RecentOrder` is stated with operators of the community
modules; `LatestFirst` connects them with `Ordered`.

**RomBrowser**, for any ROMs, directories and orders of titles, any size of the
memory, and any number of changes of card and files. `BrowserInv` has these parts:
each game is in `favorites.json` and `recent.json` once (`FilesOnce`); what scans and
settings can be (`Scans`); a list of a system, also one below a menu, is of a system
and a directory (`ScreensAgree`); `GoodList`: each game is listed once, with the star
of the file, and each directory listed is one below the directory shown; `Memory`:
one place for each directory; `Trail`: the place remembered for a directory above
the one shown is the entry that leads to it. `Trail` is what makes `ReturnToPlace`
inductive: `Remembered` writes the place of the directory shown only, which
`ReloadDirectory` does before it goes into the directory selected. `SelectionKept`
follows from
`GoodList`: the path looked for is found where the new list has it. `Sorted` takes the
n-th of a set by a minimum, which exists by the well-foundedness of the naturals
(`LeastOf`).

**MusicPlayer**, for any files, roots, limits, sizes of chunks and packets. `Near`:
the time shown is not behind the frame decoded next, and at most a packet and what
the length overstates ahead of it. `PacketNear` is the lemma about seeks.

**LibraryScan**, for any systems, files, scanners and numbers of scans, power losses
and times at which the card fills up or gets room, with two scanners of one list
wherever they start. `Types` has the ownership of inodes: those of one output are
entered under its two names only. `Handles`: what a scanner has open. `Writers`: one
scanner per output that is not `mixed`, its run newer than the acknowledged one;
`Written`: what is written and synced of the temporary file of such an output at each
step; `Lists`: where the list is not `damaged`, its present and its durable entry lead
to a synced, whole list no older than the acknowledged one (`Kept`), and of every
output no temporary file that `fopen` may truncate is a list, now or after a power
loss (`Apart`). `FreshInode` shows that a new file never takes the inode of another:
an output has one inode more than its other names and its open files can hold
(`OneElementMore`, the pigeonhole). `Touches(o)` and `TmpOnly` say what a step of one
scanner leaves to the others. `Apart` is why a rename must be atomic: where a power
loss could keep the new name and bring the old one back, a later scan would truncate
the list in place.

`ListsAreExact` adds what the lists hold. `PartAt` is what one alias brings, said
without the walk: what belongs on the list and has this alias as its first. While
a scan walks, its list is the union of the parts of the aliases gone through
(`Gathered`), and the directories remembered are theirs (`Walk`). The step has three
cases: an alias that leads nowhere or where an earlier one led has no part
(`NothingNew`); the first alias of a directory brings what lies there, none of which
is listed yet (`FirstBrings`, `FirstPart`); a later alias whose directory was
forgotten, because `MAX_SCANNED_DIRS` was reached, is walked again, and all it has
must be in the list already (`LaterPart`). The last case needs one of two
hypotheses. `RoomForDirs`: all directories the scan can come to are remembered. The
systems.json of the release names 209 aliases, the limit is 1024. `FirstIsWidest`: of
the aliases that lead to one directory, none lists archives that an earlier one,
after the first of the system, does not. The release satisfies this too, whatever
the case of the card's names, and the instance of `library_scan`, where the limit is
reached, satisfies only this one. `Exact(r)` then holds of every run whose chunks are
on the card, which failed writes, power losses and a second scanner can only remove
or mix: that is why `ListsAreExact` needs nothing of `mixed` and `damaged`. A change
of the
card or the artwork ends the claim for the scans before it (`changed`).

Only model-checked: liveness (`BootCompletes`, `ExportEnds`, `SettingsSaved`,
`PlaybackGoesOn`, `RouteFollowsCards`, `PlayEnds`, `BLeaves`), which is outside
the prover's reach together with ENABLED. No module uses a recursive operator.

## 6. Where code and documentation disagree

The models reach each of these; where a bound leaves one out of a run, or a property
excepts it, that is said here.

- **An interrupted rename.** `docs/plumos-v90s-update-contract.md` says "An
  interrupted transaction is rolled back before the next frontend start." The
  journal records an operation (`plumos-system-update.py:525`) before the rename
  that makes the backup (`528`). Power lost in between makes the next
  `rollback_runtime` (`452-460`) unlink the original, of which there is no copy
  yet, and report `rolled_back`. The same happens when a rollback is itself
  interrupted, or fails before its end: restored files have no backup any more and are
  removed by the second pass. The history variable `exposed` names the path of the
  interrupted rename, and all paths of the transaction once a rollback of it has
  failed; the properties and the theorems promise everything else.
- **A promotion without a trial.** `docs/plumos-v90s-update-contract.md:136-137`
says that the initramfs "verifies and
  boots the pending slot once" and "Frontend renderer readiness promotes it to active."
  When `apply_system` fails after it has written `system-pending`
  (`plumos-system-update.py:682-692`), init goes on with the old system
  (`build-step1-rootfs.sh:904-905`), whose own readiness promotes the slot that was
  never booted (`743-745`). It goes further: where that confirmation fails or is too
  late, a request of that session, or the one that is still there, is applied by the
  trial boot. The slot that is not active is then the one it runs from (`616`), and
  `apply_system` replaces it. If the write of the digest is cut or fails and the trial
  is promoted all the same, the next boot finds an active slot that does not match its
  digest and ends in recovery (`overrun`).
- **A first boot that is not repeatable.**
  `docs/v90s-ext4-runtime-fat32-userdata-update-design.md:268` says "Every
  operation must be idempotent and safe to repeat after power loss". Power lost
  between `parted mkpart` and `mkfs.fat` of p4 leaves a partition without a file
  system, which no later boot formats (`P4_CREATED` is a shell variable,
  `v90s-four-partition-init:431`): every later boot ends in the recovery shell.
- **Two helpers.** The usage text of `plumos-usb-disk-mode` (`72-74`) says that PC
  and V90S never mount p4 concurrently. Two helpers (the frontend's enter, a leave
  or mount over SSH) have no lock: one passes its test of the gadget (`192`), the
  other binds it, the first mounts. With two `Sessions`, `OneOwner` fails. Both
  may also find the same armed mailbox and run its batch twice (`407-432`), where
  `docs/validation/2026-07-11-usb-disk-mode.md:272` says that a command "is not
  re-executed automatically".
- **A short chord.**
  `docs/validation/2026-07-16-v90s-global-volume-brightness-hotkeys.md:71` says
  that Select + Start held for one second stops a port. The gamepad is drained
  before the Power key, whose menu keeps the loop waiting; afterwards the clock is
  read again (`plumos_v90s_hardware_keys.c:471-473`) while the releases made in the
  menu are unread, so a short chord stops the port. `OneStopPerHold` says that
  this and a brightness helper are the only ways.
- **Held directions.** `docs/developer/hardware-services.md:69`
  says "Avoid duplicate readers and unbounded key repeat". A direction held when a game
  is launched keeps its repeat (`plumos_controller_ui.c:14693-14734`, `15020-15026`),
  because its release is dropped with the other keys: the list scrolls until the next
  key. A key pressed in the game and still held when the frontend takes input again acts
  by its autorepeat. `StaleKeysDropped` says that these are the only ways in which a
  key of that time acts.
- **A list with a hole.** `docs/developer/frontend-emulators.md:16`
  says that Refresh TOP must "atomically replace the scan model". A card that fills up
  during a scan and gets room again before its end (`plumos_library_scan.c:1494`: no
  `ferror`) leaves a list with a hole that is taken for whole. Two scanners of one list
  share its temporary file (`1363-1375`) and mix it; the frontend starts one in the
  background (`plumos_controller_ui.c:3584`) and may run another in the foreground for
  the gallery (`10720`). `ListWhole` says that nothing else breaks a list, and that a
  scan which has the list to itself repairs it.

## 7. Other observations

Behaviours met while modelling that no document excludes, or that a run
deliberately leaves out.

Updates and storage:

- Power lost between the journal's `pending_health`
  (`plumos-system-update.py:546`) and `runtime-pending.json` (`547`): no later
  boot confirms or rolls back, and the left request is rejected at each boot.
- Power lost between `healthy` (`739`) and the removal of `runtime-pending.json`
  (`740`): a confirmed update is rolled back, completely and correctly.
- `mark-healthy` is called once; if `request-latest` holds the lock, readiness is
  lost (`build-step1-rootfs.sh:917-926`) and the next boot rolls back.
- A stale attempt mark (initramfs `453`, updater `681/682`, `746-747`) disables
  the fast boot, or rejects a new candidate without a trial.
- The clean marks are written before the sync and the unmounts they announce
  (`plumos-power-action-rootfs.sh:414-422`, `464-`), and removed only after a
  fast boot has mounted p3 and p4 (initramfs `443-498`): power lost in either
  window lets the next boot skip a check that was due. `FastBootClean` is stated
  for the sessions outside these windows.

USB Disk Mode and keys:

- A signal between the bind (`568`) and `ACTIVE=1` (`623`) leaves the gadget
  bound, so ADB cannot return; a signal or power cut between the stop of the
  services and the copy of `services.conf` (`466-471`) leaves the services
  disabled. `DeviceReturns` speaks of helpers that nothing interrupts.
- The key loop ignores `SYN_DROPPED` (`392`): an evdev buffer that overflows during
  a long menu may lose a release.
- A shutdown chosen in the overlay while a level is unsaved loses the level: the
  daemon waits in the menu.
- A brightness helper writes the new level to its runtime state before it sets the
  backlight (`plumos-display-control:166`). When that fails, the daemon does not mark the
  level for saving (`plumos_v90s_hardware_keys.c:433`): unless another change follows,
  the next boot has the old level. `SettingsSaved` excepts it (`untold`).

Audio:

- `prepare` keeps a route by its card number (`plumos_hotplug.c:319`): a DAC that was
  pulled and plugged again while the program was paused has the number of the dead
  handle. Each prepare then fails on the handle, and the program is silent until the DAC
  goes, or for good. `PlaybackGoesOn` and `RouteFollowsCards` except this state
  (`DeadHandle`) only.
- A first USB card that refuses the program's rate or configuration
  (`plumos_hotplug.c:262-284`) leaves the playback on the internal card, with a new
  attempt at each probe; a second USB card is never tried (`146-154`). A write of the
  internal mixer that fails behind a prepare or a recovery, not in an open, is left out
  of the model.
- A program that fills the whole buffer (`Slack = 0`) and whose backlog of exactly
  one buffer is played during a pause sees no progress at all (`476`, `691-700`),
  and `PlaybackGoesOn` fails.

Screens and input:

- If the USB helper script is missing, the loop retries without time-out and
  without reading keys (`plumos_controller_ui.c:10831`, `14919`).
- START on a settings page opens the menu over a screen of the menu: then B leads
  from one to the other and back. `SCREEN_NETWORK_RESCUE` is never reached by a
  key. A factory reset that waits for its second A is not cancelled by START or
  POWER. A gallery opened over Recent launches without the profile of its entry
  and does not load the list again.
- Of several presses in one read only the last acts. An A held since a game ended
  acts again by its autorepeat after the ignore window. Keys pressed while the
  overlay has stopped the frontend with SIGSTOP stay queued for it. A Power press
  in the transition between frontend and game may be answered by nobody.

Lists and scans:

- A directory that cannot be opened or read to its end, or a list in memory that cannot
  grow (`plumos_library_scan.c:1162`, `1169-1174`), silently shortens the list. These
  failures are outside the model, and so of `ListExact`.
- The result of a background scan is not shown when a menu covers its list; a
  system entered while a scan of another runs is not scanned (`3592`). The cursor
  memory drops its oldest place, not the least used. A move asked for during the
  slide of the gallery is queued, though the list may change (`8642`).

Launches and settings:

- Levels can be lost between the three writers of `settings.json`
  (`plumos-volume-control:243-247`, `plumos-display-control:186-191`,
  `plumos_controller_ui.c:12890-12926`): a brightness saved in the frontend within
  the daemon's 750 ms of debounce is undone by it, the frontend's own copy of the
  volume is stale after a key, the level in force may differ from the saved one.
  After a game resumed at boot the
  frontend applies the brightness it had loaded before (`15539`), not the one that
  the keys saved during the game.
- The core chosen in the selector has no effect on launches from RECENT and on
  boot resume, which use the profile of the entry. An entry whose profile is not
  listed any more cannot be launched from RECENT. A recent list that cannot be
  saved blocks every launch (`plumos_text_ui.c:4779`). Boot resume does not clear
  a stale session, and a session may name an older game than the recent list.

Music player:

- Where `music` and `MUSIC` are one directory each track is listed twice
  (`plumos_music_player.c:322-366`). A track that does not open stops the list.
  The list does not scroll with the playing track. The input device is never
  opened again. Frames are dropped while there is no output. A timed exit waits
  for a blocked write, B does not. A seek lands at the start of a packet; the time
  of a track without known length runs past its end; the resampler's tail is not
  played.

## 8. Not modelled

Section 1 lists the components; `PROJECT.json` gives the reason for each. Within
modelled components these are left out:

- log and progress files, pictures, JSON layout, signature arithmetic (a package
  verifies or is rejected), the size arithmetic of partitions (seed or target), the
  names of files; failures of reading a directory in a scan (section 7);
- the level arithmetic of volume and brightness beyond floor, top and steps of
  one; volume, equalizer and status lines of the music player;
- of the frontend: network jobs, scraping, thumbnails, rescue mode, drawing and
  cursor movement in menus, titles and texts; of the text frontend: the listing
  commands, `favorite` and `resume set`, the interactive menu and the renderer.

ext4's journal keeps the order of renames and unlinks between two syncs, so losing
a tail of them equals an earlier power cut; FAT gives no such promise. In `Storage`
any subset of the unsynced changes may be lost; in `LibraryScan` (p3) fsynced data
stays, of other data any prefix, the entries of an output are the synced or the
present ones, and blocks of a deleted file are not given to another one before the
next sync.
The kernel (USB gadget binding, evdev queues, unmount refusing busy partitions),
alsa-lib, the decoder libraries, the PC, the SD card and the DACs are modelled
from how the code uses them.

## 9. Plan

Done, the most consequential state first: `RuntimeUpdate` with proofs,
`TrialBoot` and `SystemUpdate`, `UsbDiskMode`, `Storage`, `HardwareKeys`; then
`AudioRouter`, the frontend's five aspects, `LibraryScan`, `MusicPlayer`, and the
proofs of them all.

Next modules:

1. `PowerOverlay`: display owners that are stopped and continued, the lock
   directory, the overlay killed at any step; composed with `HardwareKeys` and
   `FrontendInput`.
2. `Launch`: emulator, stop scripts and PortMaster's process trees, below
   `GameLaunch`'s `Start` and `Stop`.
3. `WifiControl`: profiles, recovery and the user's disable; the frontend's network
   jobs that end after their screen.
4. Functional models: the path order and classification of the updater.

No invariant or action property is left to prove. A next theorem would be the step
simulation of an abstract specification for `LibraryScan` (one list per output,
replaced as a whole) and for `UsbDiskMode` (one owner of p4), which `ListWhole` and
`OneOwner` now state as invariants.
