----------------------------- MODULE RomBrowser -----------------------------
(* The lists of the controller frontend: the ROMs of a system with its      *)
(* directories, Favorites, Recent and the gallery over any of them; the     *)
(* cursor and the memory of where it was; the stars; the scan in the        *)
(* background that replaces a list while it is shown.                       *)
(*                                                                          *)
(* Which screen leads where is FrontendScreens; a menu over a list is one   *)
(* screen here.  How a scan replaces its list on the card is LibraryScan:   *)
(* here a finished scan is the set of ROMs that was on the card.  menuBack   *)
(* and galleryBack are cleared where the code leaves them but never reads    *)
(* them again.                                                               *)
EXTENDS Integers, Sequences, FiniteSets, SequencesExt

CONSTANTS
    Roms,           \* system id -> the paths its ROMs may have; a path is the
                    \* alias, the directories and the file: <<"GB", "x", "b">>
    NameOrder, PathOrder,   \* all paths, directories too, by title and by path
    FirstCard,      \* system id -> the ROMs on the card at the start
    FirstFavorites, FirstRecents, FirstSettings,
    MemoryMax,      \* UI_ROM_CURSOR_MEMORY_MAX, 64 in the code
    Window,         \* rows of a page, ui_list_window_size
    RecentsKept,    \* games the launcher keeps in recent.json
    MaxChanges      \* bound of the instance: changes of card, files and settings

Systems == DOMAIN Roms
Path == Seq(STRING) \ {<<>>}
EachOnce(s) == \A i, j \in DOMAIN s : s[i] = s[j] => i = j

(* Favorites and Recent have names that no system has; a path is an alias    *)
(* and what is below it, or a file; a game is in a file once, as its writers  *)
(* look for it first (toggle_current_favorite, add_recent_entry).            *)
ASSUME SystemsAssumption == Systems \subseteq STRING \ {"favorites", "recent", "none"}
ASSUME PathsAssumption ==
    /\ Roms \in [Systems -> SUBSET Path]
    /\ FirstCard \in [Systems -> SUBSET Path] /\ \A s \in Systems : FirstCard[s] \subseteq Roms[s]
    /\ NameOrder \in Seq(Path) /\ EachOnce(NameOrder)
    /\ PathOrder \in Seq(Path) /\ EachOnce(PathOrder)
ASSUME FilesAssumption ==
    /\ FirstFavorites \in Seq(STRING \X Path) /\ EachOnce(FirstFavorites)
    /\ FirstRecents \in Seq(STRING \X Path) /\ EachOnce(FirstRecents)
ASSUME SettingsAssumption ==
    /\ FirstSettings \subseteq [graphic : BOOLEAN, wrap : BOOLEAN, byPath : BOOLEAN]
    /\ MemoryMax \in Nat \ {0} /\ Window \in Nat \ {0} /\ RecentsKept \in Nat /\ MaxChanges \in Nat

VARIABLES
    card,           \* system -> ROMs on the card
    cache,          \* system -> the list of the last scan, or NoCache
    scan,           \* rom_scan_refresh_pid and _system_id, and how it ended
    lastScan,       \* rom_scan_refresh_system_id within the minimum interval
    favoriteFile, recentFile,     \* the two files, sequences of <<system, path>>
    screen, menuBack, galleryBack, romEntry,
    sys,            \* current_system_id
    dir,            \* rom_directory, <<>> at the top
    list, cursor,   \* rom_entries and rom_cursor (from 0)
    memory,         \* rom_cursor_memory
    move,           \* the gallery transition: its target, or NoMove
    queued,         \* the move queued behind it, or NoMove
    romSettings,    \* rom_mode graphic, rom_cursor_wrap, sort_roms
    changes

browserVars == <<card, cache, scan, lastScan, favoriteFile, recentFile, screen, menuBack, galleryBack, romEntry,
          sys, dir, list, cursor, memory, move, queued, romSettings, changes>>
World == <<card, favoriteFile, recentFile, romSettings, changes>>
FilesChange == changes < MaxChanges /\ changes' = changes + 1

NoCache == {<<>>}
NoSys == "none"
NoScan == [sys |-> NoSys, state |-> "none"]
NoMove == -1
Lists == {"ROMS", "FAVORITES", "RECENT"}

(* ------------------------------- lists ---------------------------------- *)

(* rom_browser_child_for_path: what a ROM contributes to the directory shown, *)
(* itself, a directory, or nothing.  At the top the alias is left out.        *)
Base(path, d) == IF d # <<>> THEN d ELSE IF Len(path) > 1 THEN <<path[1]>> ELSE <<>>
InDir(path, d) == IsStrictPrefix(Base(path, d), path)
IsDir(path, d) == Len(path) > Len(Base(path, d)) + 1
Child(path, d) == IF IsDir(path, d) THEN SubSeq(path, 1, Len(Base(path, d)) + 1) ELSE path

Starred(s, path) == \E i \in DOMAIN favoriteFile : favoriteFile[i] = <<s, path>>
RomEntry(s, path) == [sys |-> s, path |-> path, dir |-> FALSE, star |-> Starred(s, path)]
DirEntry(s, path) == [sys |-> s, path |-> path, dir |-> TRUE, star |-> FALSE]

(* qsort by title or by path: the members of paths in that order.            *)
Nth(places, n) == CHOOSE i \in places : Cardinality({j \in places : j <= i}) = n
Sorted(paths, byPath) ==
    LET order == IF byPath THEN PathOrder ELSE NameOrder
        places == {i \in DOMAIN order : order[i] \in paths}
    IN  [n \in 1..Cardinality(places) |-> order[Nth(places, n)]]

(* The end of load_rom_entries: directories first, each part sorted, stars   *)
(* from favorites.json.                                                      *)
MutantView(s, d, roms, byPath) ==       \* no mark_favorite_flags
    LET shown == {p \in roms : InDir(p, d)}
        subdirs == {Child(p, d) : p \in {q \in shown : IsDir(q, d)}}
        files == {p \in shown : ~IsDir(p, d)}
        top == Sorted(subdirs, byPath)
        rest == Sorted(files, byPath)
    IN  [i \in DOMAIN top |-> DirEntry(s, top[i])]
          \o [i \in DOMAIN rest |-> [RomEntry(s, rest[i]) EXCEPT !.star = FALSE]]

View(s, d, roms, byPath) ==
    LET shown == {p \in roms : InDir(p, d)}
        subdirs == {Child(p, d) : p \in {q \in shown : IsDir(q, d)}}
        files == {p \in shown : ~IsDir(p, d)}
        top == Sorted(subdirs, byPath)
        rest == Sorted(files, byPath)
    IN  [i \in DOMAIN top |-> DirEntry(s, top[i])]
          \o [i \in DOMAIN rest |-> RomEntry(s, rest[i])]

FileView(games) == [i \in DOMAIN games |-> RomEntry(games[i][1], games[i][2])]

Has(l, path) == \E i \in DOMAIN l : l[i].path = path
IndexOf(l, path) == SelectInSeq(l, LAMBDA e : e.path = path) - 1
Selected == list[cursor + 1]
HasSelection == cursor < Len(list)

(* ------------------------------- scans ---------------------------------- *)

Background(s) == [sys |-> s, state |-> "running"]
ScanNow(s) == \/ cache' = [cache EXCEPT ![s] = card[s]]
              \/ UNCHANGED cache
Triggered(s) ==
    IF scan # NoScan THEN UNCHANGED <<scan, lastScan>>
    ELSE \/ scan' = Background(s) /\ lastScan' = s
         \/ lastScan = s /\ UNCHANGED <<scan, lastScan>>    \* too soon after the last one

(* load_rom_entries: the scan it starts or waits for, then the list it reads; *)
(* the list is empty when it fails.                                           *)
Load(s, d, suppressed, ok, byPath) ==
    /\ IF cache[s] = NoCache \/ (romSettings.graphic /\ ~suppressed)
       THEN ScanNow(s) /\ UNCHANGED <<scan, lastScan>>
       ELSE UNCHANGED cache /\ IF suppressed THEN UNCHANGED <<scan, lastScan>> ELSE Triggered(s)
    /\ ok => cache'[s] # NoCache
    /\ list' = IF ok THEN View(s, d, cache'[s], byPath) ELSE <<>>

NoScanChange == UNCHANGED <<cache, scan, lastScan>>

(* ------------------------------- cursor --------------------------------- *)

Least(a, b) == IF a < b THEN a ELSE b
Most(a, b) == IF a > b THEN a ELSE b

(* rom_cursor_after_delta                                                    *)
After(base, delta) ==
    LET n == Len(list) b == Least(base, n - 1)
    IN  IF n = 0 THEN 0
        ELSE IF romSettings.wrap /\ n > 1 THEN (b + delta) % n
        ELSE Most(0, Least(b + delta, n - 1))

PageDown == IF list = <<>> THEN cursor ELSE Least(cursor + Window, Len(list) - 1)
PageUp == Most(0, cursor - Window)

Slot(s, d) == SelectInSeq(memory, LAMBDA m : m.sys = s /\ m.dir = d)
Place(s, d, path) == [sys |-> s, dir |-> d, path |-> path]

(* remember_current_rom_cursor, with the cursor at c: the oldest place goes  *)
(* when the memory is full.                                                  *)
MutantRemembered(c) ==          \* a place once remembered stays as it was
    IF c >= Len(list) \/ Slot(sys, dir) > 0 THEN memory
    ELSE Append(IF Len(memory) >= MemoryMax THEN Tail(memory) ELSE memory, Place(sys, dir, list[c + 1].path))

Remembered(c) ==
    IF c >= Len(list) THEN memory
    ELSE LET here == Place(sys, dir, list[c + 1].path) i == Slot(sys, dir)
         IN  IF i > 0 THEN [memory EXCEPT ![i] = here]
             ELSE Append(IF Len(memory) >= MemoryMax THEN Tail(memory) ELSE memory, here)

(* restore_current_rom_cursor, in the list l                                 *)
Restored(m, s, d, l) ==
    LET i == SelectInSeq(m, LAMBDA x : x.sys = s /\ x.dir = d)
    IN  IF i > 0 /\ Has(l, m[i].path) THEN IndexOf(l, m[i].path) ELSE 0

(* The selection found again by its path after a reload.                     *)
MutantReselected(l) == IF cursor < Len(l) THEN cursor ELSE 0     \* by position
Reselected(l) == IF HasSelection /\ Has(l, Selected.path) THEN IndexOf(l, Selected.path) ELSE 0

StopMoves == move' = NoMove /\ queued' = NoMove
KeepMoves == UNCHANGED <<move, queued>>
Fixed == UNCHANGED <<menuBack, galleryBack, romEntry>>

(* ---------------------------- opening lists ----------------------------- *)

BrowserInit ==
    /\ card = FirstCard
    /\ cache = [s \in Systems |-> NoCache]
    /\ scan = NoScan /\ lastScan = NoSys
    /\ favoriteFile = FirstFavorites /\ recentFile = FirstRecents
    /\ screen = "TOP" /\ menuBack = "TOP" /\ galleryBack = "TOP" /\ romEntry = "ROMS"
    /\ sys = NoSys /\ dir = <<>> /\ list = <<>> /\ cursor = 0
    /\ memory = <<>> /\ move = NoMove /\ queued = NoMove
    /\ romSettings \in FirstSettings
    /\ changes = 0

(* open_rom_screen, as a list or, when the gallery was left last, a gallery  *)
OpenSystem(s, ok) ==
    /\ screen = "TOP"
    /\ sys' = s /\ dir' = <<>>
    /\ Load(s, <<>>, FALSE, ok, romSettings.byPath)
    /\ cursor' = IF ok THEN Restored(memory, s, <<>>, list') ELSE 0
    /\ IF romSettings.graphic /\ romEntry = "GALLERY" /\ list' # <<>>
       THEN screen' = "GALLERY" /\ galleryBack' = "TOP"
       ELSE screen' = "ROMS" /\ UNCHANGED galleryBack
    /\ StopMoves
    /\ UNCHANGED <<World, memory, menuBack, romEntry>>

OpenFile(name, games, target) ==
    /\ screen = "TOP" /\ screen' = target
    /\ sys' = name /\ dir' = <<>>
    /\ list' = FileView(games) /\ cursor' = Restored(memory, name, <<>>, list')
    /\ NoScanChange /\ StopMoves /\ Fixed
    /\ UNCHANGED <<World, memory>>

OpenFavorites == OpenFile("favorites", favoriteFile, "FAVORITES")
OpenRecent == OpenFile("recent", recentFile, "RECENT")

(* X on a list: from the ROMs of a system the artwork is scanned for first.  *)
OpenGallery(ok) ==
    /\ screen \in Lists /\ list # <<>>
    /\ screen' = "GALLERY" /\ galleryBack' = screen
    /\ \/ /\ screen = "ROMS"
          /\ cache' = [cache EXCEPT ![sys] = card[sys]]
          /\ list' = IF ok THEN View(sys, dir, cache'[sys], romSettings.byPath) ELSE <<>>
          /\ cursor' = Reselected(list')
       \/ UNCHANGED <<cache, list, cursor>>        \* another list, or no scan
    /\ StopMoves
    /\ UNCHANGED <<World, scan, lastScan, sys, dir, memory, menuBack, romEntry>>

CloseGallery ==
    /\ screen = "GALLERY" /\ romEntry' = "ROMS"
    /\ screen' = IF galleryBack \in {"FAVORITES", "RECENT"} THEN galleryBack ELSE "ROMS"
    /\ galleryBack' = "TOP"
    /\ StopMoves /\ NoScanChange
    /\ UNCHANGED <<World, sys, dir, list, cursor, memory, menuBack>>

(* -------------------------- moving in a list ---------------------------- *)

MoveTo(c) ==
    /\ cursor' = c
    /\ memory' = IF c # cursor THEN Remembered(c) ELSE memory

MoveInList ==
    /\ screen \in Lists
    /\ \/ \E d \in {-1, 1} : MoveTo(After(cursor, d))
       \/ MoveTo(PageDown) \/ MoveTo(PageUp)
    /\ KeepMoves /\ NoScanChange /\ Fixed
    /\ UNCHANGED <<World, screen, sys, dir, list>>

(* move_gallery_cursor: one step slides, and while it slides the next one is *)
(* queued; five steps jump.                                                  *)
MoveInGallery ==
    /\ screen = "GALLERY" /\ list # <<>>
    /\ \/ \E d \in {-5, 5} :
            /\ MoveTo(After(cursor, d))
            /\ IF cursor' # cursor THEN StopMoves ELSE KeepMoves
       \/ \E d \in {-1, 1} :
            IF move # NoMove
            THEN /\ queued' = IF After(move, d) # move THEN After(move, d) ELSE queued
                 /\ UNCHANGED <<move, cursor, memory>>
            ELSE /\ MoveTo(After(cursor, d))
                 /\ move' = IF cursor' # cursor THEN cursor' ELSE NoMove
                 /\ UNCHANGED queued
    /\ NoScanChange /\ Fixed
    /\ UNCHANGED <<World, screen, sys, dir, list>>

(* render_gallery: the slide ends with time, and the queued one begins.      *)
StartPending ==
    LET to == Least(queued, Len(list) - 1) IN
    /\ queued # NoMove /\ list # <<>>
    /\ queued' = NoMove
    /\ MoveTo(to)
    /\ move' = IF to # cursor THEN to ELSE NoMove

RenderGallery ==
    /\ screen = "GALLERY"
    /\ \/ /\ move # NoMove /\ move = cursor
          /\ StartPending \/ (queued = NoMove /\ move' = NoMove /\ UNCHANGED <<queued, cursor, memory>>)
       \/ move = NoMove /\ StartPending
    /\ NoScanChange /\ Fixed
    /\ UNCHANGED <<World, screen, sys, dir, list>>

(* ----------------------------- directories ------------------------------ *)

Parent(d) == IF Len(d) <= 2 THEN <<>> ELSE Front(d)

(* reload_rom_directory_no_scan in directory d; when it fails the directory  *)
(* is kept and the list is empty.                                            *)
ReloadDirectory(d, ok) ==
    /\ memory' = Remembered(cursor)
    /\ Load(sys, d, TRUE, ok, romSettings.byPath)
    /\ dir' = IF ok THEN d ELSE dir
    /\ cursor' = IF ok THEN Restored(memory', sys, d, list') ELSE 0

OpenDirectory(ok) ==
    /\ screen \in Lists \cup {"GALLERY"} /\ HasSelection /\ Selected.dir
    /\ ReloadDirectory(Selected.path, ok)
    /\ KeepMoves /\ Fixed
    /\ UNCHANGED <<World, screen, sys>>

InSubdirectory == screen \in {"ROMS", "GALLERY"} /\ dir # <<>>

OpenParent ==
    /\ InSubdirectory
    /\ ReloadDirectory(Parent(dir), TRUE)
    /\ KeepMoves /\ Fixed
    /\ UNCHANGED <<World, screen, sys>>

(* B at the top of a list, or where the parent cannot be loaded              *)
LeaveList ==
    /\ screen \in Lists \cup {"GALLERY"}
    /\ screen' = "TOP" /\ romEntry' = IF screen = "GALLERY" THEN "GALLERY" ELSE "ROMS"
    /\ \/ ~InSubdirectory /\ memory' = Remembered(cursor) /\ NoScanChange /\ UNCHANGED <<dir, list, cursor>>
       \/ InSubdirectory /\ ReloadDirectory(Parent(dir), FALSE)
    /\ galleryBack' = "TOP" /\ StopMoves
    /\ UNCHANGED <<World, sys, menuBack>>

(* --------------------------- stars and games ---------------------------- *)

ShowsFavorites == screen = "FAVORITES" \/ (screen = "GALLERY" /\ galleryBack = "FAVORITES")
SaveFavorites(games) == favoriteFile' = games

(* The cursor after an entry of Favorites is gone                            *)
AfterRemoval(l) == IF l = <<>> THEN 0 ELSE Least(cursor, Len(l) - 1)

(* toggle_current_favorite; a save that fails changes nothing.               *)
ToggleFavorite ==
    LET e == <<Selected.sys, Selected.path>> IN
    /\ screen \in Lists \cup {"GALLERY"} /\ HasSelection /\ ~Selected.dir
    /\ \/ /\ Starred(e[1], e[2]) /\ SaveFavorites(RemoveFirst(favoriteFile, e))
          /\ IF ShowsFavorites
             THEN /\ list' = [i \in DOMAIN favoriteFile' |-> [RomEntry(favoriteFile'[i][1], favoriteFile'[i][2]) EXCEPT !.star = TRUE]]
                  /\ cursor' = AfterRemoval(list')
             ELSE list' = [list EXCEPT ![cursor + 1].star = FALSE] /\ UNCHANGED cursor
       \/ /\ ~Starred(e[1], e[2])
          /\ SaveFavorites(Append(favoriteFile, e))
          /\ list' = [list EXCEPT ![cursor + 1].star = TRUE] /\ UNCHANGED cursor
    /\ FilesChange /\ KeepMoves /\ NoScanChange /\ Fixed
    /\ UNCHANGED <<card, recentFile, romSettings, screen, sys, dir, memory>>

(* launch_rom_entry: the launcher puts the game at the head of recent.json,  *)
(* or fails before; the list of Recent is read again.                        *)
LaunchRomEntry ==
    LET e == <<Selected.sys, Selected.path>> IN
    /\ screen \in Lists \cup {"GALLERY"} /\ HasSelection /\ ~Selected.dir
    /\ memory' = Remembered(cursor)
    /\ \/ UNCHANGED <<recentFile, changes>>
       \/ LET new == <<e>> \o RemoveFirst(recentFile, e)
          IN  FilesChange /\ recentFile' = SubSeq(new, 1, Least(Len(new), RecentsKept))
    /\ IF screen = "RECENT" THEN list' = FileView(recentFile') /\ cursor' = 0 ELSE UNCHANGED <<list, cursor>>
    /\ KeepMoves /\ NoScanChange /\ Fixed
    /\ UNCHANGED <<card, favoriteFile, romSettings, screen, sys, dir>>

(* ------------------------- menus and the world -------------------------- *)

(* START, SELECT or POWER over a list, and back                              *)
OpenMenu ==
    /\ screen # "MENU" /\ screen' = "MENU" /\ menuBack' = screen
    /\ StopMoves /\ NoScanChange
    /\ UNCHANGED <<World, galleryBack, romEntry, sys, dir, list, cursor, memory>>

CloseMenu ==
    /\ screen = "MENU" /\ screen' = menuBack /\ menuBack' = "TOP"
    /\ KeepMoves /\ NoScanChange
    /\ UNCHANGED <<World, galleryBack, romEntry, sys, dir, list, cursor, memory>>

(* The setting sort_roms is saved: the order changes, the list is loaded     *)
(* again where it is one of a system.                                        *)
SaveSortRoms(ok) ==
    /\ screen = "MENU" /\ FilesChange
    /\ romSettings' = [romSettings EXCEPT !.byPath = ~@]
    /\ IF sys \in Systems
       THEN /\ Load(sys, dir, FALSE, ok, ~romSettings.byPath)
            /\ cursor' = IF ok THEN Reselected(list') ELSE 0
       ELSE NoScanChange /\ UNCHANGED <<list, cursor>>
    /\ KeepMoves /\ Fixed
    /\ UNCHANGED <<card, favoriteFile, recentFile, screen, sys, dir, memory>>

ScannerEnds ==
    /\ scan.state = "running"
    /\ \/ cache' = [cache EXCEPT ![scan.sys] = card[scan.sys]] /\ scan' = [scan EXCEPT !.state = "ok"]
       \/ scan' = [scan EXCEPT !.state = "failed"] /\ UNCHANGED cache
    /\ KeepMoves /\ Fixed
    /\ UNCHANGED <<World, lastScan, screen, sys, dir, list, cursor, memory>>

(* poll_rom_scan_refresh: the result is shown only on the list it is for.    *)
PollScan(ok) ==
    /\ scan.state \in {"ok", "failed"} /\ scan' = NoScan
    /\ IF scan.state = "ok" /\ screen = "ROMS" /\ sys = scan.sys
       THEN /\ list' = IF ok THEN View(sys, dir, cache[sys], romSettings.byPath) ELSE <<>>
            /\ cursor' = IF ok THEN Reselected(list') ELSE 0
       ELSE UNCHANGED <<list, cursor>>
    /\ KeepMoves /\ Fixed
    /\ UNCHANGED <<World, cache, lastScan, screen, sys, dir, memory>>

CardChanges ==
    /\ FilesChange
    /\ \E s \in Systems : \E p \in Roms[s] :
         card' = [card EXCEPT ![s] = IF p \in @ THEN @ \ {p} ELSE @ \cup {p}]
    /\ KeepMoves /\ NoScanChange /\ Fixed
    /\ UNCHANGED <<favoriteFile, recentFile, romSettings, screen, sys, dir, list, cursor, memory>>

BrowserNext ==
    \/ \E ok \in BOOLEAN :
         \/ \E s \in Systems : OpenSystem(s, ok)
         \/ OpenGallery(ok) \/ OpenDirectory(ok) \/ SaveSortRoms(ok) \/ PollScan(ok)
    \/ OpenFavorites \/ OpenRecent \/ CloseGallery \/ MoveInList \/ MoveInGallery \/ RenderGallery
    \/ OpenParent \/ LeaveList \/ ToggleFavorite \/ LaunchRomEntry \/ OpenMenu \/ CloseMenu
    \/ ScannerEnds \/ CardChanges

BrowserSpec == BrowserInit /\ [][BrowserNext]_browserVars
-----------------------------------------------------------------------------
(* ------------------------------ properties ------------------------------ *)

(* A star is shown exactly on the games favorites.json holds, on every list  *)
(* and gallery, however it was loaded and whoever changed the file since.    *)
StarsTrue ==
    screen \in Lists \cup {"GALLERY"} =>
        \A i \in DOMAIN list : ~list[i].dir => list[i].star = Starred(list[i].sys, list[i].path)

(* What is selected stays selected when the list changes under it: a scan    *)
(* that ends or a new order never puts another game under the A button while *)
(* the one selected is still listed (refresh_current_rom_entries_preserve_   *)
(* cursor).                                                                  *)
SelectionKept ==
    [][\A ok \in BOOLEAN :
          (PollScan(ok) \/ SaveSortRoms(ok)) /\ HasSelection /\ Has(list', Selected.path)
            => list'[cursor' + 1].path = Selected.path]_browserVars

(* B out of a directory leads back to the entry of that directory, however   *)
(* the cursor moved in between, as long as the memory still holds a place for *)
(* the parent: at its limit it drops the oldest, though that may be the one.  *)
ReturnToPlace ==
    [][OpenParent /\ Has(list', dir) /\ (\E i \in DOMAIN memory' : memory'[i].sys = sys /\ memory'[i].dir = dir')
         => list'[cursor' + 1].path = dir]_browserVars
=============================================================================
