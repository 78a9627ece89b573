---------------------------- MODULE LibraryScan ----------------------------
(* plumos-library-scan: what a scan of the card finds, and how it replaces  *)
(* the list the frontend reads.  The controller and the text frontend start *)
(* scanners for one system (its list is systems/<id>.json) or for all of    *)
(* them (library-index.json), in the background or while they wait; two     *)
(* scanners may run at once, also for the same list; files may come and go  *)
(* on the card, the card may be full, and the power may go at any step.     *)
(*                                                                          *)
(* Abstractions.  The text of a list is two chunks, each tagged with the    *)
(* run that wrote it: stdio writes it through a buffer much smaller than    *)
(* the file.  A name is a model value; letter case, dot files and sidecars  *)
(* are the field "hidden", thumbnails are the set of items with artwork.    *)
(* The lists are on the ext4 partition: its journal makes a rename one      *)
(* change, so a power loss keeps what was fsynced, any prefix of the data   *)
(* that was not, and of each output the entries of the last directory sync  *)
(* or the present ones.                                                     *)
EXTENDS Integers, Sequences, FiniteSets, FiniteSetsExt, SequencesExt

CONSTANTS
    SystemList,     \* what load_systems returns, in its order: records [id,
                    \* enabled, aliases (records [name, shared]), exts, scanDirs]
    DirOf,          \* the directory an alias name leads to on the card, or NoDir
    NoDir, NoSub,
    AllFiles,       \* records [dir, sub, name, ext, hidden]
    FirstFiles,     \* the files on the card at the start
    Archives,       \* {zip, 7z}
    Full,           \* the output of a scan without a filter
    Scanners,       \* processes
    MaxScannedDirs, \* MAX_SCANNED_DIRS, 1024 in the code
    MaxRuns, MaxChanges, MaxCrashes    \* bounds of the instance

ASSUME BoundsAssumption ==
    MaxScannedDirs \in Nat /\ MaxRuns \in Nat /\ MaxChanges \in Nat /\ MaxCrashes \in Nat
ASSUME SystemsAssumption ==
    SystemList \in Seq([id : {SystemList[i].id : i \in DOMAIN SystemList}, enabled : BOOLEAN,
                        aliases : Seq([name : DOMAIN DirOf, shared : BOOLEAN]),
                        exts : SUBSET STRING, scanDirs : BOOLEAN])
ASSUME FilesAssumption == FirstFiles \subseteq AllFiles /\ \A f \in AllFiles : f.dir # NoDir
ASSUME ScannersAssumption == IsFiniteSet(Scanners)

VARIABLES
    romFiles,   \* files under roms/
    art,        \* items with artwork
    scanner,    \* what each process does
    runs,       \* for each run so far, the list it wrote
    names,      \* the directory entries as a program sees them: name -> inode
    durable,    \* the same after a power loss with nothing later written
    data,       \* inode -> its two chunks
    synced,     \* the inodes fsynced since they were last written
    full,       \* the card has no room left
    acked,      \* for each output, the last run that exited with success
    mixed,      \* history: the outputs whose scanners share the temporary file,
                \* or lost a chunk to a full card that got room again
    damaged,    \* history: the outputs mixed since a scan that was not last ended well
    changes, crashes

scanVars == <<romFiles, art, scanner, runs, names, durable, data, synced, full, acked, mixed, damaged, changes, crashes>>

Ids == {SystemList[i].id : i \in DOMAIN SystemList}
Outputs == Ids \cup {Full}
Tmp(o) == <<o, "tmp">>
List(o) == <<o, "json">>
FileNames == {Tmp(o) : o \in Outputs} \cup {List(o) : o \in Outputs}
(* An inode belongs to the output it was made for; one more of each than the *)
(* entries, the synced entries and the open files can hold.                  *)
Inodes == Outputs \X (1 .. 4 + Cardinality(Scanners))
None == <<Full, 0>>
Pcs == {"idle", "scan", "open", "write", "sync", "rename", "dirsync"}

(* ------------------------- what a scan finds ---------------------------- *)

(* One entry stands for one inode: a file, or with scan_directories a top    *)
(* directory of the alias.                                                   *)
ItemOf(f) == [dir |-> f.dir, sub |-> f.sub, name |-> f.name]
DirItem(f) == [dir |-> f.dir, sub |-> f.sub, name |-> NoSub]
Items == {ItemOf(f) : f \in AllFiles} \cup {DirItem(f) : f \in AllFiles}

MutantExtMatches(s, f, filterArchives) ==      \* shared archives listed too
    f.ext \in s.exts

ExtMatches(s, f, filterArchives) ==
    f.ext \in s.exts /\ ~(filterArchives /\ f.ext \in Archives)

ItemsUnder(s, dir, filterArchives, files) ==
    LET here == {f \in files : f.dir = dir}
        dirs == IF s.scanDirs THEN {f \in here : f.sub # NoSub} ELSE {}
    IN  {DirItem(f) : f \in dirs}
          \cup {ItemOf(f) : f \in {g \in here \ dirs : ~g.hidden /\ ExtMatches(s, g, filterArchives)}}

(* The aliases a run goes through, <<system, position>>, and the one that    *)
(* the two loops come to first.                                              *)
Chosen(o) == {i \in DOMAIN SystemList : SystemList[i].enabled /\ o \in {Full, SystemList[i].id}}
Work(o) == UNION {{i} \X DOMAIN SystemList[i].aliases : i \in Chosen(o)}
Before(u, w) == u[1] < w[1] \/ (u[1] = w[1] /\ u[2] < w[2])
NextAlias(todo) == CHOOSE w \in todo : \A u \in todo : ~Before(u, w)

Idle == [pc |-> "idle", out |-> Full, thumbs |-> FALSE, todo |-> {}, dirs |-> {},
         roms |-> {}, run |-> 0, fd |-> None, chunk |-> 0, lost |-> FALSE]

HasArt(item, thumbs) == thumbs /\ item \in art

Entry(i, alias, item, thumbs) ==
    [sys |-> i, alias |-> alias, item |-> item, art |-> HasArt(item, thumbs)]

Seen(dirs, i, dir) == <<i, dir>> \in dirs

Remembered(dirs, i, dir) == IF Cardinality(dirs) < MaxScannedDirs THEN dirs \cup {<<i, dir>>} ELSE dirs

(* scan_alias_dir: a directory already scanned for this system is skipped,   *)
(* and an item already in the list is not added again.                       *)
AfterAlias(p) ==
    LET sc  == scanner[p]
        w   == NextAlias(sc.todo)
        s   == SystemList[w[1]]
        alias == s.aliases[w[2]]
        dir == DirOf[alias.name]
        rest == [sc EXCEPT !.todo = @ \ {w}]
        new == {x \in ItemsUnder(s, dir, w[2] > 1 /\ alias.shared, romFiles) :
                  \A r \in sc.roms : ~(r.sys = w[1] /\ r.item = x)}
    IN  IF dir = NoDir \/ Seen(sc.dirs, w[1], dir) THEN rest
        ELSE [rest EXCEPT !.dirs = Remembered(@, w[1], dir),
                          !.roms = @ \cup {Entry(w[1], alias.name, x, sc.thumbs) : x \in new}]

(* ------------------------------ processes ------------------------------- *)

RunIds == 1 .. MaxRuns
NoRun == [out |-> Full, thumbs |-> FALSE, roms |-> {}, changed |-> FALSE]

ScanInit ==
    /\ romFiles = FirstFiles /\ art = {}
    /\ scanner = [p \in Scanners |-> Idle]
    /\ runs = <<>>
    /\ names = [n \in FileNames |-> None] /\ durable = [n \in FileNames |-> None]
    /\ data = [i \in Inodes |-> <<0, 0>>] /\ synced = Inodes
    /\ full = FALSE
    /\ acked = [o \in Outputs |-> 0]
    /\ mixed = {} /\ damaged = {}
    /\ changes = 0 /\ crashes = 0

Active(p) == scanner[p].pc # "idle"
Disk == <<names, durable, data, synced, full>>
World == <<romFiles, art, changes, crashes>>
History == <<mixed, damaged>>

(* main: --system, --on-enter (no thumbnails) or --on-enter                  *)
(* --with-thumbnails, or no filter.  Nothing keeps two scanners of one list  *)
(* apart: the second one opens the temporary file of the first.              *)
AtWork(o) == \E q \in Scanners : Active(q) /\ scanner[q].out = o

Start(p, o, thumbs) ==
    /\ ~Active(p) /\ Len(runs) < MaxRuns
    /\ o = Full => thumbs
    /\ runs' = Append(runs, [NoRun EXCEPT !.out = o, !.thumbs = thumbs])
    /\ scanner' = [scanner EXCEPT ![p] = [Idle EXCEPT !.pc = "scan", !.out = o, !.thumbs = thumbs,
                                                     !.todo = Work(o), !.run = Len(runs) + 1]]
    /\ mixed' = IF AtWork(o) THEN mixed \cup {o} ELSE mixed \ {o}
    /\ damaged' = IF AtWork(o) THEN damaged \cup {o} ELSE damaged
    /\ UNCHANGED <<Disk, acked, World>>

ScanAlias(p) ==
    /\ scanner[p].pc = "scan" /\ scanner[p].todo # {}
    /\ scanner' = [scanner EXCEPT ![p] = AfterAlias(p)]
    /\ UNCHANGED <<runs, Disk, acked, History, World>>

Sorted(p) ==
    /\ scanner[p].pc = "scan" /\ scanner[p].todo = {}
    /\ runs' = [runs EXCEPT ![scanner[p].run].roms = scanner[p].roms]
    /\ scanner' = [scanner EXCEPT ![p].pc = "open", ![p].roms = {}, ![p].dirs = {}]
    /\ UNCHANGED <<Disk, acked, History, World>>

InUse == {names[n] : n \in FileNames} \cup {durable[n] : n \in FileNames} \cup {scanner[p].fd : p \in Scanners}
FreeInode(o) == CHOOSE i \in {j \in Inodes : j[1] = o} : i \notin InUse
TmpName(p) == Tmp(scanner[p].out)

Exit(p) == scanner' = [scanner EXCEPT ![p] = Idle]

(* fopen "wb": the old file of that name is truncated, or a new one made.    *)
OpenTmp(p) ==
    /\ scanner[p].pc = "open"
    /\ LET n == TmpName(p)
           i == IF names[n] = None THEN FreeInode(scanner[p].out) ELSE names[n]
       IN  /\ names' = [names EXCEPT ![n] = i]
           /\ data' = [data EXCEPT ![i] = <<0, 0>>]
           /\ synced' = synced \ {i}
           /\ scanner' = [scanner EXCEPT ![p].pc = "write", ![p].fd = i, ![p].chunk = 1]
    /\ UNCHANGED <<runs, durable, full, acked, History, World>>

(* stdio writes a chunk when its buffer is full; a failure is noticed only   *)
(* by the last one, in fflush.                                               *)
WriteChunk(p) ==
    LET sc == scanner[p] IN
    /\ sc.pc = "write" /\ sc.chunk <= 2
    /\ data' = IF full THEN data ELSE [data EXCEPT ![sc.fd][sc.chunk] = sc.run]
    /\ synced' = synced \ {sc.fd}
    /\ scanner' = [scanner EXCEPT ![p].chunk = @ + 1, ![p].lost = full,
                                  ![p].pc = IF sc.chunk = 2 THEN "sync" ELSE @]
    /\ UNCHANGED <<runs, names, durable, full, acked, History, World>>

Unlink(p) == names' = [names EXCEPT ![TmpName(p)] = None]

GiveUp(p) ==
    /\ Unlink(p) /\ Exit(p)
    /\ UNCHANGED <<runs, durable, data, synced, full, acked, History, World>>

MutantSync(p) ==            \* renamed without fsync
    /\ scanner[p].pc = "sync" /\ ~scanner[p].lost
    /\ scanner' = [scanner EXCEPT ![p].pc = "rename", ![p].fd = None]
    /\ UNCHANGED <<runs, names, durable, data, synced, full, acked, History, World>>

SyncTmp(p) ==
    /\ scanner[p].pc = "sync" /\ ~scanner[p].lost
    /\ synced' = synced \cup {scanner[p].fd}
    /\ scanner' = [scanner EXCEPT ![p].pc = "rename", ![p].fd = None]
    /\ UNCHANGED <<runs, names, durable, data, full, acked, History, World>>

(* A failed flush, fsync or close.                                           *)
SyncFails(p) == scanner[p].pc = "sync" /\ GiveUp(p)

Rename(p) ==
    /\ scanner[p].pc = "rename" /\ names[TmpName(p)] # None
    /\ names' = [names EXCEPT ![TmpName(p)] = None, ![List(scanner[p].out)] = names[TmpName(p)]]
    /\ scanner' = [scanner EXCEPT ![p].pc = "dirsync"]
    /\ UNCHANGED <<runs, durable, data, synced, full, acked, History, World>>

(* An I/O error, or the temporary file is gone: another scanner renamed it.  *)
RenameFails(p) == scanner[p].pc = "rename" /\ GiveUp(p)

DirSync(p) ==
    /\ scanner[p].pc = "dirsync"
    /\ durable' = names
    /\ acked' = [acked EXCEPT ![scanner[p].out] = scanner[p].run]
    /\ Exit(p)
    /\ damaged' = damaged \ ({scanner[p].out} \ mixed)
    /\ UNCHANGED <<runs, names, data, synced, full, mixed, World>>

(* sync_parent_dir fails: the list is in place, the exit status says no.     *)
DirSyncFails(p) == scanner[p].pc = "dirsync" /\ Exit(p) /\ UNCHANGED <<runs, Disk, acked, History, World>>

Step(p) ==
    \/ ScanAlias(p) \/ Sorted(p) \/ OpenTmp(p) \/ WriteChunk(p) \/ SyncTmp(p) \/ SyncFails(p)
    \/ Rename(p) \/ RenameFails(p) \/ DirSync(p) \/ DirSyncFails(p)

(* ----------------------------- the world -------------------------------- *)

MarkChanged ==
    /\ changes < MaxChanges /\ changes' = changes + 1
    /\ \E p \in Scanners : scanner[p].pc = "scan"        \* before a run it is another FirstFiles
    /\ runs' = [r \in DOMAIN runs |-> [runs[r] EXCEPT !.changed = TRUE]]

CardChanges ==
    /\ MarkChanged
    /\ \E f \in AllFiles :
         romFiles' = IF f \in romFiles THEN romFiles \ {f} ELSE romFiles \cup {f}
    /\ UNCHANGED <<art, scanner, Disk, acked, History, crashes>>

ArtworkArrives ==
    /\ MarkChanged
    /\ \E i \in {ItemOf(f) : f \in romFiles} \ art : art' = art \cup {i}
    /\ UNCHANGED <<romFiles, scanner, Disk, acked, History, crashes>>

CardFills ==
    /\ ~full /\ full' = TRUE
    /\ \E p \in Scanners : scanner[p].pc = "write"      \* it matters only then
    /\ UNCHANGED <<scanner, runs, names, durable, data, synced, acked, History, World>>

(* A chunk lost before is a hole in the list if the last one fits again:     *)
(* fflush sees no error then, and ferror is not asked.                       *)
Missing == {scanner[p].out : p \in {q \in Scanners : scanner[q].lost}}

CardGetsRoom ==
    /\ full /\ full' = FALSE
    /\ mixed' = mixed \cup Missing /\ damaged' = damaged \cup Missing
    /\ UNCHANGED <<scanner, runs, names, durable, data, synced, acked, World>>

PowerLoss ==
    /\ crashes < MaxCrashes /\ crashes' = crashes + 1
    /\ scanner' = [p \in Scanners |-> Idle]
    /\ \E lost \in SUBSET {n[1] : n \in {m \in FileNames : names[m] # durable[m]}} :
         names' = [n \in FileNames |-> IF n[1] \in lost THEN durable[n] ELSE names[n]]
    /\ durable' = names'
    /\ \E cut \in [{names'[n] : n \in FileNames} \ (synced \cup {None}) -> 0 .. 2] :
         data' = [i \in Inodes |-> IF i \in DOMAIN cut THEN [k \in 1 .. 2 |-> IF k <= cut[i] THEN data[i][k] ELSE 0]
                                   ELSE data[i]]
    /\ synced' = Inodes
    /\ full' = FALSE
    /\ UNCHANGED <<romFiles, art, runs, acked, History, changes>>

ScanNext ==
    \/ \E p \in Scanners : \/ \E o \in Outputs, t \in BOOLEAN : Start(p, o, t)
                           \/ Step(p)
    \/ CardChanges \/ ArtworkArrives \/ CardFills \/ CardGetsRoom \/ PowerLoss

ScanSpec == ScanInit /\ [][ScanNext]_scanVars
-----------------------------------------------------------------------------
(* ------------------------------ properties ------------------------------ *)

ScanTypes ==
    /\ romFiles \subseteq AllFiles /\ art \subseteq Items
    /\ \A p \in Scanners :
         /\ scanner[p].pc \in Pcs /\ scanner[p].out \in Outputs
         /\ scanner[p].fd \in Inodes \cup {None} /\ scanner[p].run \in 0 .. Len(runs)
    /\ Len(runs) <= MaxRuns
    /\ names \in [FileNames -> Inodes \cup {None}] /\ durable \in [FileNames -> Inodes \cup {None}]
    /\ data \in [Inodes -> (0 .. MaxRuns) \X (0 .. MaxRuns)]
    /\ synced \subseteq Inodes /\ full \in BOOLEAN
    /\ acked \in [Outputs -> 0 .. MaxRuns]
    /\ mixed \subseteq damaged /\ damaged \subseteq Outputs

WholeBy(i, r) == data[i] = <<r, r>>

(* The list the frontend reads is missing or the whole list of one run for   *)
(* that output, also while a scanner writes and after a power loss at any    *)
(* step (write_library_index: temporary file, fsync, rename); and a scan     *)
(* that exited with success is not undone: from then on the list is the one  *)
(* of that run or of a later one.  Two scanners of one list at once can      *)
(* break it, and so can a hole where the card was full: until a scanner that *)
(* had the list to itself exits with success, then it is whole again.        *)
ListWhole ==
    \A o \in Outputs \ damaged :
        /\ names[List(o)] # None =>
              \E r \in DOMAIN runs : runs[r].out = o /\ WholeBy(names[List(o)], r)
        /\ acked[o] # 0 =>
              names[List(o)] # None /\ data[names[List(o)]][1] >= acked[o]

(* What a scan should list, said without the walk: every file whose          *)
(* extension the system takes, in the directory of one of its aliases, once, *)
(* under the first alias that leads there; archives not, when that alias is  *)
(* a directory shared with the system that owns it; directories as a whole   *)
(* where the system lists directories; with its artwork if it was asked for. *)
FirstAlias(s, dir) ==
    LET at == {a \in DOMAIN s.aliases : DirOf[s.aliases[a].name] = dir}
    IN  IF at = {} THEN 0 ELSE Min(at)
Belongs(s, f) ==
    LET a == FirstAlias(s, f.dir) IN
    /\ s.enabled /\ a # 0
    /\ \/ s.scanDirs /\ f.sub # NoSub
       \/ /\ ~f.hidden /\ f.ext \in s.exts
          /\ ~(f.ext \in Archives /\ a > 1 /\ s.aliases[a].shared)
ShownAs(s, f) == IF s.scanDirs /\ f.sub # NoSub THEN DirItem(f) ELSE ItemOf(f)
ExpectedOf(i, thumbs) ==
    LET s == SystemList[i]
    IN  {Entry(i, s.aliases[FirstAlias(s, f.dir)].name, ShownAs(s, f), thumbs) : f \in {g \in romFiles : Belongs(s, g)}}
Expected(r) ==
    UNION {ExpectedOf(i, r.thumbs) : i \in {j \in DOMAIN SystemList : r.out \in {Full, SystemList[j].id}}}

(* Every part of the list in place comes from a run that found exactly what  *)
(* belongs on it, when neither the card nor the artwork has changed since    *)
(* that scan began: also of a list that two scanners wrote.                  *)
ListExact ==
    \A o \in Outputs : names[List(o)] # None =>
        \A k \in 1 .. 2 :
            LET r == data[names[List(o)]][k]
            IN  r # 0 /\ ~runs[r].changed => runs[r].roms = Expected(runs[r])
=============================================================================
