------------------------------ MODULE Archives ------------------------------
(* The archives of the server and of the client (src/internal/archive): a    *)
(* mods pack and a snapshot are validated, then unpacked by another piece of  *)
(* code; "backups create" writes a snapshot while the game is running; the    *)
(* client unpacks a localization through a mapper, and TES3MP from a ZIP.     *)
(*                                                                           *)
(* Validation and extraction are two passes over one file.  Here both take    *)
(* each entry as it comes: neither looks at the other.                        *)
EXTENDS ArchiveReader

CONSTANTS WorldDirs,      \* the fixed subdirectories of world/, in order
          NoList

VARIABLES kind,     \* mods | state | backup | overlay | zip
          phase,    \* idle, reading, whole (accepted to its end), refused
          rd,       \* the reader
          val,      \* what the validating pass knows
          ext,      \* what the extracting pass wrote
          live,     \* the game's files, path -> data (0: absent)
          todo,     \* of WriteState: the entries still to be written
          stats     \* of WriteState: entries, counted blocks, what it copied

vars == <<kind, phase, rd, val, ext, live, todo, stats>>

NoVal == [ok |-> TRUE, seen |-> {}, list |-> NoList, current |-> 0,
          plugins |-> {}, scripts |-> 0]
NoExt == [ok |-> TRUE, seen |-> {}, list |-> FALSE, current |-> FALSE,
          files |-> {}, keys |-> {}, size |-> 0, taken |-> {}]
NoStats == [entries |-> 0, blocks |-> 0, copied |-> {}]

Bob == <<"players", "bob">>
BobUpper == <<"players", "Bob">>
Cell == <<"world", Head(WorldDirs), "x">>
Config == <<"configs", "config.lua">>
LivePaths == {Bob, BobUpper, Cell, Config}
\* A cell whose name takes an extended tar header.
IsLong(path) == path = Cell

\* The game's files are followed while a backup runs.
NoFiles == [p \in LivePaths |-> 0]

Init ==
  /\ kind = "mods" /\ phase = "idle"
  /\ rd = NewReader /\ val = NoVal /\ ext = NoExt
  /\ live = NoFiles
  /\ todo = <<>> /\ stats = NoStats

(***************************************************************************)
(* A mods pack (mods.go, deploy.go).                                       *)
(***************************************************************************)
\* ValidateModsWithSize, one entry; the metadata is parsed on the way.
ModsEntryValid(v, h) ==
  \/ h.typ = "dir" /\ h.path \in {<<"plugins">>, <<"scripts">>}
  \/ /\ h.typ = "file" /\ Len(h.path) = 2
     /\ \/ h.path[1] = "scripts" /\ validateScriptFilename(h.path[2])
        \/ /\ h.path = <<"plugins", RDF>>
           /\ v.list = NoList /\ ParseRequiredDataFiles(h.list)
        \/ /\ h.path[1] = "plugins" /\ h.path[2] # RDF
           /\ validatePluginExtension(h.path[2])
           /\ ~isBaseESM(h.path[2])

ValidateModsEntry(v, h) ==
  IF ~ModsEntryValid(v, h) THEN [v EXCEPT !.ok = FALSE]
  ELSE IF h.typ = "dir" THEN v
  ELSE IF h.path[1] = "scripts" THEN [v EXCEPT !.scripts = @ + 1]
  ELSE IF h.path[2] = RDF THEN [v EXCEPT !.list = h.list]
  ELSE [v EXCEPT !.plugins = @ \cup {[name |-> h.path[2], crc |-> h.data]}]

\* Its end: there is metadata, and the plugins are the listed ones.
ValidateMods(v) ==
  v.ok /\ v.list # NoList /\ validateModsRequirements(v.list, v.plugins)

\* writeExtractedFile: O_EXCL, so a path is written once.
writeExtractedFile(e, h) ==
  IF h.path \in e.keys THEN [e EXCEPT !.ok = FALSE]
  ELSE [e EXCEPT !.files = @ \cup {[path |-> h.path, data |-> h.data, list |-> h.list]},
                 !.keys = @ \cup {h.path}]

\* ExtractMods, one entry.
ModsEntryExtracted(h) ==
  \/ h.typ = "dir" /\ h.path \in {<<"plugins">>, <<"scripts">>}
  \/ /\ h.typ = "file" /\ Len(h.path) = 2
     /\ h.path[1] \in {"plugins", "scripts"}
     /\ h.path[1] = "plugins" => \/ h.path[2] = RDF
                                 \/ /\ validatePluginExtension(h.path[2])
                                    /\ ~isBaseESM(h.path[2])
     /\ h.path[1] = "scripts" => validateScriptFilename(h.path[2])

ExtractModsEntry(e, h) ==
  IF ~ModsEntryExtracted(h) THEN [e EXCEPT !.ok = FALSE]
  ELSE IF h.typ = "dir" THEN e ELSE writeExtractedFile(e, h)

\* ValidateModsDir: the tree a deploy is about to switch to.
PluginsIn(files) ==
  {[name |-> f.path[2], crc |-> f.data] :
     f \in {f \in files : f.path[1] = "plugins" /\ f.path[2] # RDF}}

ValidateModsDir(files) ==
  /\ \A f \in files : Len(f.path) = 2
  /\ \E f \in files :
       /\ f.path = <<"plugins", RDF>> /\ ParseRequiredDataFiles(f.list)
       /\ validateModsRequirements(f.list, PluginsIn(files))
  /\ \A p \in PluginsIn(files) :
       validatePluginExtension(p.name) /\ ~isBaseESM(p.name)
  /\ \A f \in files :
       f.path[1] = "scripts" => validateScriptFilename(f.path[2])

(***************************************************************************)
(* A snapshot (state.go, extract_state.go).                                *)
(***************************************************************************)
WorldSet == ToSet(WorldDirs)

stateRequiredDirs ==
  {<<"players">>, <<"world">>} \cup {<<"world", d>> : d \in WorldSet}

validateStateConfigs(seen) == Config \in seen

\* validateStateDir: the directories an archive may list, and what each shows.
StateDirs == {<<"configs">>} \cup stateRequiredDirs

validateStateDir(seen, path) ==
  seen \cup {path} \cup (IF path[1] = "world" THEN {<<"world">>} ELSE {})

\* The files a snapshot may hold besides its metadata.
StateFile(path) ==
  \/ path[1] = "players" /\ Len(path) = 2
  \/ path[1] = "world" /\ Len(path) = 3 /\ path[2] \in WorldSet
  \/ path = Config

\* A file shows its directory, a config file itself too.
ShownBy(path) == {Front(path), <<path[1]>>} \cup ({path} \cap {Config})

StateEntryValid(v, h) ==
  \/ h.typ = "dir" /\ h.path \in StateDirs
  \/ /\ h.typ = "file"
     /\ \/ h.path = <<RDF>> /\ v.list = NoList /\ ParseRequiredDataFiles(h.list)
        \/ /\ h.path = <<"current.txt">> /\ v.current = 0
           /\ ParseCurrent(h.data)
        \/ StateFile(h.path)

ValidateStateEntry(v, h) ==
  IF ~StateEntryValid(v, h) THEN [v EXCEPT !.ok = FALSE]
  ELSE IF h.typ = "dir" THEN [v EXCEPT !.seen = validateStateDir(@, h.path)]
  ELSE IF h.path = <<RDF>> THEN [v EXCEPT !.list = h.list]
  ELSE IF h.path = <<"current.txt">> THEN [v EXCEPT !.current = h.data]
  ELSE [v EXCEPT !.seen = @ \cup ShownBy(h.path)]

ValidateState(v) ==
  /\ v.ok /\ stateRequiredDirs \subseteq v.seen /\ validateStateConfigs(v.seen)
  /\ v.list # NoList /\ v.current # 0

\* ExtractState, one entry: the metadata is parsed again, files are written.
ExtractStateEntry(e, h) ==
  IF h.typ = "dir"
  THEN IF h.path \in StateDirs
       THEN [e EXCEPT !.seen = validateStateDir(@, h.path)]
       ELSE [e EXCEPT !.ok = FALSE]
  ELSE IF h.path = <<RDF>>
  THEN IF ~e.list /\ ParseRequiredDataFiles(h.list)
       THEN [writeExtractedFile(e, h) EXCEPT !.list = TRUE]
       ELSE [e EXCEPT !.ok = FALSE]
  ELSE IF h.path = <<"current.txt">>
  THEN IF ~e.current /\ ParseCurrent(h.data)
       THEN [writeExtractedFile(e, h) EXCEPT !.current = TRUE]
       ELSE [e EXCEPT !.ok = FALSE]
  ELSE IF StateFile(h.path)
  THEN [writeExtractedFile(e, h) EXCEPT !.seen = @ \cup ShownBy(h.path)]
  ELSE [e EXCEPT !.ok = FALSE]

\* Mutant of ExtractState: a directory without files may be missing.
ExtractStateNoDirs(e) == e.ok /\ validateStateConfigs(e.seen) /\ e.list

ExtractState(e) ==
  /\ e.ok /\ stateRequiredDirs \subseteq e.seen /\ validateStateConfigs(e.seen)
  /\ e.list /\ e.current

\* ReadStateCurrent, for the retention: the first current.txt is enough.
ReadStateCurrent(files) ==
  {f.data : f \in {f \in files : f.path = <<"current.txt">>}}

(***************************************************************************)
(* The client: a localization and a ZIP (overlay.go, locale mapEntry,       *)
(* zip.go).  ext.taken holds the sources that were let through.             *)
(***************************************************************************)
\* mapEntry: what is below "Data Files", in any case, without that directory.
Included(path) == Lower(path[1]) = "data files"

\* ExtractOverlay, one entry: skipped, refused or written under its new name.
ExtractOverlayEntry(e, h) ==
  LET target == Tail(h.path) IN
  IF ~Included(h.path) \/ (h.typ = "file" /\ Len(h.path) = 1)
     \/ (h.typ = "dir" /\ target = <<>>)
  THEN e
  ELSE IF Key(target) \in e.keys THEN [e EXCEPT !.ok = FALSE]
  ELSE IF h.typ = "dir" THEN [e EXCEPT !.keys = @ \cup {Key(target)}]
  ELSE [e EXCEPT !.keys = @ \cup {Key(target)},
                 !.files = @ \cup {[path |-> target, from |-> h.path]},
                 !.taken = @ \cup {h.path}]

\* ExtractZip, one entry.  seen and files keep the exact names; O_EXCL on the
\* file system decides when it folds case.
ZipConflict(e, h) ==
  \/ ~h.safe \/ h.typ = "link"
  \/ h.path \in e.seen
  \/ \E f \in e.files : f.path \in Parents(h.path)
  \/ h.typ = "file" /\ h.path \in UNION {Parents(p) : p \in e.seen}
  \/ h.typ = "file" /\ e.size + h.size > MaxBlocks
  \/ Cardinality(e.seen) >= MaxEntries

ExtractZipEntry(e, h, folds) ==
  LET exists == \E f \in e.files :
                  IF folds THEN Key(f.path) = Key(h.path) ELSE f.path = h.path
  IN  IF ZipConflict(e, h) \/ exists THEN [e EXCEPT !.ok = FALSE]
      ELSE IF h.typ = "dir" THEN [e EXCEPT !.seen = @ \cup {h.path}]
      ELSE [e EXCEPT !.seen = @ \cup {h.path}, !.size = @ + h.size,
                     !.files = @ \cup {[path |-> h.path, from |-> h.path]},
                     !.taken = @ \cup {h.path}]

(***************************************************************************)
(* One archive, entry by entry.                                            *)
(***************************************************************************)
BadList == <<[name |-> "no JSON", crcs |-> {}]>>
Lists == {BadList, <<>>,
          <<[name |-> "A.esp", crcs |-> {1}]>>,
          <<[name |-> "Morrowind.esm", crcs |-> {}], [name |-> "A.esp", crcs |-> {}]>>,
          <<[name |-> "A.esp", crcs |-> {}], [name |-> "Morrowind.esm", crcs |-> {}]>>,
          <<[name |-> "A.esp", crcs |-> {}], [name |-> "a.esp", crcs |-> {}]>>,
          <<[name |-> "A.esp", crcs |-> {1, 2}], [name |-> "B.esp", crcs |-> {1}]>>}

ModsHeaders ==
  {Dir(<<"plugins">>), Dir(<<"scripts">>), Dir(<<"plugins", "sub">>),
   File(<<"plugins", "sub", "A.esp">>, 1), File(<<"readme">>, 1),
   File(<<"plugins">>, 1), File(<<RDF>>, 1)}
  \cup {File(<<"plugins", p>>, c) : p \in Plugins \cup {"notes.txt"}, c \in 1..2}
  \cup {File(<<"scripts", s>>, 1) : s \in Scripts \cup {"s.txt"}}
  \cup {ListFile(<<"plugins", RDF>>, l) : l \in Lists}

StateHeaders ==
  {Dir(d) : d \in StateDirs} \cup {Dir(<<"players", "sub">>)}
  \cup {File(p, 1) : p \in LivePaths} \cup {File(<<"configs", "banlist.json">>, 1)}
  \cup {ListFile(<<RDF>>, l) : l \in {BadList, <<>>}}
  \cup {File(<<"current.txt">>, c) : c \in 1..2}

ClientHeaders ==
  {File(<<d, n>>, 1) : d \in {"Data Files", "data files", "docs"},
                       n \in {"bob", "Bob"}}
  \cup {Dir(<<"Data Files">>), Dir(<<"Data Files", "bob">>),
        File(<<"Data Files", "bob", "x">>, 1), File(<<"Data Files">>, 1)}

Headers == CASE kind = "mods" -> ModsHeaders [] kind = "state" -> StateHeaders
             [] OTHER -> ClientHeaders

\* The two passes over one header.
Take(h) ==
  /\ rd' = IF kind = "zip" THEN rd ELSE Next1(rd, h)
  /\ val' = CASE kind = "mods" -> ValidateModsEntry(val, h)
              [] kind \in {"state", "backup"} -> ValidateStateEntry(val, h)
              [] OTHER -> val
  /\ CASE kind = "mods" -> ext' = ExtractModsEntry(ext, h)
       [] kind \in {"state", "backup"} -> ext' = ExtractStateEntry(ext, h)
       [] kind = "overlay" -> ext' = ExtractOverlayEntry(ext, h)
       [] OTHER -> \E folds \in BOOLEAN : ext' = ExtractZipEntry(ext, h, folds)

Open ==
  /\ phase = "idle"
  /\ kind' \in {"mods", "state", "overlay", "zip"}
  /\ phase' = "reading"
  /\ UNCHANGED <<rd, val, ext, live, todo, stats>>

\* An entry the reader refuses ends both passes; one that only one of them
\* refuses does not end the other.
Entry ==
  /\ phase = "reading" /\ kind # "backup"
  /\ \E h \in Headers, bad \in {"none", "unsafe", "link"} :
       LET g == CASE bad = "none" -> h
                  [] bad = "unsafe" -> [h EXCEPT !.safe = FALSE]
                  [] OTHER -> [h EXCEPT !.typ = "link"] IN
       /\ bad # "none" => kind # "zip"
       /\ Take(g)
  /\ phase' = IF \/ rd'.err
                 \/ ~val'.ok /\ ~ext'.ok
                 \/ kind \in {"overlay", "zip"} /\ ~ext'.ok
              THEN "refused" ELSE phase
  /\ UNCHANGED <<kind, live, todo, stats>>

EndOfStream ==
  /\ phase = "reading" /\ kind # "backup"
  /\ \E tail \in {"end", "padded", "garbage", "cut"} :
       phase' = IF kind = "zip" \/ finish(rd, tail) THEN "whole" ELSE "refused"
  /\ UNCHANGED <<kind, rd, val, ext, live, todo, stats>>

Close ==
  /\ phase \in {"whole", "refused"} /\ phase' = "idle" /\ kind' = "mods"
  /\ rd' = NewReader /\ val' = NoVal /\ ext' = NoExt
  /\ todo' = <<>> /\ stats' = NoStats /\ live' = NoFiles

(***************************************************************************)
(* backups create (write_state.go): the names are collected first, each     *)
(* file is opened and copied later, and the game saves meanwhile.           *)
(***************************************************************************)
\* readStateFiles: sorted by name.
FilesIn(files, dir) ==
  LET Found(p) == IF files[p] # 0 /\ Front(p) = dir THEN <<p>> ELSE <<>>
  IN  Found(BobUpper) \o Found(Bob) \o Found(Cell)

\* Mutant of collectStateDirectories: an empty directory is left out.
collectNonEmpty(files) ==
  LET Dirs(d) == IF FilesIn(files, d) = <<>> THEN <<>> ELSE <<d>> \o FilesIn(files, d)
      worlds[i \in 0..Len(WorldDirs)] ==
        IF i = 0 THEN <<>> ELSE worlds[i - 1] \o Dirs(<<"world", WorldDirs[i]>>)
  IN  Dirs(<<"players">>) \o <<<<"world">>>> \o worlds[Len(WorldDirs)]

\* players/ with its files, world/, then each world directory with its files.
collectStateDirectories(files) ==
  LET worlds[i \in 0..Len(WorldDirs)] ==
        IF i = 0 THEN <<>>
        ELSE worlds[i - 1] \o <<<<"world", WorldDirs[i]>>>>
               \o FilesIn(files, <<"world", WorldDirs[i]>>)
  IN  <<<<"players">>>> \o FilesIn(files, <<"players">>) \o <<<<"world">>>>
        \o worlds[Len(WorldDirs)]

\* collectStateConfigs: the config is there, or nothing is written.
collectStateConfigs == <<<<"configs">>, Config>>

WriteState ==
  /\ phase = "idle"
  /\ live' \in {f \in [LivePaths -> 0..1] : f[Config] = 1}
  /\ kind' = "backup" /\ phase' = "reading"
  /\ todo' = <<<<"current.txt">>>> \o collectStateConfigs \o <<<<RDF>>>>
               \o collectStateDirectories(live')
  /\ UNCHANGED <<rd, val, ext, stats>>

\* The writer's counting: a header and its content, and no extended header.
addStateEntry(h) ==
  [stats EXCEPT !.entries = @ + 1, !.blocks = @ + 1 + h.size,
                !.copied = IF h.path \in LivePaths
                           THEN @ \cup {[path |-> h.path, data |-> h.data]}
                           ELSE @]

HeaderOf(path) ==
  CASE path = <<"current.txt">> -> File(path, 1)
    [] path = <<RDF>> -> ListFile(path, <<>>)
    [] path \in LivePaths -> [File(path, live[path]) EXCEPT !.long = IsLong(path)]
    [] OTHER -> Dir(path)

\* writeStateDir, writeStateBytes, writeStateFile: a file that is gone, or
\* shorter than its size, and a limit fail the whole archive.
WriteEntry ==
  /\ phase = "reading" /\ kind = "backup" /\ todo # <<>>
  /\ LET h == HeaderOf(Head(todo))
         counted == addStateEntry(h)
         fails == \/ h.path \in LivePaths /\ live[h.path] = 0
                  \/ counted.entries > MaxEntries
                  \/ counted.blocks > MaxBlocks
     IN  IF fails
         THEN phase' = "refused" /\ UNCHANGED <<rd, val, ext, stats>>
         ELSE Take(h) /\ stats' = counted /\ UNCHANGED phase
  /\ todo' = Tail(todo)
  /\ UNCHANGED <<kind, live>>

\* The two end blocks; the file gets its name only now.
WriteEnd ==
  /\ phase = "reading" /\ kind = "backup" /\ todo = <<>>
  /\ phase' = IF stats.blocks + 2 > MaxBlocks THEN "refused" ELSE "whole"
  /\ UNCHANGED <<kind, rd, val, ext, live, todo, stats>>

\* The game server saves, creates and deletes its files at any time.
GameSaves ==
  /\ kind = "backup" /\ phase = "reading"
  /\ \E p \in LivePaths \ {Config}, d \in 0..2 :
       d # live[p] /\ live' = [live EXCEPT ![p] = d]
  /\ UNCHANGED <<kind, phase, rd, val, ext, todo, stats>>

Next ==
  \/ Open \/ Entry \/ EndOfStream \/ Close
  \/ WriteState \/ WriteEntry \/ WriteEnd \/ GameSaves

Spec == Init /\ [][Next]_vars

(***************************************************************************)
(* Properties.                                                             *)
(***************************************************************************)
(* What one pass accepted the other accepts: a pack or a snapshot that was   *)
(* validated unpacks without an error, the tree that a mods deploy then      *)
(* checks passes with the same plugins, the snapshot names the pack the      *)
(* retention reads from it, and a snapshot that validation refuses does not  *)
(* unpack (ValidateMods, ExtractMods, ValidateModsDir, ValidateState,        *)
(* ExtractState, ReadStateCurrent).                                          *)
PassesAgree ==
  phase = "whole" =>
    /\ (kind = "mods" /\ ValidateMods(val)) =>
         /\ ext.ok /\ ValidateModsDir(ext.files)
         /\ PluginsIn(ext.files) = val.plugins
    /\ kind = "state" =>
         /\ ValidateState(val) <=> ExtractState(ext)
         /\ ValidateState(val) => ReadStateCurrent(ext.files) = {val.current}

CaseTwins ==
  \E e, f \in stats.copied : e # f /\ Key(e.path) = Key(f.path)

HiddenBlocks == 2 * Cardinality({e \in stats.copied : IsLong(e.path)})

(* A snapshot that backups create finished, while the game went on saving,   *)
(* can be deployed: the reader, the validation and the extraction take it,   *)
(* and the files that come out are the ones that were copied.  It does not   *)
(* hold for two files whose names differ only in case, nor when the extended *)
(* headers, which the writer does not count, pass the limit (WriteState,     *)
(* addStateEntry, Reader.Next).                                              *)
BackupRestores ==
  (phase = "whole" /\ kind = "backup"
     /\ ~CaseTwins /\ stats.blocks + 2 + HiddenBlocks <= MaxBlocks) =>
    /\ ~rd.err /\ finish(rd, "end") /\ ValidateState(val) /\ ExtractState(ext)
    /\ \A c \in stats.copied :
         \E f \in ext.files : f.path = c.path /\ f.data = c.data

(* An archive that was unpacked on the client without an error put each of   *)
(* its files in a place of its own: no file replaced another, a localization *)
(* in a file system that folds case neither (ExtractOverlay, mapEntry,       *)
(* ExtractZip).                                                              *)
UnpackedApart ==
  (phase = "whole" /\ kind \in {"overlay", "zip"}) =>
    /\ \A p \in ext.taken : \E f \in ext.files : f.from = p
    /\ \A f, g \in ext.files :
         f.path = g.path \/ (kind = "overlay" /\ Key(f.path) = Key(g.path)) => f = g

(* The comment of WriteState: "It validates the nested layout", and of       *)
(* StateStats: "Uncompressed follows the tar stream size".  Both would make  *)
(* every finished snapshot readable; the code finishes some that are not     *)
(* (write_state.go).                                                         *)
EveryBackupReadable ==
  (phase = "whole" /\ kind = "backup") => ~rd.err /\ finish(rd, "end")
=============================================================================
