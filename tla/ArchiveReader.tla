---------------------------- MODULE ArchiveReader ----------------------------
(* The streaming reader under every archive command                          *)
(* (src/internal/archive/archive.go, src/internal/pathguard) and the two      *)
(* metadata files inside an archive (mods.go, current.go).                    *)
(*                                                                           *)
(* A name is the sequence of its components; sizes are in tar blocks.  A      *)
(* header is [path, typ, safe, size, long, data, list]: "safe" says that      *)
(* pathguard.Path takes the raw name, "long" that tar needs an extended       *)
(* header for it (over 100 bytes, or not ASCII), data stands for the content  *)
(* (the CRC of a plugin), and list for that of a requiredDataFiles.json.      *)
EXTENDS Integers, FiniteSets, Sequences, SequencesExt

CONSTANTS MaxEntries, MaxBlocks

RDF == "requiredDataFiles.json"

File(path, data) == [path |-> path, typ |-> "file", safe |-> TRUE,
                     size |-> 1, long |-> FALSE, data |-> data, list |-> <<>>]
ListFile(path, list) == [File(path, 0) EXCEPT !.list = list]
Dir(path) == [File(path, 0) EXCEPT !.typ = "dir", !.size = 0]

\* Two names that differ only in case have the same key.
Lower(c) == CASE c = "Bob" -> "bob" [] c = "A.esp" -> "a.esp"
              [] c = "Data Files" -> "data files" [] OTHER -> c
Key(path) == [i \in DOMAIN path |-> Lower(path[i])]
Parents(path) == {SubSeq(path, 1, k) : k \in 1..(Len(path) - 1)}

\* What tar puts in the stream for one header, its content padded.
Blocks(h) == 1 + h.size + IF h.long THEN 2 ELSE 0

NewReader == [seen |-> {}, read |-> 0, err |-> FALSE]

implied(rd) == UNION {{Key(p) : p \in Parents(e.path)} : e \in rd.seen}

\* Reader.Next: the limits, pathguard, the type, the names seen before.
Accepts(rd, h) ==
  /\ rd.read + Blocks(h) <= MaxBlocks
  /\ Cardinality(rd.seen) < MaxEntries
  /\ h.safe
  /\ h.typ \in {"file", "dir"}
  /\ \A e \in rd.seen :
       /\ Key(e.path) # Key(h.path)
       /\ e.typ = "file" => Key(e.path) \notin {Key(p) : p \in Parents(h.path)}
  /\ h.typ = "file" => Key(h.path) \notin implied(rd)

Next1(rd, h) ==
  IF Accepts(rd, h)
  THEN [rd EXCEPT !.seen = @ \cup {[path |-> h.path, typ |-> h.typ]},
                  !.read = @ + Blocks(h)]
  ELSE [rd EXCEPT !.err = TRUE]

\* Reader.finish: two end blocks and zero padding, then nothing at all.
finish(rd, tail) ==
  /\ tail \in {"end", "padded"}
  /\ rd.read + (IF tail = "padded" THEN 3 ELSE 2) <= MaxBlocks

(***************************************************************************)
(* requiredDataFiles.json: a sequence of [name, crcs]; what is not the JSON  *)
(* of the format counts as a name that is no plugin.  current.txt: 1 when   *)
(* it names a pack in the only format there is.                             *)
(***************************************************************************)
baseESMs == {"Morrowind.esm"}
Plugins == {"A.esp", "a.esp", "B.esp"} \cup baseESMs
Scripts == {"s.lua", "t.lua"}

validatePluginExtension(name) == name \in Plugins
validateScriptFilename(name) == name \in Scripts
isBaseESM(name) == name \in baseESMs

ParseRequiredDataFiles(list) ==
  \A i \in DOMAIN list :
    /\ validatePluginExtension(list[i].name)
    /\ \A j \in 1..(i - 1) :
         /\ Lower(list[i].name) # Lower(list[j].name)
         /\ isBaseESM(list[i].name) => isBaseESM(list[j].name)

ParseCurrent(data) == data = 1

\* Every listed mod is there with one of its CRCs, and every plugin is listed.
validateModsRequirements(list, plugins) ==
  /\ \A r \in {r \in ToSet(list) : ~isBaseESM(r.name)} :
       \E p \in plugins : p.name = r.name /\ (r.crcs = {} \/ p.crc \in r.crcs)
  /\ \A p \in plugins : \E r \in ToSet(list) : r.name = p.name
=============================================================================
