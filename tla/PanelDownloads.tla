--------------------------- MODULE PanelDownloads ---------------------------
(* The public downloads of the panel (src/internal/panel/public.go): the     *)
(* active mod pack, and a snapshot bundled with its pack; and the client's   *)
(* side of the first (src/internal/serverapi, mods/files.go).                *)
(*                                                                           *)
(* The handlers hold no lock.  Between two of their reads the ops commands    *)
(* deploy, import, back up and prune, and a name freed by a prune is given    *)
(* to the next archive of the same second (archive/names.go).                *)
EXTENDS Integers, FiniteSets, FiniteSetsExt

CONSTANTS Visitors, Packs, Nothing, MaxName, Attempts

VARIABLES mods,     \* backups/mods: collision number -> pack
          states,   \* backups/state: number -> the mods number it names
          holds,    \* the pack each snapshot was created with
          current,  \* current.txt: a number and the sha256 of its pack
          kind, pc, \* of the visitor's request
          cur,      \* what its readCurrentMods read from current.txt
          want,     \* its snapshot, and the mods number that one names
          sent,     \* the pack and the snapshot's pack it opened
          reused,   \* a name it relies on was given to another archive
          meta,     \* the client: what GET mods/current announced
          tries

store == <<mods, states, holds, current>>
vars == <<mods, states, holds, current, kind, pc, cur, want, sent, reused,
          meta, tries>>

Numbers == 0..MaxName
None == -1
NoCurrent == [name |-> None, sha |-> 0]

\* NextArchiveNameInDir: the first number that is free now.
NextArchiveName(taken) ==
  IF Numbers \subseteq taken THEN {} ELSE {Min(Numbers \ taken)}

TakenMods == {n \in Numbers : mods[n] # Nothing}
TakenStates == {n \in Numbers : states[n] # None}

NoRequest == [cur |-> NoCurrent, want |-> [state |-> None, mods |-> None],
              sent |-> [mods |-> Nothing, of |-> Nothing],
              meta |-> [sha |-> 0, size |-> 0]]

Init ==
  /\ \E p \in Packs :
       /\ mods = [n \in Numbers |-> IF n = 0 THEN p ELSE Nothing]
       /\ current = [name |-> 0, sha |-> p.sha]
  /\ states = [n \in Numbers |-> None]
  /\ holds = [n \in Numbers |-> Nothing]
  /\ kind = [v \in Visitors |-> "archive"]
  /\ pc = [v \in Visitors |-> "idle"]
  /\ cur = [v \in Visitors |-> NoRequest.cur]
  /\ want = [v \in Visitors |-> NoRequest.want]
  /\ sent = [v \in Visitors |-> NoRequest.sent]
  /\ reused = [v \in Visitors |-> FALSE]
  /\ meta = [v \in Visitors |-> NoRequest.meta]
  /\ tries = [v \in Visitors |-> 0]

(***************************************************************************)
(* Requests.                                                               *)
(***************************************************************************)
Goes(v, to) == pc' = [pc EXCEPT ![v] = to]

\* The request is over, with or without what it asked for.
Ends(v) ==
  /\ Goes(v, "idle")
  /\ kind' = [kind EXCEPT ![v] = "archive"]
  /\ cur' = [cur EXCEPT ![v] = NoRequest.cur]
  /\ want' = [want EXCEPT ![v] = NoRequest.want]
  /\ sent' = [sent EXCEPT ![v] = NoRequest.sent]
  /\ reused' = [reused EXCEPT ![v] = FALSE]
  /\ meta' = [meta EXCEPT ![v] = NoRequest.meta]
  /\ tries' = [tries EXCEPT ![v] = 0]

\* readCurrentMods, first read: current.txt.
ReadCurrent(v, from, to) ==
  /\ pc[v] = from /\ kind[v] = "archive"
  /\ cur' = [cur EXCEPT ![v] = current]
  /\ reused' = [reused EXCEPT ![v] = FALSE]
  /\ Goes(v, to)
  /\ UNCHANGED <<store, kind, want, sent, meta, tries>>

\* GET /api/v1/mods/current: the size of the file current.txt named, or 404.
Announce(v) ==
  /\ pc[v] = "size"
  /\ IF mods[cur[v].name] = Nothing THEN Ends(v)
     ELSE /\ meta' = [meta EXCEPT ![v] =
                        [sha |-> cur[v].sha, size |-> mods[cur[v].name].size]]
          /\ Goes(v, "get")
          /\ UNCHANGED <<kind, cur, want, sent, reused, tries>>
  /\ UNCHANGED store

\* GET of the archive: Lstat and open by name, then the handle stays.
OpenArchive(v) ==
  /\ pc[v] = "open"
  /\ IF mods[cur[v].name] = Nothing THEN Ends(v)
     ELSE /\ sent' = [sent EXCEPT ![v].mods = mods[cur[v].name]]
          /\ Goes(v, "send")
          /\ UNCHANGED <<kind, cur, want, reused, meta, tries>>
  /\ UNCHANGED store

\* retryable: a 408, 429 or 5xx answer, or a network error, is tried again.
Retry(v) ==
  /\ pc[v] \in {"open", "send"}
  /\ IF tries[v] + 1 >= Attempts THEN Ends(v)
     ELSE /\ tries' = [tries EXCEPT ![v] = @ + 1]
          /\ sent' = [sent EXCEPT ![v] = NoRequest.sent]
          /\ Goes(v, "get")
          /\ UNCHANGED <<kind, cur, want, reused, meta>>
  /\ UNCHANGED store

\* downloadModsOnce: exactly the announced length, or an error for good.
Receive(v) ==
  /\ pc[v] = "send"
  /\ IF sent[v].mods.size # meta[v].size THEN Ends(v)
     ELSE Goes(v, "verify")
          /\ UNCHANGED <<kind, cur, want, sent, reused, meta, tries>>
  /\ UNCHANGED store

\* verifyArchiveFile: the caller checks the digest and drops the file.
Verify(v) ==
  /\ pc[v] = "verify"
  /\ IF sent[v].mods.sha # meta[v].sha THEN Ends(v)
     ELSE Goes(v, "done")
          /\ UNCHANGED <<kind, cur, want, sent, reused, meta, tries>>
  /\ UNCHANGED store

\* handleStateBundle up to the two opens: the layout of the snapshot names a
\* pack, and both files are there.
ValidateState(v) ==
  /\ pc[v] = "idle"
  /\ \E s \in TakenStates :
       /\ mods[states[s]] # Nothing
       /\ want' = [want EXCEPT ![v] = [state |-> s, mods |-> states[s]]]
  /\ kind' = [kind EXCEPT ![v] = "bundle"]
  /\ Goes(v, "state")
  /\ UNCHANGED <<store, cur, sent, reused, meta, tries>>

OpenState(v) ==
  /\ pc[v] = "state"
  /\ IF states[want[v].state] = None THEN Ends(v)
     ELSE /\ sent' = [sent EXCEPT ![v].of = holds[want[v].state]]
          /\ Goes(v, "mods")
          /\ UNCHANGED <<kind, cur, want, reused, meta, tries>>
  /\ UNCHANGED store

\* Mutant of OpenMods: the active pack, whatever the snapshot names.
OpenModsCurrent(v) ==
  /\ pc[v] = "mods"
  /\ sent' = [sent EXCEPT ![v].mods = mods[current.name]]
  /\ Goes(v, "done")
  /\ UNCHANGED <<store, kind, cur, want, reused, meta, tries>>

\* The second open; both files then go into one zip, a failed copy cuts it.
OpenMods(v) ==
  /\ pc[v] = "mods"
  /\ IF mods[want[v].mods] = Nothing THEN Ends(v)
     ELSE /\ sent' = [sent EXCEPT ![v].mods = mods[want[v].mods]]
          /\ Goes(v, "done")
          /\ UNCHANGED <<kind, cur, want, reused, meta, tries>>
  /\ UNCHANGED store

Done(v) == pc[v] = "done" /\ Ends(v) /\ UNCHANGED store

(***************************************************************************)
(* The ops commands, each under the ops lock (BackupStore).                *)
(***************************************************************************)
request == <<kind, pc, cur, want, sent, meta, tries>>

\* Who relies on a name that a new archive now takes.
Reuses(isMods, n) ==
  reused' = [v \in Visitors |->
    \/ reused[v]
    \/ isMods /\ pc[v] \in {"size", "open"} /\ cur[v].name = n
    \/ isMods /\ kind[v] = "bundle" /\ want[v].mods = n
    \/ ~isMods /\ kind[v] = "bundle" /\ want[v].state = n]

Import ==
  /\ \E n \in NextArchiveName(TakenMods), p \in Packs :
       mods' = [mods EXCEPT ![n] = p] /\ Reuses(TRUE, n)
  /\ UNCHANGED <<states, holds, current, request>>

Deploy ==
  /\ \E n \in TakenMods \ {current.name} :
       current' = [name |-> n, sha |-> mods[n].sha]
  /\ UNCHANGED <<mods, states, holds, reused, request>>

Backup ==
  /\ \E n \in NextArchiveName(TakenStates) :
       /\ states' = [states EXCEPT ![n] = current.name]
       /\ holds' = [holds EXCEPT ![n] = mods[current.name]]
       /\ Reuses(FALSE, n)
  /\ UNCHANGED <<mods, current, request>>

PruneState ==
  /\ \E s \in TakenStates :
       /\ states' = [states EXCEPT ![s] = None]
       /\ holds' = [holds EXCEPT ![s] = Nothing]
  /\ UNCHANGED <<mods, current, reused, request>>

\* Retention never removes the active pack or one a snapshot names.
referenced == {current.name} \cup {states[s] : s \in TakenStates}

PruneMods ==
  /\ \E n \in TakenMods \ referenced : mods' = [mods EXCEPT ![n] = Nothing]
  /\ UNCHANGED <<states, holds, current, reused, request>>

Next ==
  \/ \E v \in Visitors :
       \/ ReadCurrent(v, "idle", "size") \/ Announce(v)
       \/ ReadCurrent(v, "get", "open") \/ OpenArchive(v) \/ Retry(v)
       \/ Receive(v) \/ Verify(v)
       \/ ValidateState(v) \/ OpenState(v) \/ OpenMods(v) \/ Done(v)
  \/ Import \/ Deploy \/ Backup \/ PruneState \/ PruneMods

Spec == Init /\ [][Next]_vars

(***************************************************************************)
(* Properties.                                                             *)
(***************************************************************************)
TypeOK ==
  /\ mods \in [Numbers -> Packs \cup {Nothing}]
  /\ states \in [Numbers -> Numbers \cup {None}]
  /\ holds \in [Numbers -> Packs \cup {Nothing}]
  /\ current.name \in Numbers
  /\ kind \in [Visitors -> {"archive", "bundle"}]
  /\ pc \in [Visitors -> {"idle", "size", "get", "open", "send", "verify",
                          "state", "mods", "done"}]
  /\ tries \in [Visitors -> 0..Attempts]

(* The ETag of a served pack is the digest of its bytes, and a bundle that  *)
(* was served whole holds the pack its snapshot was created with, whatever  *)
(* is deployed, imported and pruned between the reads of the handler; only  *)
(* a name given to another archive within the request breaks it             *)
(* (handleModsArchive, handleStateBundle, NextArchiveNameInDir).            *)
ServedAsNamed ==
  \A v \in Visitors : ~reused[v] =>
    /\ pc[v] = "send" => sent[v].mods.sha = cur[v].sha
    /\ (pc[v] = "done" /\ kind[v] = "bundle") => sent[v].mods = sent[v].of

(* A pack the client keeps is the one GET mods/current announced, although  *)
(* the archive's URL always serves the pack active then (DownloadMods,      *)
(* verifyArchiveFile).                                                      *)
KeptIsAnnounced ==
  \A v \in Visitors : (pc[v] = "done" /\ kind[v] = "archive") =>
    sent[v].mods.sha = meta[v].sha
=============================================================================
