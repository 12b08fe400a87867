------------------------------- MODULE Upload -------------------------------
(***************************************************************************)
(* One upload of a mods package: the panel streams the file part of the    *)
(* form to panel-data/uploads, "mods import" checks it and publishes it    *)
(* in backups/mods, the panel answers and removes what is left of it.      *)
(* state import publishes in the same way (publishUpload).                 *)
(*                                                                         *)
(* Where the two directories are different mounts a rename is refused      *)
(* (EXDEV) although the device is the same, and the file is copied.        *)
(***************************************************************************)
EXTENDS Naturals, Sequences

CONSTANT MaxUploadFaults   \* bound: file operations that fail in one run

VARIABLES
  parts,     \* the parts of the form not read yet
  good,      \* a package within the limits, on the device of the store
  apart,     \* rename across the two directories gives EXDEV
  panel,     \* where handleModsUpload stands
  csrf,      \* upload.CSRF
  answer,    \* what the operator is told
  gone,      \* the request has been cancelled, or the command timed out
  import,    \* where "mods import" stands
  reply,     \* how it ended; "killed" without an envelope
  file,      \* the upload: none, partial or whole
  copy,      \* there is a .part file beside the target
  stored,    \* the target is in backups/mods
  failures   \* file operations that failed so far

panelVars  == <<panel, csrf, answer, gone>>
importVars == <<import, reply, copy, stored>>
vars == <<parts, good, apart, panelVars, importVars, file, failures>>

Forms == {<<"file">>, <<"token">>, <<"file", "token">>, <<"token", "file">>,
          <<"token", "file", "file">>}

Running == import \notin {"off", "over"}

Fails  == failures < MaxUploadFaults /\ failures' = failures + 1
Works  == UNCHANGED failures
Fixed  == UNCHANGED <<good, apart>>

Init ==
  /\ parts \in Forms /\ good \in BOOLEAN /\ apart \in BOOLEAN
  /\ panel = "receive" /\ csrf = FALSE /\ answer = "none" /\ gone = FALSE
  /\ import = "off" /\ reply = "none" /\ copy = FALSE /\ stored = FALSE
  /\ file = "none" /\ failures = 0

-----------------------------------------------------------------------------
(* removeUpload: a failure is logged only.                                 *)
removeUpload ==
  \/ file' = "none" /\ Works
  \/ file # "none" /\ Fails /\ UNCHANGED file

Finish(said) == panel' = "done" /\ answer' = said /\ removeUpload

(* receiveAdminUpload: the token may come before or after the file; a      *)
(* second file is read and dropped.                                        *)
NextPart ==
  /\ panel = "receive" /\ parts # <<>>
  /\ parts' = Tail(parts)
  /\ csrf' = (csrf \/ Head(parts) = "token")
  /\ IF Head(parts) = "file" /\ file = "none"
     THEN panel' = "write" /\ file' = "partial"
     ELSE UNCHANGED <<panel, file>>
  /\ Works /\ Fixed /\ UNCHANGED <<answer, gone, importVars>>

(* receiveUploadWithLimit, down to the chmod that lets ops read the file.  *)
receiveUpload ==
  /\ panel = "write"
  /\ panel' = "receive" /\ file' = "whole"
  /\ Works /\ Fixed /\ UNCHANGED <<parts, csrf, answer, gone, importVars>>

(* The browser goes away, the file is too large, the disk is full.         *)
NotReceived ==
  /\ panel \in {"receive", "write"}
  /\ Finish("error")
  /\ Fixed /\ UNCHANGED <<parts, csrf, gone, importVars>>

handleModsUpload ==
  /\ panel = "receive" /\ parts = <<>>
  /\ IF csrf /\ file = "whole"
     THEN /\ panel' = "import" /\ import' = "validate"
          /\ UNCHANGED <<answer, file, failures>>
     ELSE Finish("error") /\ UNCHANGED import
  /\ Fixed /\ UNCHANGED <<parts, csrf, gone, reply, copy, stored>>

(* The command has ended and closed its output.  The panel waits for that  *)
(* also after the request was cancelled: only sudo is killed.              *)
Answer ==
  /\ panel = "import" /\ import = "over"
  /\ Finish(IF gone \/ reply = "killed" THEN "error" ELSE reply)
  /\ Fixed /\ UNCHANGED <<parts, csrf, gone, importVars>>

Cancel ==
  /\ panel = "import" /\ ~gone
  /\ gone' = TRUE
  /\ UNCHANGED <<parts, good, apart, panel, csrf, answer, importVars, file, failures>>

(* The panel dies or is stopped; what runs in its control group goes too.  *)
PanelDies ==
  /\ panel \notin {"done", "dead"}
  /\ panel' = "dead"
  /\ import' = IF Running THEN "over" ELSE import
  /\ reply' = IF Running THEN "killed" ELSE reply
  /\ UNCHANGED <<parts, good, apart, csrf, answer, gone, copy, stored, file, failures>>

-----------------------------------------------------------------------------
At(step) == import = step /\ Fixed /\ UNCHANGED <<parts, panelVars>>
Then(step) == import' = step /\ UNCHANGED reply
Exit(said) == import' = "over" /\ reply' = said

(* The lock, the checks of the path and validateModsUpload.                *)
Validate ==
  /\ At("validate")
  /\ \/ good /\ Then("rename") /\ Works
     \/ ~good /\ Exit("error") /\ Works
     \/ Fails /\ Exit("error")
  /\ UNCHANGED <<file, copy, stored>>

(* publishUpload: rename, or fall back to a copy.                          *)
Rename ==
  /\ At("rename")
  /\ \/ ~apart /\ file' = "none" /\ stored' = TRUE /\ Then("sync") /\ Works
     \/ apart /\ Then("copy") /\ Works /\ UNCHANGED <<file, stored>>
     \/ ~apart /\ Fails /\ Exit("error") /\ UNCHANGED <<file, stored>>
  /\ UNCHANGED copy

(* Mutant of SyncDir: the rename is not undone.                            *)
SyncDirKeeps ==
  /\ At("sync")
  /\ \/ Works /\ Exit("ok")
     \/ Fails /\ Exit("error")
  /\ UNCHANGED <<file, copy, stored>>

SyncDir ==
  /\ At("sync")
  /\ \/ Works /\ Exit("ok")
     \/ Fails /\ Then("undo")
  /\ UNCHANGED <<file, copy, stored>>

Undo ==
  /\ At("undo")
  /\ \/ file' = "whole" /\ stored' = FALSE /\ Works
     \/ Fails /\ UNCHANGED <<file, stored>>
  /\ Exit("error") /\ UNCHANGED copy

(* copyUpload: into the .part file; Abort when a write fails.              *)
CopyUpload ==
  /\ At("copy")
  /\ \/ copy' = TRUE /\ Then("commit") /\ Works
     \/ copy' = FALSE /\ Exit("error") /\ Fails
     \/ copy' = TRUE /\ Exit("error")        \* and the .part cannot be removed
          /\ failures + 2 <= MaxUploadFaults /\ failures' = failures + 2
  /\ UNCHANGED <<file, stored>>

Commit ==
  /\ At("commit")
  /\ \/ copy' = FALSE /\ stored' = TRUE /\ Then("syncCopy") /\ Works
     \/ copy' = FALSE /\ Then("unpublish") /\ Fails /\ UNCHANGED stored
  /\ UNCHANGED file

(* The rename of the .part is not durable yet.                             *)
SyncCopy ==
  /\ At("syncCopy")
  /\ \/ Then("removeSource") /\ Works
     \/ Then("unpublish") /\ Fails
  /\ UNCHANGED <<file, copy, stored>>

RemoveSource ==
  /\ At("removeSource")
  /\ \/ file' = "none" /\ Exit("ok") /\ Works
     \/ Then("unpublish") /\ Fails /\ UNCHANGED file
  /\ UNCHANGED <<copy, stored>>

(* removeUploadTarget, after a commit or a removal that failed.            *)
Unpublish ==
  /\ At("unpublish")
  /\ \/ stored' = FALSE /\ Works
     \/ stored /\ Fails /\ UNCHANGED stored
  /\ Exit("error") /\ UNCHANGED <<file, copy>>

(* The command alone dies (out of memory).                                 *)
ImportDies ==
  /\ Running /\ At(import)
  /\ Exit("killed") /\ Works
  /\ UNCHANGED <<file, copy, stored>>

Settled == panel \in {"done", "dead"} /\ UNCHANGED vars

Next ==
  \/ NextPart \/ receiveUpload \/ NotReceived \/ handleModsUpload
  \/ Answer \/ Cancel \/ PanelDies
  \/ Validate \/ Rename \/ SyncDir \/ Undo
  \/ CopyUpload \/ Commit \/ SyncCopy \/ RemoveSource \/ Unpublish
  \/ ImportDies \/ Settled

Spec == Init /\ [][Next]_vars

-----------------------------------------------------------------------------
TypeOK ==
  /\ file \in {"none", "partial", "whole"}
  /\ copy \in BOOLEAN /\ stored \in BOOLEAN
  /\ failures \in 0..MaxUploadFaults
  /\ panel \in {"receive", "write", "import", "done", "dead"}
  /\ answer \in {"none", "ok", "error"} /\ reply \in {"none", "ok", "error", "killed"}

(* What the operator is told about an upload is what became of it.  After  *)
(* "ok" the package is stored.  After an error it is not, nor is a part of *)
(* it, if no more than one operation failed, and neither the command died  *)
(* nor the request was cut off.  No upload stays behind unless its removal *)
(* failed, and nothing is stored of a request without a valid token        *)
(* (handleModsUpload, publishUpload, copyUpload).                          *)
UploadIsSettled ==
  /\ panel = "done" =>
       /\ ~Running
       /\ answer = "ok" => stored /\ good /\ ~copy
       /\ answer = "error" /\ ~gone /\ reply # "killed" /\ failures < 2 =>
            ~stored /\ ~copy
       /\ failures = 0 => file = "none"
  /\ Running \/ stored => csrf
=============================================================================
