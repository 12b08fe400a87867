---------------------------- MODULE MCPanelPages ----------------------------
(* The handlers and the listener of the panel that act on what others      *)
(* change meanwhile: the pages that change a setting (PanelSettings), the  *)
(* certificate (PanelTLS), the public downloads (PanelDownloads) and the   *)
(* upload of a package (Upload).  They share no state, so a behaviour      *)
(* exercises one of them; the variables of the others are Off.             *)
EXTENDS Naturals, TLC

CONSTANTS Requests, Names, Nobody, MaxLag,
          Addresses, Lifetimes, MinimumWindow, MaximumWindow, LastTick,
          MaxIssued, MaxMishaps,
          Visitors, Nothing, MaxName, Attempts,
          MaxUploadFaults

(* Two packages of one length.                                             *)
MCPacks == {[size |-> 1, sha |-> 1], [size |-> 1, sha |-> 2]}

ASSUME PagesAssumption ==
  /\ Nobody \notin Requests /\ MaxLag \in Nat \ {0, 1}  \* the cached minute
  /\ Lifetimes \subseteq Nat \ {0, 1}   \* a day's certificate has no window
  /\ MinimumWindow \in Nat \ {0} /\ MaximumWindow \in Nat
  /\ LastTick \in Nat \ {0} /\ MaxIssued \in Nat \ {0} /\ MaxMishaps \in Nat
  /\ MaxName \in Nat /\ Attempts \in Nat \ {0} /\ Nothing \notin MCPacks
  /\ MaxUploadFaults \in Nat

VARIABLES
  component,
  page, lists, rank, load, unit, host, brokenFor, doctor, doctorMu, pc, kind,
  posted, name, snap, todo, answer, did, dirty, shown, had,
  mode, address, now, issued, keyFile, certFile, phase, served, task, pending,
  due, retrying, torn, mishaps,
  mods, states, holds, current, asked, stage, cur, want, sent, reused, meta,
  tries,
  parts, good, apart, panel, csrf, said, gone, import, reply, file, copy,
  stored, failures

settingsVars == <<page, lists, rank, load, unit, host, brokenFor, doctor,
                  doctorMu, pc, kind, posted, name, snap, todo, answer, did,
                  dirty, shown, had>>
tlsVars == <<mode, address, now, issued, keyFile, certFile, phase, served, task,
             pending, due, retrying, torn, mishaps>>
downloadVars == <<mods, states, holds, current, asked, stage, cur, want, sent,
                  reused, meta, tries>>
uploadVars == <<parts, good, apart, panel, csrf, said, gone, import, reply, file,
                copy, stored, failures>>
pagesVars == <<component, settingsVars, tlsVars, downloadVars, uploadVars>>

S == INSTANCE PanelSettings
T == INSTANCE PanelTLS WITH current <- served
D == INSTANCE PanelDownloads WITH Packs <- MCPacks, kind <- asked, pc <- stage
U == INSTANCE Upload WITH answer <- said

(* Requests differ in what they ask for only.                              *)
Alike == Permutations(Requests)

Off == "off"

SettingsOff ==
  /\ page = Off /\ lists = Off /\ rank = Off /\ load = Off /\ unit = Off
  /\ host = Off /\ brokenFor = Off /\ doctor = Off /\ doctorMu = Off
  /\ pc = Off /\ kind = Off /\ posted = Off /\ name = Off /\ snap = Off
  /\ todo = Off /\ answer = Off /\ did = Off /\ dirty = Off /\ shown = Off
  /\ had = Off

TLSOff ==
  /\ mode = Off /\ address = Off /\ now = Off /\ issued = Off /\ keyFile = Off
  /\ certFile = Off /\ phase = Off /\ served = Off /\ task = Off
  /\ pending = Off /\ due = Off /\ retrying = Off /\ torn = Off
  /\ mishaps = Off

DownloadsOff ==
  /\ mods = Off /\ states = Off /\ holds = Off /\ current = Off /\ asked = Off
  /\ stage = Off /\ cur = Off /\ want = Off /\ sent = Off /\ reused = Off
  /\ meta = Off /\ tries = Off

UploadOff ==
  /\ parts = Off /\ good = Off /\ apart = Off /\ panel = Off /\ csrf = Off
  /\ said = Off /\ gone = Off /\ import = Off /\ reply = Off /\ file = Off
  /\ copy = Off /\ stored = Off /\ failures = Off

PagesInit ==
  \/ component = "settings" /\ S!Init /\ TLSOff /\ DownloadsOff /\ UploadOff
  \/ component = "tls" /\ T!Init /\ SettingsOff /\ DownloadsOff /\ UploadOff
  \/ component = "downloads" /\ D!Init /\ SettingsOff /\ TLSOff /\ UploadOff
  \/ component = "upload" /\ U!Init /\ SettingsOff /\ TLSOff /\ DownloadsOff

PagesNext ==
  /\ UNCHANGED component
  /\ \/ component = "settings" /\ S!Next
          /\ UNCHANGED <<tlsVars, downloadVars, uploadVars>>
     \/ component = "tls" /\ T!Next
          /\ UNCHANGED <<settingsVars, downloadVars, uploadVars>>
     \/ component = "downloads" /\ D!Next
          /\ UNCHANGED <<settingsVars, tlsVars, uploadVars>>
     \/ component = "upload" /\ U!Next
          /\ UNCHANGED <<settingsVars, tlsVars, downloadVars>>

PagesSpec == PagesInit /\ [][PagesNext]_pagesVars

-----------------------------------------------------------------------------
(* PanelSettings: the cache of currentDoctor hides no verdict for longer   *)
(* than a minute and one run of doctor.                                    *)
GateNoticesWithinAMinute ==
  [][component = "settings" => S!Notices]_pagesVars

(* PanelSettings: a form leaves a prefix of itself (handleConfigForm,      *)
(* saveBanlist).                                                           *)
FormIsAPrefix == component = "settings" => S!FormIsAPrefix

(* PanelSettings: the notice and the status of a page say what became of   *)
(* the change (adminFailure, handleConfigForm), and the dashboard shows a  *)
(* state the unit was in (status.go).                                      *)
PageTellsTruth ==
  component = "settings" => S!TypeOK /\ S!AnswerTellsEffect /\ S!DashboardSawIt

(* PanelTLS: an expired certificate is served only while renewal fails,    *)
(* and a start finds two halves that match, unless the process was cut     *)
(* between them (tls.go).                                                  *)
CertificateHolds ==
  component = "tls" => T!TypeOK /\ T!ServesValid /\ T!NeverMismatched

(* PanelDownloads: a visitor gets the archive its answer names, and the    *)
(* package the client keeps is the announced one (public.go, serverapi).   *)
DownloadsMatch ==
  component = "downloads" =>
    D!TypeOK /\ D!ServedAsNamed /\ D!KeptIsAnnounced

(* Upload: what the operator is told is what became of the upload          *)
(* (handleModsUpload, publishUpload).                                      *)
UploadIsSettled == component = "upload" => U!TypeOK /\ U!UploadIsSettled
=============================================================================
