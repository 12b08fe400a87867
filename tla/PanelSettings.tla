--------------------------- MODULE PanelSettings ----------------------------
(* The admin pages that change a setting: the config and banlist forms, one  *)
(* player's ban or rank, start / stop / restart, and the dashboard that      *)
(* shows the unit (src/internal/panel/admin.go), over the ops subprocess     *)
(* client (src/internal/panel/ops.go) and the commands it runs (config,      *)
(* staff, start, stop, restart, status of src/cmd/tes3mp-easy-ops).          *)
(*                                                                           *)
(* Requests are served concurrently; only a command is atomic (it holds      *)
(* tes3mp-easy.lock, module OpsLock).  What a handler read before is not     *)
(* protected.  Every change first asks the cached report of ops doctor.      *)
EXTENDS Integers, FiniteSets, FiniteSetsExt

CONSTANTS Requests, Names, Nobody, MaxLag

VARIABLES page,     \* the pages this behaviour uses
          lists,    \* banlist.json or a config file: key -> value
          rank,     \* settings.staffRank of players/<name>.json
          load,     \* LoadState of tes3mp.service
          unit,     \* its ActiveState
          host,     \* what ops doctor would report now
          brokenFor,\* how long that has been "error", in ticks
          doctor,   \* the handler's cached report
          doctorMu, \* the request that runs ops doctor under doctorMu
          pc, kind, posted, name, snap, todo,
          answer,   \* the status of the page and the notice it carries
          did,      \* the last command of the request took effect
          dirty,    \* another request's command ran since this one's snapshot
          shown,    \* the dashboard's state of the unit
          had       \* the states the unit had during this dashboard request

vars == <<page, lists, rank, load, unit, host, brokenFor, doctor, doctorMu, pc, kind,
          posted, name, snap, todo, answer, did, dirty, shown, had>>

\* The sorted keys of one form, and a player file that does not parse;
\* PlayerNames is the key the ban button writes.  The order of the names in
\* a list is left out: nothing but its members decides anything.
Keys == {1, 2}
BadJSON == -1
PlayerNames == 2
Values == SUBSET Names
Forms == [Keys -> Values]
Kinds == [config |-> {"config"},
          players |-> {"bans", "ban", "unban"},
          staff |-> {"staff"},
          server |-> {"start", "stop", "restart", "look"}]
Controls == {"start", "stop", "restart"}

Form == {"config", "bans"}
Lists == Form \cup {"ban", "unban"}

\* The forms posted: both lists emptied or both filled.
Posts == {[k \in Keys |-> v] : v \in {{}, Names}}
ActiveStates == {"inactive", "activating", "active", "deactivating", "failed"}

\* One tick is the 30 s timeout of a read command; a report is kept for a
\* minute.
CacheTicks == 2

(***************************************************************************)
(* Exit statuses, error codes and HTTP statuses.                           *)
(***************************************************************************)
Codes == <<"internal", "invalid_argument", "not_found", "locked", "no_space",
           "service_unavailable", "archive_invalid", "unsafe_path",
           "config_invalid", "checks_failed", "plugin_in_use",
           "archive_in_use">>

ErrorCode(exit) == IF exit \in DOMAIN Codes THEN Codes[exit] ELSE "internal"

OpsHTTPStatusForCode(code) ==
  CASE code \in {"invalid_argument", "unsafe_path"} -> 400
    [] code = "not_found" -> 404
    [] code \in {"locked", "plugin_in_use", "archive_in_use"} -> 409
    [] code = "no_space" -> 507
    [] code \in {"service_unavailable", "checks_failed"} -> 503
    [] code \in {"archive_invalid", "config_invalid"} -> 422
    [] OTHER -> 500

opsHTTPStatusForExit(exit) ==
  CASE exit = 0 -> 200
    [] exit \in {2, 8} -> 400
    [] exit = 3 -> 404
    [] exit \in {4, 11, 12} -> 409
    [] exit = 5 -> 507
    [] exit \in {6, 10} -> 503
    [] exit \in {7, 9} -> 422
    [] OTHER -> 500

(***************************************************************************)
(* One run of the ops binary.  done: the command took effect.  stdout is a  *)
(* success envelope, a failure envelope, or unusable (empty, cut at the     *)
(* limit, trailing data).  cut: the request was cancelled or timed out, and *)
(* the process behind sudo may have finished all the same.                  *)
(***************************************************************************)
Run(exit, stdout, cut, done) ==
  [exit |-> exit, stdout |-> stdout, cut |-> cut, done |-> done]

\* A change that succeeded, that was refused before its first write, that
\* failed after it, and one whose answer never came.
Succeeds == {Run(0, "success", FALSE, TRUE)}
Refuses(exits) == {Run(e, "failure", FALSE, FALSE) : e \in exits}
Breaks(exit) == {Run(exit, "failure", FALSE, d) : d \in BOOLEAN}
Lost == {Run(0, "unusable", FALSE, TRUE)} \cup
        {Run(0, "success", TRUE, d) : d \in BOOLEAN}

setRuns == Succeeds \cup Refuses({4, 9}) \cup Breaks(1) \cup Lost
staffRuns(r) ==
  IF rank[name[r]] = BadJSON THEN Refuses({3, 4, 9})
  ELSE Succeeds \cup Refuses({3, 4}) \cup Breaks(1) \cup Lost
controlRuns == IF load # "loaded" THEN Refuses({4, 6})
               ELSE Succeeds \cup Refuses({4}) \cup Breaks(6) \cup Lost
readRuns == Succeeds \cup Refuses({1, 3, 9}) \cup Lost

\* execOpsRunner and decodeOpsEnvelope: the output is one whole envelope.
Decodes(run) == ~run.cut /\ run.stdout # "unusable"

\* Mutant of call: the exit status decides alone, a lost answer counts.
callExitOnly(run) == run.exit

\* OpsClient.call: the exit status of the error it returns, 0 for none.  The
\* exit status decides before the envelope; a success envelope counts with
\* exit 0 only (and with exit 10, which only ops doctor returns).
call(run) ==
  IF ~Decodes(run) \/ (run.exit = 0 /\ run.stdout # "success") THEN 1
  ELSE run.exit

\* The status of the page that shows the error, and its code in the JSON
\* answers.
adminFailure(exit) == opsHTTPStatusForExit(exit)
adminErrorCode(exit) == ErrorCode(exit)

(***************************************************************************)
(* Requests.                                                               *)
(***************************************************************************)
\* The notice is shown beside an error too: "saved" and "unchanged" (the
\* form asked for nothing new) are set before the page is filled.
NoAnswer == [status |-> 0, notice |-> "none"]

Answered(r, status, notice) ==
  /\ answer' = [answer EXCEPT ![r] = [status |-> status, notice |-> notice]]
  /\ pc' = [pc EXCEPT ![r] = "done"]

Goes(r, to) == pc' = [pc EXCEPT ![r] = to] /\ UNCHANGED answer

settings == <<page, lists, rank, load, unit>>
gate == <<host, brokenFor, doctor, doctorMu>>
form == <<kind, posted, name, snap, todo>>
seen == <<shown, had>>

Init ==
  /\ page \in DOMAIN Kinds
  /\ lists = [k \in Keys |-> {}]
  /\ \E bad \in Names : rank = [n \in Names |-> IF n = bad THEN BadJSON ELSE 0]
  /\ load \in IF page = "server" THEN {"loaded", "masked", "not-found"}
             ELSE {"loaded"}
  /\ unit = IF load = "not-found" THEN "inactive" ELSE "active"
  /\ host = "ok" /\ brokenFor = 0
  /\ doctor = [valid |-> FALSE, age |-> 0, status |-> "none"]
  /\ doctorMu = Nobody
  /\ pc = [r \in Requests |-> "idle"]
  /\ kind = [r \in Requests |-> "look"]
  /\ posted = [r \in Requests |-> [k \in Keys |-> {}]]
  /\ name = [r \in Requests |-> Nobody]
  /\ snap = [r \in Requests |-> [k \in Keys |-> {}]]
  /\ todo = [r \in Requests |-> {}]
  /\ answer = [r \in Requests |-> NoAnswer]
  /\ did = [r \in Requests |-> FALSE] /\ dirty = [r \in Requests |-> FALSE]
  /\ shown = [r \in Requests |-> "unknown"]
  /\ had = [r \in Requests |-> {}]

\* A POST with a valid session and CSRF token, or a GET of the dashboard.
Begin(r) ==
  /\ pc[r] = "idle"
  /\ \E k \in Kinds[page] :
       /\ kind' = [kind EXCEPT ![r] = k]
       /\ Goes(r, IF k = "look" THEN "show" ELSE "gate")
       /\ \E f \in IF k \in Form THEN Posts ELSE {[i \in Keys |-> {}]} :
            posted' = [posted EXCEPT ![r] = f]
       /\ \E n \in IF k \in {"ban", "unban", "staff"} THEN Names
                   ELSE {Nobody} : name' = [name EXCEPT ![r] = n]
  /\ had' = [had EXCEPT ![r] = IF kind'[r] = "look" THEN {unit} ELSE {}]
  /\ UNCHANGED <<settings, gate, snap, todo, did, dirty, shown>>

\* The answer was written; what the request knew is gone.
Leave(r) ==
  /\ pc[r] = "done"
  /\ pc' = [pc EXCEPT ![r] = "idle"]
  /\ answer' = [answer EXCEPT ![r] = NoAnswer]
  /\ kind' = [kind EXCEPT ![r] = "look"] /\ name' = [name EXCEPT ![r] = Nobody]
  /\ posted' = [posted EXCEPT ![r] = [k \in Keys |-> {}]]
  /\ snap' = [snap EXCEPT ![r] = [k \in Keys |-> {}]]
  /\ todo' = [todo EXCEPT ![r] = {}]
  /\ did' = [did EXCEPT ![r] = FALSE] /\ dirty' = [dirty EXCEPT ![r] = FALSE]
  /\ shown' = [shown EXCEPT ![r] = "unknown"] /\ had' = [had EXCEPT ![r] = {}]
  /\ UNCHANGED <<settings, gate>>

(***************************************************************************)
(* doctorMutationError: the report decides only when its status is "error"; *)
(* a run that failed leaves an empty report, and lets the change through.   *)
(***************************************************************************)
doctorMutationError(r, status) ==
  IF status = "error" THEN Answered(r, 503, "none")
  ELSE Goes(r, IF kind[r] \in Lists THEN "read" ELSE "run")

\* Mutant of Fresh: a report never ages.
FreshForever == doctor.valid

Fresh == doctor.valid /\ doctor.age < CacheTicks

\* currentDoctor while a report is fresh.
AskCached(r) ==
  /\ pc[r] = "gate" /\ doctorMu = Nobody /\ Fresh
  /\ doctorMutationError(r, doctor.status)
  /\ UNCHANGED <<settings, gate, form, did, dirty, seen>>

\* currentDoctor runs ops doctor and holds doctorMu meanwhile: what the run
\* finds is posted for EndDoctor in the cache's status.
StartDoctor(r) ==
  /\ pc[r] = "gate" /\ doctorMu = Nobody /\ ~Fresh
  /\ doctorMu' = r
  /\ doctor' = [valid |-> FALSE, age |-> 0, status |-> host]
  /\ Goes(r, "doctor")
  /\ UNCHANGED <<settings, host, brokenFor, form, did, dirty, seen>>

\* The run ends with its report, or with none (timed out, cancelled with its
\* request, not decodable); either is kept for a minute.
EndDoctor(r) ==
  /\ pc[r] = "doctor" /\ doctorMu = r
  /\ doctorMu' = Nobody
  /\ \E status \in {doctor.status, "none"} :
       /\ doctor' = [valid |-> TRUE, age |-> 0, status |-> status]
       /\ doctorMutationError(r, status)
  /\ UNCHANGED <<settings, host, brokenFor, form, did, dirty, seen>>

\* ParseForm failed, or a field or the rank does not parse.
BadForm(r) ==
  /\ \/ pc[r] = "read"
     \/ pc[r] = "run" /\ kind[r] = "staff"
  /\ Answered(r, 400, "none")
  /\ UNCHANGED <<settings, gate, form, did, dirty, seen>>

(***************************************************************************)
(* The forms: read the file, write the keys that differ, one by one.       *)
(***************************************************************************)
\* The whole list the ban button writes.
nextNames(r, list) ==
  IF kind[r] = "ban" THEN list \cup {name[r]} ELSE list \ {name[r]}

\* configFormValue: the posted keys that differ from the file now.
Changed(want) == {k \in Keys : want[k] # lists[k]}

\* handleConfigForm, handlePlayersBans and handlePlayerBan up to the first
\* config set: the changed keys are those that differ from the file now.
\* With none, a form is shown again with a notice and a button leads back.
Snapshot(r) ==
  /\ pc[r] = "read"
  /\ \E run \in readRuns :
       LET want == IF kind[r] \in Form THEN posted[r]
                   ELSE [lists EXCEPT ![PlayerNames] = nextNames(r, @)]
           changed == Changed(want)
       IN IF call(run) # 0
          THEN /\ Answered(r, adminFailure(call(run)), "none")
               /\ UNCHANGED <<posted, snap, todo, dirty>>
          ELSE /\ snap' = [snap EXCEPT ![r] = lists]
               /\ posted' = [posted EXCEPT ![r] = want]
               /\ todo' = [todo EXCEPT ![r] = changed]
               /\ dirty' = [dirty EXCEPT ![r] = FALSE]
               /\ IF changed # {} THEN Goes(r, "run")
                  ELSE IF kind[r] \in Form THEN Answered(r, 200, "unchanged")
                  ELSE Answered(r, 303, "none")
  /\ UNCHANGED <<settings, gate, kind, name, did, seen>>

\* A command of r ran: it may have changed what another request compared.
Disturbs(r) == [q \in Requests |-> dirty[q] \/ (q # r /\ pc[q] # "idle")]

\* The last key of a form was written: the settings page is read anew, the
\* others redirect.
Saved(r) == IF kind[r] = "config" THEN Goes(r, "reread")
            ELSE Answered(r, 303, "saved")

\* Mutant of SetKey: the keys are written in the order of a Go map.
SetKeyAnyOrder(r) ==
  /\ pc[r] = "run" /\ todo[r] # {}
  /\ \E run \in setRuns, k \in todo[r] :
       /\ lists' = IF run.done THEN [lists EXCEPT ![k] = posted[r][k]]
                   ELSE lists
       /\ did' = [did EXCEPT ![r] = run.done]
       /\ dirty' = IF run.done THEN Disturbs(r) ELSE dirty
       /\ IF call(run) # 0
          THEN Answered(r, adminFailure(call(run)), "none") /\ UNCHANGED todo
          ELSE /\ todo' = [todo EXCEPT ![r] = @ \ {k}]
               /\ IF todo[r] = {k} THEN Saved(r) ELSE Goes(r, "run")
  /\ UNCHANGED <<page, rank, load, unit, gate, kind, posted, name, snap, seen>>

\* One config set of handleConfigForm, saveBanlist or handlePlayerBan: the
\* next changed key in sorted order; the first failure ends the form.
SetKey(r) ==
  /\ pc[r] = "run" /\ todo[r] # {}
  /\ \E run \in setRuns :
       LET k == Min(todo[r])
       IN /\ lists' = IF run.done THEN [lists EXCEPT ![k] = posted[r][k]]
                      ELSE lists
          /\ did' = [did EXCEPT ![r] = run.done]
          /\ dirty' = IF run.done THEN Disturbs(r) ELSE dirty
          /\ IF call(run) # 0
             THEN Answered(r, adminFailure(call(run)), "none") /\ UNCHANGED todo
             ELSE /\ todo' = [todo EXCEPT ![r] = @ \ {k}]
                  /\ IF todo[r] = {k} THEN Saved(r) ELSE Goes(r, "run")
  /\ UNCHANGED <<page, rank, load, unit, gate, kind, posted, name, snap, seen>>

\* The end of handleConfigForm: configSections reads both files again for
\* the page that says how many fields were saved.  When that fails the page
\* has the status and the text of the failure, and the notice all the same.
Reread(r) ==
  /\ pc[r] = "reread"
  /\ \E run \in readRuns :
       Answered(r, IF call(run) = 0 THEN 200 ELSE adminFailure(call(run)), "saved")
  /\ UNCHANGED <<settings, gate, form, did, dirty, seen>>

\* The states a dashboard request that is under way could have read.
Seen(state) == [q \in Requests |-> IF pc[q] \in {"show", "isactive"}
                                   THEN had[q] \cup {state} ELSE had[q]]

(***************************************************************************)
(* One command.                                                            *)
(***************************************************************************)
\* The redirect with its notice, or the page with the error.
Commanded(r, run) ==
  IF call(run) = 0 THEN Answered(r, 303, "saved")
  ELSE Answered(r, adminFailure(call(run)), "none")

\* One field of the player's JSON; the others are kept.
updateStaffJSON(n, value) == [rank EXCEPT ![n] = value]

\* handleStaffSet and runStaffSet: one field of the player's JSON.
StaffSet(r) ==
  /\ pc[r] = "run" /\ kind[r] = "staff"
  /\ \E run \in staffRuns(r), n \in {0, 1} :
       /\ rank' = IF run.done THEN updateStaffJSON(name[r], n) ELSE rank
       /\ did' = [did EXCEPT ![r] = run.done]
       /\ Commanded(r, run)
  /\ UNCHANGED <<page, lists, load, unit, gate, form, dirty, seen>>

\* handleServerAction and runControl: systemctl start, stop or restart.
ServerAction(r) ==
  /\ pc[r] = "run" /\ kind[r] \in Controls
  /\ \E run \in controlRuns :
       /\ unit' = CASE ~run.done -> unit
                    [] kind[r] = "stop" -> "deactivating"
                    [] OTHER -> "activating"
       /\ had' = Seen(unit')
       /\ did' = [did EXCEPT ![r] = run.done]
       /\ Commanded(r, run)
  /\ UNCHANGED <<page, lists, rank, load, gate, form, dirty, shown>>

(***************************************************************************)
(* The state of the unit on the dashboard: ops status reads systemctl show *)
(* and then systemctl is-active.                                           *)
(***************************************************************************)
\* serviceState: known = is-active answered, active = what it said.
serviceState(active, known, isActive) ==
  CASE active = "failed" -> "unhealthy"
    [] active \in {"activating", "reloading"} -> "starting"
    [] active = "deactivating" -> "stopped"
    [] active = "active" -> IF known => isActive THEN "running" ELSE "stopped"
    [] active = "inactive" -> IF known /\ isActive THEN "running"
                              ELSE "stopped"
    [] OTHER -> "unknown"

\* classifyStatus: what LoadState says comes first.
classifyStatus(active, known, isActive) ==
  CASE load = "not-found" -> "service_unavailable"
    [] load = "masked" -> "stopped"
    [] OTHER -> serviceState(active, known, isActive)

\* The first of the two reads.
Show(r) ==
  /\ pc[r] = "show"
  /\ shown' = [shown EXCEPT ![r] = unit]
  /\ Goes(r, "isactive")
  /\ UNCHANGED <<settings, gate, form, did, dirty, had>>

\* The second read, classifyStatus and the page with its buttons; a failed
\* status shows the page with service_unavailable.
IsActive(r) ==
  /\ pc[r] = "isactive"
  /\ \E run \in readRuns, known \in BOOLEAN :
       shown' = [shown EXCEPT ![r] =
                   IF call(run) # 0 THEN "service_unavailable"
                   ELSE classifyStatus(@, known, unit = "active")]
  /\ Answered(r, 200, "none")
  /\ UNCHANGED <<settings, gate, form, did, dirty, had>>

\* serverActions: the buttons of the page.
CanStop(state) == state \in {"running", "starting"}

(***************************************************************************)
(* The environment.                                                        *)
(***************************************************************************)
\* systemd moves the unit.
UnitMoves ==
  /\ page = "server"
  /\ unit' \in CASE unit = "activating" -> {"active", "failed"}
                 [] unit = "deactivating" -> {"inactive"}
                 [] unit = "active" -> {"failed"}
                 [] unit = "failed" -> {"activating"}
                 [] OTHER -> {}
  /\ had' = Seen(unit')
  /\ UNCHANGED <<page, lists, rank, load, gate, pc, form, answer, did, dirty, shown>>

\* The host breaks or is repaired.  The clock and the host move on one page
\* only: the gate is the same for every change.
HostChanges ==
  /\ page = "staff"
  /\ host' = IF host = "ok" THEN "error" ELSE "ok"
  /\ brokenFor' = 0
  /\ UNCHANGED <<settings, doctor, doctorMu, pc, form, answer, did, dirty,
                 seen>>

\* Half a minute passes; a run of ops doctor (5 s) spans at most one tick:
\* the age it has reached meanwhile is kept in the cache.
Tick ==
  /\ page = "staff"
  /\ doctorMu # Nobody => doctor.age = 0
  /\ brokenFor' = IF host = "ok" THEN 0 ELSE Min({brokenFor + 1, MaxLag + 1})
  /\ doctor' = [doctor EXCEPT !.age = Min({@ + 1, CacheTicks})]
  /\ brokenFor' # brokenFor \/ doctor' # doctor
  /\ UNCHANGED <<settings, host, doctorMu, pc, form, answer, did, dirty, seen>>

Next ==
  \/ \E r \in Requests :
       \/ Begin(r) \/ Leave(r) \/ AskCached(r) \/ StartDoctor(r)
       \/ EndDoctor(r) \/ BadForm(r) \/ Snapshot(r) \/ SetKey(r)
       \/ Reread(r) \/ StaffSet(r) \/ ServerAction(r) \/ Show(r) \/ IsActive(r)
  \/ UnitMoves \/ HostChanges \/ Tick

Spec == Init /\ [][Next]_vars

(***************************************************************************)
(* Properties.                                                             *)
(***************************************************************************)
TypeOK ==
  /\ page \in DOMAIN Kinds
  /\ lists \in Forms /\ rank \in [Names -> {0, 1, BadJSON}]
  /\ unit \in ActiveStates /\ host \in {"ok", "error"}
  /\ brokenFor \in 0..(MaxLag + 1)
  /\ doctor.age \in 0..CacheTicks /\ doctor.status \in {"ok", "error", "none"}
  /\ doctorMu \in Requests \cup {Nobody}
  /\ pc \in [Requests -> {"idle", "gate", "doctor", "read", "run",
                          "reread", "show", "isactive", "done"}]
  /\ kind \in [Requests -> UNION {Kinds[p] : p \in DOMAIN Kinds}] /\ posted \in [Requests -> Forms]
  /\ todo \in [Requests -> SUBSET Keys] /\ snap \in [Requests -> Forms]
  /\ \A r \in Requests : (pc[r] = "doctor") = (doctorMu = r)

(* A change is let through more than a minute (and the length of one run)   *)
(* after the host broke only when that run of ops doctor gave no report:    *)
(* the cache of currentDoctor never hides a verdict for longer.             *)
Notices ==
  \A r \in Requests :
    (pc[r] \in {"gate", "doctor"} /\ pc'[r] \in {"read", "run"}
     /\ brokenFor > MaxLag) => doctor'.status = "none"

GateNoticesWithinAMinute == [][Notices]_vars

(* A form whose keys nobody else wrote meanwhile leaves exactly what its    *)
(* page says: everything posted after a redirect, a page without an error   *)
(* or a notice that it was saved, and after an error at a key the posted    *)
(* values before it and the old ones behind it (saveBanlist,                *)
(* handleConfigForm).                                                       *)
FormIsAPrefix ==
  \A r \in Requests :
    (pc[r] = "done" /\ kind[r] \in Lists /\ ~dirty[r]) =>
      /\ answer[r].status \in {200, 303} \/ answer[r].notice = "saved" =>
           lists = posted[r]
      /\ todo[r] # {} =>
           \A k \in Keys : /\ k < Min(todo[r]) => lists[k] = posted[r][k]
                           /\ k > Min(todo[r]) => lists[k] = snap[r][k]

(* What a page says of a change is true, whatever became of its commands:   *)
(* a notice that it was saved means the last command took effect, one that  *)
(* nothing was changed that no command ran, and a refusal (400, 404, 409,   *)
(* 422) or a redirect without a notice that the last command did not take   *)
(* effect; and the status of the page agrees with the error code the JSON   *)
(* answers carry (adminFailure, adminErrorCode).  The status alone says     *)
(* less: when the settings cannot be read again after the last config set,  *)
(* the page has the status of a refusal beside its notice                   *)
(* (admin.go:1585-1595).                                                    *)
AnswerTellsEffect ==
  /\ \A r \in Requests : pc[r] = "done" /\ kind[r] # "look" =>
       LET told == answer[r]
       IN /\ told.notice = "saved" => did[r]
          /\ told.notice = "unchanged" => ~did[r]
          /\ told.notice = "none" /\ told.status \in {303, 400, 404, 409, 422} =>
               ~did[r]
  /\ \A e \in DOMAIN Codes :
       adminFailure(e) = OpsHTTPStatusForCode(adminErrorCode(e))

(* The dashboard, whose state comes from two reads of a unit that moves in  *)
(* between, never shows a state the unit was not in during the request, and *)
(* offers Stop only for a unit that ran or was starting then.               *)
DashboardSawIt ==
  \A r \in Requests : pc[r] = "done" /\ kind[r] = "look" /\ load = "loaded" =>
    /\ shown[r] = "running" => "active" \in had[r]
    /\ shown[r] = "stopped" => had[r] # {"active"}
    /\ shown[r] = "unhealthy" => "failed" \in had[r]
    /\ CanStop(shown[r]) => had[r] \cap {"active", "activating"} # {}

(* The ban button adds or removes one name and changes no other name's ban *)
(* (docs/v2/05-panel.md:680).  The code rewrites the list it read before,  *)
(* so a ban made in between is lost (handlePlayerBan).                     *)
OneNameAtATime ==
  [][\A r \in Requests :
       (pc[r] = "run" /\ pc'[r] = "done" /\ kind[r] \in {"ban", "unban"}) =>
         SymDiff(lists[PlayerNames], lists'[PlayerNames]) \subseteq
           {name[r]}]_vars
=============================================================================
