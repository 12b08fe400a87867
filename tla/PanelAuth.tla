----------------------------- MODULE PanelAuth ------------------------------
(***************************************************************************)
(* Signing in to the admin panel: the password store (auth.json in memory  *)
(* and on disk, the temporary password in initial-password.txt), the       *)
(* sessions, the one-time tokens of the login form, the limiter of failed  *)
(* attempts, and the offline "reset-password" command.                     *)
(*                                                                         *)
(* A browser has at most one request in the panel; requests of different   *)
(* browsers interleave at every lock, file operation and password hash.    *)
(* A record of auth.json stands for the password it is the hash of.  A     *)
(* session, token or attempt that has run out of time is one that has left *)
(* its table: every reader of the tables drops such entries first.         *)
(***************************************************************************)
EXTENDS Integers, Sequences, FiniteSets, SequencesExt

CONSTANTS
  Browsers,      \* clients of the panel, all behind one address
  Chosen,        \* passwords an operator chooses
  MaxTemps,      \* generated passwords (a bound)
  MaxTokens,     \* maxLoginCSRFTokens
  MaxAttempts,   \* maxLoginAttempts
  MaxFaults,     \* failed file operations and kills (a bound)
  None

ASSUME PanelAuthAssumptions ==
  /\ MaxTemps \in Nat /\ MaxFaults \in Nat
  /\ MaxTokens \in Nat \ {0} /\ MaxAttempts \in Nat \ {0}
  /\ Chosen \cap (1..MaxTemps) = {}
  /\ IsFiniteSet(Browsers)
  /\ None \notin Chosen \cup Browsers \cup Nat

Temps     == 1..MaxTemps
Passwords == Chosen \cup Temps

VARIABLES
  authFile, initialFile,        \* panel-data: a password or None
  panel,                        \* the panel process
  hash, mustChange, changeMu,   \* authStore
  sessions, tokens, attempts,   \* session ids -> mustChange; login tokens, oldest first; limiter
  cookie, form, req,            \* per browser: session id, login token, request
  reset,                        \* the reset-password process
  nextTemp, faults,
  told, disturbed, failedChange         \* history

store   == <<authFile, initialFile>>
memory  == <<hash, mustChange>>
tables  == <<sessions, tokens, attempts>>
history == <<told, disturbed, failedChange>>
client  == <<cookie, form>>
vars == <<store, panel, memory, changeMu, tables, client, req, reset, nextTemp,
          faults, history>>

(* More ids than the tables and the browsers can hold at once: an id that  *)
(* nobody holds stands for a random token never seen before.               *)
Ids == 1..(3 * Cardinality(Browsers) + MaxTokens + 1)
FreshOf(held) == CHOOSE i \in Ids : i \notin held

Idle == [pc |-> "idle", cur |-> None, next |-> None, right |-> FALSE,
         id |-> None, must |-> FALSE]
NoReset == [pc |-> "idle", temp |-> None, oldAuth |-> None, oldInitial |-> None]
ResetPcs == {"idle", "record", "initial", "undoRecord", "undoInitial", "ok", "error"}
Resetting == reset.pc \in {"record", "initial", "undoRecord", "undoInitial"}

Init ==
  /\ authFile = None /\ initialFile = None
  /\ panel = "down"
  /\ hash = None /\ mustChange = FALSE /\ changeMu = None
  /\ sessions = <<>> /\ tokens = <<>>
  /\ attempts = [k \in {"login", "password"} |-> 0]
  /\ cookie = [b \in Browsers |-> None] /\ form = [b \in Browsers |-> None]
  /\ req = [b \in Browsers |-> Idle]
  /\ reset = NoReset
  /\ nextTemp = 1 /\ faults = 0
  /\ told = {} /\ disturbed = FALSE /\ failedChange = FALSE

-----------------------------------------------------------------------------
(* File operations.  atomicfile.WriteFile fails before the rename (nothing *)
(* changed) or after it, when the directory cannot be synced.              *)
Succeeds == UNCHANGED <<faults, disturbed>>
Fails    == faults < MaxFaults /\ faults' = faults + 1

WriteAuth(p)      == Succeeds /\ authFile' = p
WriteAuthFails(p) ==
  /\ Fails
  /\ \/ authFile' = authFile /\ disturbed' = disturbed
     \/ p # None /\ authFile' = p /\ disturbed' = TRUE

WriteInitial(p)      == Succeeds /\ initialFile' = p
WriteInitialFails(p) ==
  /\ Fails
  /\ \/ initialFile' = initialFile /\ disturbed' = disturbed
     \/ p # None /\ initialFile' = p /\ disturbed' = TRUE

-----------------------------------------------------------------------------
(* openAuthStore: load auth.json, or generate a password, write its record *)
(* and then the file that shows it.                                        *)
OpenLoad ==
  /\ panel = "down" /\ ~Resetting /\ authFile # None
  /\ panel' = "up"
  /\ hash' = authFile /\ mustChange' = (initialFile # None)
  /\ failedChange' = FALSE
  /\ reset' = NoReset
  /\ UNCHANGED <<store, changeMu, tables, client, req, nextTemp, faults,
                 told, disturbed>>

OpenGenerate ==
  /\ panel = "down" /\ ~Resetting /\ authFile = None /\ nextTemp <= MaxTemps
  /\ panel' = "record"
  /\ hash' = nextTemp /\ nextTemp' = nextTemp + 1
  /\ reset' = NoReset
  /\ UNCHANGED <<store, mustChange, changeMu, tables, client, req, faults, history>>

OpenWriteRecord ==
  /\ panel = "record"
  /\ \/ /\ WriteAuth(hash)
        /\ panel' = "initial" /\ UNCHANGED hash
     \/ /\ WriteAuthFails(hash)
        /\ panel' = "down" /\ hash' = None
  /\ UNCHANGED <<initialFile, mustChange, changeMu, tables, client, req, reset,
                 nextTemp, told, failedChange>>

OpenWriteInitial ==
  /\ panel = "initial"
  /\ \/ /\ WriteInitial(hash)
        /\ panel' = "up" /\ mustChange' = TRUE
        /\ told' = told \cup {hash}
        /\ failedChange' = FALSE
     \/ /\ WriteInitialFails(hash)
        /\ panel' = "undo"
        /\ UNCHANGED <<mustChange, told, failedChange>>
  /\ UNCHANGED <<authFile, hash, changeMu, tables, client, req, reset, nextTemp>>

(* Mutant of OpenUndo: the record of a password nobody saw stays.          *)
OpenUndoNothing ==
  /\ panel = "undo"
  /\ Succeeds
  /\ panel' = "down" /\ hash' = None
  /\ UNCHANGED <<store, mustChange, changeMu, tables, client, req, reset,
                 nextTemp, told, failedChange>>

OpenUndo ==
  /\ panel = "undo"
  /\ \/ Succeeds /\ authFile' = None
     \/ Fails /\ UNCHANGED <<authFile, disturbed>>
  /\ panel' = "down" /\ hash' = None
  /\ UNCHANGED <<initialFile, mustChange, changeMu, tables, client, req, reset,
                 nextTemp, told, failedChange>>

(* The process ends: sessions, tokens, counters and requests are memory.   *)
(* A cookie or a form that names nothing any more is the same as none.     *)
Gone ==
  /\ panel' = "down"
  /\ hash' = None /\ mustChange' = FALSE /\ changeMu' = None
  /\ sessions' = <<>> /\ tokens' = <<>>
  /\ attempts' = [k \in DOMAIN attempts |-> 0]
  /\ cookie' = [b \in Browsers |-> None] /\ form' = [b \in Browsers |-> None]
  /\ req' = [b \in Browsers |-> Idle]
  /\ UNCHANGED <<store, reset, nextTemp, told, failedChange>>

StopPanel ==
  /\ panel = "up" /\ \A b \in Browsers : req[b] = Idle
  /\ Gone /\ UNCHANGED <<faults, disturbed>>

KillPanel == panel # "down" /\ Fails /\ disturbed' = TRUE /\ Gone

-----------------------------------------------------------------------------
(* ResetPassword, run while the panel is stopped (docs/v2/05-panel.md).    *)
ResetKeepsRest ==
  UNCHANGED <<panel, memory, changeMu, tables, client, req, failedChange>>

ResetStart ==
  /\ panel = "down" /\ ~Resetting /\ nextTemp <= MaxTemps
  /\ reset' = [pc |-> "record", temp |-> nextTemp,
               oldAuth |-> authFile, oldInitial |-> initialFile]
  /\ nextTemp' = nextTemp + 1
  /\ ResetKeepsRest /\ UNCHANGED <<store, faults, told, disturbed>>

ResetWriteRecord ==
  /\ reset.pc = "record"
  /\ \/ WriteAuth(reset.temp) /\ reset' = [reset EXCEPT !.pc = "initial"]
     \/ WriteAuthFails(reset.temp) /\ reset' = [reset EXCEPT !.pc = "error"]
  /\ ResetKeepsRest /\ UNCHANGED <<initialFile, nextTemp, told>>

ResetWriteInitial ==
  /\ reset.pc = "initial"
  /\ \/ /\ WriteInitial(reset.temp)
        /\ reset' = [reset EXCEPT !.pc = "ok"]
        /\ told' = told \cup {reset.temp}
     \/ /\ WriteInitialFails(reset.temp)
        /\ reset' = [reset EXCEPT !.pc = "undoRecord"]
        /\ UNCHANGED told
  /\ ResetKeepsRest /\ UNCHANGED <<authFile, nextTemp>>

(* Mutant of ResetUndoRecord: only the second file is restored.            *)
ResetUndoSkipsRecord ==
  /\ reset.pc = "undoRecord"
  /\ Succeeds
  /\ reset' = [reset EXCEPT !.pc = "undoInitial"]
  /\ ResetKeepsRest /\ UNCHANGED <<store, nextTemp, told>>

(* restoreOptionalFile: the old bytes come back, or the file is removed.   *)
ResetUndoRecord ==
  /\ reset.pc = "undoRecord"
  /\ WriteAuth(reset.oldAuth) \/ WriteAuthFails(reset.oldAuth)
  /\ reset' = [reset EXCEPT !.pc = "undoInitial"]
  /\ ResetKeepsRest /\ UNCHANGED <<initialFile, nextTemp, told>>

ResetUndoInitial ==
  /\ reset.pc = "undoInitial"
  /\ WriteInitial(reset.oldInitial) \/ WriteInitialFails(reset.oldInitial)
  /\ reset' = [reset EXCEPT !.pc = "error"]
  /\ ResetKeepsRest /\ UNCHANGED <<authFile, nextTemp, told>>

KillReset ==
  /\ Resetting /\ Fails
  /\ reset' = NoReset /\ disturbed' = TRUE
  /\ UNCHANGED <<store, panel, memory, changeMu, tables, client, req, nextTemp,
                 told, failedChange>>

ResetCommand ==
  \/ ResetStart \/ ResetWriteRecord \/ ResetWriteInitial
  \/ ResetUndoRecord \/ ResetUndoInitial

-----------------------------------------------------------------------------
(* The handlers.  AnswerLogin renders the login form with a new token; the *)
(* oldest one is dropped when the table is full.                           *)
Changing(b) == req[b].pc \in {"lock", "check", "write", "activate", "unmark", "rotate"}

Held == Range(tokens) \cup DOMAIN sessions \cup Range(cookie) \cup Range(form)
          \cup {req[b].id : b \in {b \in Browsers : Changing(b)}}
Fresh == FreshOf(Held)

AnswerLogin(b, left) ==
  /\ tokens' = Append(IF Len(left) >= MaxTokens THEN Tail(left) ELSE left, Fresh)
  /\ form' = [form EXCEPT ![b] = Fresh]
  /\ req' = [req EXCEPT ![b] = Idle]

SignedIn(b) == cookie[b] \in DOMAIN sessions
Without(id) == [i \in DOMAIN sessions \ {id} |-> sessions[i]]
WithNew(table, must) ==
  [i \in DOMAIN table \cup {Fresh} |-> IF i = Fresh THEN must ELSE table[i]]

Allowed(key) == attempts[key] < MaxAttempts
FailedTry(key) == attempts' = [attempts EXCEPT ![key] = @ + 1]
ResetTries(key) == attempts' = [attempts EXCEPT ![key] = 0]

HandlersKeep == UNCHANGED <<panel, reset, nextTemp, told>>
NoFiles == UNCHANGED <<store, faults, disturbed>>

LoginGet(b) ==
  /\ panel = "up" /\ req[b] = Idle /\ ~SignedIn(b)
  /\ AnswerLogin(b, tokens)
  /\ cookie' = [cookie EXCEPT ![b] = None]
  /\ HandlersKeep /\ NoFiles
  /\ UNCHANGED <<memory, changeMu, sessions, attempts, failedChange>>

(* handleLoginPost up to the hash: the limiter, then the one-time token,   *)
(* then verify takes its copy of the stored hash, which settles what the   *)
(* comparison will say.                                                    *)
LoginPost(b, pw) ==
  /\ panel = "up" /\ req[b] = Idle /\ form[b] # None
  /\ IF Allowed("login") /\ form[b] \in Range(tokens)
     THEN /\ \E k \in 1..Len(tokens) :
               tokens[k] = form[b] /\ tokens' = RemoveAt(tokens, k)
          /\ form' = [form EXCEPT ![b] = None]
          /\ req' = [req EXCEPT ![b] = [Idle EXCEPT !.pc = "compare",
                                                 !.right = (pw = hash)]]
     ELSE AnswerLogin(b, tokens)
  /\ HandlersKeep /\ NoFiles
  /\ UNCHANGED <<memory, changeMu, sessions, attempts, cookie, failedChange>>

(* The comparison runs under hashSem on the copy, which a password change  *)
(* may have made old; the forced-change flag is read after it.             *)
LoginCompare(b) ==
  /\ req[b].pc = "compare"
  /\ \/ /\ req[b].right
        /\ ResetTries("login")
        /\ req' = [req EXCEPT ![b] = [Idle EXCEPT !.pc = "create",
                                                 !.must = mustChange]]
        /\ UNCHANGED <<tokens, form>>
     \/ /\ ~req[b].right
        /\ FailedTry("login")
        /\ AnswerLogin(b, tokens)
  /\ HandlersKeep /\ NoFiles
  /\ UNCHANGED <<memory, changeMu, sessions, cookie, failedChange>>

LoginCreate(b) ==
  /\ req[b].pc = "create"
  /\ sessions' = WithNew(sessions, req[b].must)
  /\ cookie' = [cookie EXCEPT ![b] = Fresh]
  /\ form' = [form EXCEPT ![b] = None]
  /\ req' = [req EXCEPT ![b] = Idle]
  /\ HandlersKeep /\ NoFiles
  /\ UNCHANGED <<memory, changeMu, tokens, attempts, failedChange>>

Logout(b) ==
  /\ panel = "up" /\ req[b] = Idle /\ SignedIn(b)
  /\ sessions' = Without(cookie[b])
  /\ cookie' = [cookie EXCEPT ![b] = None]
  /\ HandlersKeep /\ NoFiles
  /\ UNCHANGED <<memory, changeMu, tokens, attempts, form, req, failedChange>>

-----------------------------------------------------------------------------
(* handlePasswordPost and changePassword.                                  *)
PasswordPost(b, cur, next) ==
  /\ panel = "up" /\ req[b] = Idle /\ SignedIn(b)
  /\ Allowed("password") /\ cur # next
  /\ req' = [req EXCEPT ![b] = [Idle EXCEPT !.pc = "lock", !.cur = cur,
                                           !.next = next, !.id = cookie[b]]]
  /\ HandlersKeep /\ NoFiles
  /\ UNCHANGED <<memory, changeMu, tables, client, failedChange>>

(* Mutant of ChangeLock: changeMu is not taken exclusively.                *)
ChangeLockShared(b) ==
  /\ req[b].pc = "lock"
  /\ changeMu' = b
  /\ req' = [req EXCEPT ![b].pc = "check", ![b].right = (req[b].cur = hash)]
  /\ HandlersKeep /\ NoFiles
  /\ UNCHANGED <<memory, tables, client, failedChange>>

ChangeLock(b) ==
  /\ req[b].pc = "lock" /\ changeMu = None
  /\ changeMu' = b
  /\ req' = [req EXCEPT ![b].pc = "check", ![b].right = (req[b].cur = hash)]
  /\ HandlersKeep /\ NoFiles
  /\ UNCHANGED <<memory, tables, client, failedChange>>

ChangeCheck(b) ==
  /\ req[b].pc = "check"
  /\ \/ /\ req[b].right
        /\ req' = [req EXCEPT ![b].pc = "write"]
        /\ UNCHANGED <<changeMu, attempts>>
     \/ /\ ~req[b].right
        /\ req' = [req EXCEPT ![b] = Idle]
        /\ changeMu' = None
        /\ FailedTry("password")
  /\ HandlersKeep /\ NoFiles
  /\ UNCHANGED <<memory, sessions, tokens, client, failedChange>>

ChangeWrite(b) ==
  /\ req[b].pc = "write"
  /\ \/ /\ WriteAuth(req[b].next)
        /\ req' = [req EXCEPT ![b].pc = "activate"]
        /\ UNCHANGED <<changeMu, failedChange>>
     \/ /\ WriteAuthFails(req[b].next)
        /\ req' = [req EXCEPT ![b] = Idle]
        /\ changeMu' = None /\ failedChange' = TRUE
  /\ HandlersKeep
  /\ UNCHANGED <<initialFile, memory, tables, client>>

(* Mutant of ChangeActivate: the forced change is not lifted with it.      *)
ChangeActivateForced(b) ==
  /\ req[b].pc = "activate"
  /\ hash' = req[b].next
  /\ req' = [req EXCEPT ![b].pc = "unmark"]
  /\ HandlersKeep /\ NoFiles
  /\ UNCHANGED <<mustChange, changeMu, tables, client, failedChange>>

ChangeActivate(b) ==
  /\ req[b].pc = "activate"
  /\ hash' = req[b].next /\ mustChange' = FALSE
  /\ req' = [req EXCEPT ![b].pc = "unmark"]
  /\ HandlersKeep /\ NoFiles
  /\ UNCHANGED <<changeMu, tables, client, failedChange>>

(* A marker that cannot be removed is logged and left.                     *)
ChangeUnmark(b) ==
  /\ req[b].pc = "unmark"
  /\ \/ Succeeds /\ initialFile' = None
     \/ Fails /\ UNCHANGED <<initialFile, disturbed>>
  /\ changeMu' = None
  /\ req' = [req EXCEPT ![b].pc = "rotate"]
  /\ HandlersKeep
  /\ UNCHANGED <<authFile, memory, tables, client, failedChange>>

(* The session that changed the password gets a new id; when it is gone    *)
(* (expired, signed out elsewhere), a new session is made.                 *)
PasswordRotate(b) ==
  /\ req[b].pc = "rotate"
  /\ sessions' = WithNew(Without(req[b].id), FALSE)
  /\ cookie' = [cookie EXCEPT ![b] = Fresh]
  /\ ResetTries("password")
  /\ req' = [req EXCEPT ![b] = Idle]
  /\ HandlersKeep /\ NoFiles
  /\ UNCHANGED <<memory, changeMu, tokens, form, failedChange>>

Handler(b) ==
  \/ LoginCompare(b) \/ LoginCreate(b)
  \/ ChangeLock(b) \/ ChangeCheck(b) \/ ChangeWrite(b) \/ ChangeActivate(b)
  \/ ChangeUnmark(b) \/ PasswordRotate(b)

(* Passwords somebody can know: chosen, told at the end of a start or a    *)
(* reset, or readable in initial-password.txt.                             *)
Known == Chosen \cup told \cup ({initialFile} \ {None})

Request(b) ==
  \/ LoginGet(b)
  \/ \E pw \in Known : LoginPost(b, pw)
  \/ Logout(b)
  \/ \E cur \in Known, next \in Chosen : PasswordPost(b, cur, next)

-----------------------------------------------------------------------------
(* Time: a session passes one of its limits, the oldest token its ten      *)
(* minutes, an attempt leaves the window.                                  *)
ClockKeeps ==
  UNCHANGED <<store, panel, memory, changeMu, client, req, reset, nextTemp,
              faults, history>>

SessionExpires ==
  /\ \E id \in DOMAIN sessions : sessions' = Without(id)
  /\ ClockKeeps /\ UNCHANGED <<tokens, attempts>>

TokenExpires ==
  /\ tokens # <<>> /\ tokens' = Tail(tokens)
  /\ ClockKeeps /\ UNCHANGED <<sessions, attempts>>

AttemptAges ==
  /\ \E k \in DOMAIN attempts :
       attempts[k] > 0 /\ attempts' = [attempts EXCEPT ![k] = @ - 1]
  /\ ClockKeeps /\ UNCHANGED <<sessions, tokens>>

Open == OpenLoad \/ OpenGenerate \/ OpenWriteRecord \/ OpenWriteInitial \/ OpenUndo

Next ==
  \/ Open \/ StopPanel \/ KillPanel
  \/ ResetCommand \/ KillReset
  \/ \E b \in Browsers : Handler(b) \/ Request(b)
  \/ SessionExpires \/ TokenExpires \/ AttemptAges

Spec == Init /\ [][Next]_vars

-----------------------------------------------------------------------------
Pcs == {"idle", "compare", "create", "lock", "check", "write", "activate",
        "unmark", "rotate"}

Requests == [pc : Pcs, cur : Passwords \cup {None}, next : Chosen \cup {None},
             right : BOOLEAN, id : Ids \cup {None}, must : BOOLEAN]
Resets == [pc : ResetPcs, temp : Temps \cup {None},
           oldAuth : Passwords \cup {None}, oldInitial : Passwords \cup {None}]

TypeOK ==
  /\ authFile \in Passwords \cup {None} /\ initialFile \in Passwords \cup {None}
  /\ panel \in {"down", "record", "initial", "undo", "up"}
  /\ hash \in Passwords \cup {None} /\ mustChange \in BOOLEAN
  /\ changeMu \in Browsers \cup {None}
  /\ sessions \in [DOMAIN sessions -> BOOLEAN] /\ DOMAIN sessions \subseteq Ids
  /\ tokens \in Seq(Ids) /\ Len(tokens) <= MaxTokens
  /\ attempts \in [{"login", "password"} -> 0..(MaxAttempts + Cardinality(Browsers) - 1)]
  /\ cookie \in [Browsers -> Ids \cup {None}] /\ form \in [Browsers -> Ids \cup {None}]
  /\ req \in [Browsers -> Requests]
  /\ reset \in Resets
  /\ nextTemp \in 1..(MaxTemps + 1) /\ faults \in 0..MaxFaults
  /\ told \subseteq Passwords
  /\ disturbed \in BOOLEAN /\ failedChange \in BOOLEAN

(* As long as the panel demands a new password no session is exempt from   *)
(* the demand, whatever logins and changes overlap.                        *)
GateHolds ==
  mustChange => \A id \in DOMAIN sessions : sessions[id]

(* A generated password that somebody can know opens the panel only to be  *)
(* replaced, through every failed write, kill, reset and restart.          *)
TemporaryIsForced ==
  panel = "up" /\ hash \in Temps \cap Known => mustChange

(* Two changes never both replace the same password: the stored hash       *)
(* changes only from the password its author gave as the current one.      *)
ChangesAreSerial ==
  [][panel = "up" /\ panel' = "up" /\ hash' # hash =>
       \E b \in Browsers : req[b].pc = "activate" /\ req[b].cur = hash]_vars

(* What the panel verifies is what the next start will load, unless a      *)
(* change has reported an error since this start.                          *)
MemoryMatchesDisk ==
  panel = "up" /\ changeMu = None /\ ~failedChange => hash = authFile

(* With at most one failed operation, before its rename, and no kill, the  *)
(* stored password is always one that somebody can know.                   *)
AlwaysOpenable ==
  /\ panel \in {"down", "up"} /\ ~Resetting
  /\ ~disturbed /\ faults <= 1 /\ authFile # None
  => authFile \in Known

(* A reset that reports an error leaves both files as it found them.       *)
FailedResetRestores ==
  reset.pc = "error" /\ ~disturbed /\ faults <= 1 =>
    store = <<reset.oldAuth, reset.oldInitial>>

(* The change lock is held exactly while its holder is inside              *)
(* changePassword: no error path leaves it locked, and no two changes run  *)
(* at a time, so a request that waits for it is waiting for one that runs. *)
OneChangeAtATime ==
  \A b \in Browsers :
    req[b].pc \in {"check", "write", "activate", "unmark"} <=> changeMu = b

(* The panel admits what its file holds, the file always holds             *)
(* a password that somebody knows, a generated one only opens the form     *)
(* that replaces it, and the change lock is held by a change that goes on, *)
(* whatever fails, dies or restarts (auth.go, auth_file.go).               *)
PasswordIsUsable ==
  /\ TypeOK
  /\ MemoryMatchesDisk
  /\ AlwaysOpenable
  /\ TemporaryIsForced
  /\ OneChangeAtATime
=============================================================================
