---------------------------- MODULE PanelRestore ----------------------------
(***************************************************************************)
(* The panel handlers that bring archives to the server or put them into   *)
(* use: the upload of a package, mods deploy and rollback, the two restore *)
(* buttons of a saved state, and the restore of an uploaded archive.       *)
(*                                                                         *)
(* A handler is a sequence of ops commands.  A command holds the ops lock  *)
(* and is one step here (OpsLock, StateDeploy and ModsDeploy justify it);  *)
(* nothing is held between two commands of a handler, nor while the        *)
(* handler looks at the stores itself.  The request may be cancelled while *)
(* its command runs: the command goes on without it.                       *)
(***************************************************************************)
EXTENDS Naturals, Sequences

CONSTANTS
  Browsers,    \* operators, one request at a time each
  Packages,    \* mods packages: records with a name and bytes
  States,      \* state archives: a name, bytes and the package they need
  NoFile,      \* no package or archive
  MaxCancels   \* bound: requests cancelled while a command runs

ASSUME PanelRestoreAssumption ==
  /\ \A p \in Packages : DOMAIN p = {"name", "bytes"}
  /\ \A s \in States : DOMAIN s = {"name", "bytes", "ref"} /\ s.ref \in Packages
  /\ NoFile \notin Packages \cup States
  /\ MaxCancels \in Nat

VARIABLES
  tree,        \* the server tree, as far as these commands see it
  lost,        \* the state archives retention has removed
  req,         \* req[b]: the request of browser b
  orphans,     \* commands whose request has been cancelled
  cancels      \* cancelled requests so far

vars == <<tree, lost, req, orphans, cancels>>

(* live is the state archive that was deployed last, NoFile if that was    *)
(* done without regard to the mods in use.                                 *)
Trees ==
  [mods : SUBSET Packages, states : SUBSET States, current : Packages,
   live : States \cup {NoFile}]

(* What each form asks of ops and of the disk, in order.                   *)
Steps ==
  [bundle |-> <<"checkMods", "checkState", "findMods", "importMods", "deployMods",
                "findState", "importState", "deployState">>,
   single |-> <<"checkState", "verify", "findState", "importState", "deployState">>,
   row    |-> <<"list", "deployMods", "deployState">>,
   keep   |-> <<"deployState">>,
   switch |-> <<"deployMods">>,
   upload |-> <<"importMods">>]

Forms == DOMAIN Steps
Calls == {"importMods", "deployMods", "importState", "deployState"}

Requests ==
  [form : Forms, at : {"checkMods", "checkState", "verify", "list", "findMods",
                       "findState", "ok", "error"} \cup Calls,
   mods : Packages \cup {NoFile}, state : States \cup {NoFile}]

(* A command: what it does, the file it is given or the name it is told.   *)
Commands ==
  [op : Calls, file : Packages \cup States, keep : BOOLEAN]

TypeOK ==
  /\ tree \in Trees
  /\ lost \subseteq States
  /\ req \in [Browsers -> Requests]
  /\ orphans \subseteq Commands
  /\ cancels \in 0..MaxCancels

(* The page of an answered request is all that is left of it.              *)
Answer(at) == [form |-> "upload", at |-> at, mods |-> NoFile, state |-> NoFile]

Init ==
  /\ \E p \in Packages :
       tree = [mods |-> {p}, states |-> {}, current |-> p, live |-> NoFile]
  /\ lost = {}
  /\ req = [b \in Browsers |-> Answer("ok")]
  /\ orphans = {}
  /\ cancels = 0

Named(store, n) == {f \in store : f.name = n}

-----------------------------------------------------------------------------
(* What retention leaves, seen from here: everything it was told to        *)
(* protect, the package in use and those of the remaining archives, and of *)
(* the rest any part (BackupStore has the rules).                          *)
Retained(t, packages, archives) ==
  {[t EXCEPT !.states = SM[1], !.mods = SM[2]] :
     SM \in
       {SM \in (SUBSET t.states) \X (SUBSET t.mods) :
          /\ t.states \cap archives \subseteq SM[1]
          /\ t.mods \cap (packages \cup {t.current} \cup {s.ref : s \in SM[1]})
               \subseteq SM[2]}}

Refused(t) == [tree |-> t, ok |-> FALSE]

Done(trees) == {[tree |-> t, ok |-> TRUE] : t \in trees}

(* mods import --name: a name that is taken is refused.                    *)
ModsImport(t, p) ==
  IF Named(t.mods, p.name) = {}
  THEN Done(Retained([t EXCEPT !.mods = @ \cup {p}], {p}, {}))
  ELSE {}

(* Mutant of StateImport: the upload replaces an archive of the same name. *)
StateImportReplaces(t, s) ==
  IF s.ref = t.current /\ s.ref \in t.mods
  THEN Done({[t EXCEPT !.states = (left \ Named(left, s.name)) \cup {s}] :
               left \in SUBSET t.states})
  ELSE {}

(* state import: the archive must need the package in use.                 *)
StateImport(t, s) ==
  IF Named(t.states, s.name) = {} /\ s.ref = t.current /\ s.ref \in t.mods
  THEN Done({[t EXCEPT !.states = left \cup {s}] : left \in SUBSET t.states})
  ELSE {}

(* mods deploy --archive.  The retention of the predeploy backup may take  *)
(* the package away; one more run ends the deploy.                         *)
ModsDeploy(t, n) ==
  UNION {{Refused(u)} \cup
         UNION {Done(Retained([u EXCEPT !.current = p], {}, {})) :
                  p \in Named(u.mods, n)} :
           u \in IF Named(t.mods, n) = {} THEN {} ELSE Retained(t, {}, {})}

Deployed(s, keep) == IF keep THEN NoFile ELSE s

(* Mutant of StateDeploy: the package in use is not compared.              *)
StateDeployUnpaired(t, n, keep) ==
  UNION {LET backedUp == Retained(t, {}, {s})
         IN  {Refused(u) : u \in backedUp}
             \cup Done({[u EXCEPT !.live = Deployed(s, keep)] : u \in backedUp}) :
           s \in Named(t.states, n)}

(* state deploy --archive.  Without --keep-mods the package the archive    *)
(* needs must be the one in use.                                           *)
StateDeploy(t, n, keep) ==
  UNION {LET backedUp == Retained(t, {}, {s})
         IN  {Refused(u) : u \in backedUp}
             \cup Done({[u EXCEPT !.live = Deployed(s, keep)] : u \in backedUp}) :
           s \in {f \in Named(t.states, n) :
                    keep \/ (f.ref = t.current /\ f.ref \in t.mods)}}

(* A command may also fail before it changes anything: locked, no space,   *)
(* upload gone.                                                            *)
Outcomes(c, t) ==
  {Refused(t)} \cup
  CASE c.op = "importMods"  -> ModsImport(t, c.file)
    [] c.op = "importState" -> StateImport(t, c.file)
    [] c.op = "deployMods"  -> ModsDeploy(t, c.file.name)
    [] c.op = "deployState" -> StateDeploy(t, c.file.name, c.keep)

Becomes(t) ==
  /\ tree' = t
  /\ lost' = lost \cup (tree.states \ t.states)

-----------------------------------------------------------------------------
Goto(b, step) ==
  req' = [req EXCEPT ![b] = IF step \in {"ok", "error"} THEN Answer(step)
                            ELSE [@ EXCEPT !.at = step]]

Answered(b) == req[b].at \in {"ok", "error"}

After(b) ==
  LET steps == Steps[req[b].form]
      i     == CHOOSE k \in DOMAIN steps : steps[k] = req[b].at
  IN  IF i = Len(steps) THEN "ok" ELSE steps[i + 1]

(* An operator sends a form.  An upload is any archive under any name; an  *)
(* unnamed one is given a name that is free at the time.  A row or a       *)
(* package is one some page has shown, perhaps long ago.                   *)
Submit(b) ==
  /\ Answered(b)
  /\ \E form \in Forms, m \in Packages, s \in States :
       req' = [req EXCEPT ![b] =
                [form |-> form, at |-> Head(Steps[form]),
                 mods |-> CASE form \in {"bundle", "switch", "upload"} -> m
                            [] form = "row" -> s.ref
                            [] OTHER -> NoFile,
                 state |-> IF form \in {"switch", "upload"} THEN NoFile ELSE s]]
  /\ UNCHANGED <<tree, lost, orphans, cancels>>

(* restoreTargetMatches.                                                   *)
Target(store, file) ==
  IF Named(store, file.name) = {} THEN "absent"
  ELSE IF file \in store THEN "same" ELSE "differs"

(* The parts of a bundle belong together, and no name is taken by other    *)
(* bytes: all of it before anything is changed.                            *)
Check(b) ==
  /\ \/ /\ req[b].at = "checkMods"
        /\ req[b].state.ref = req[b].mods
        /\ Target(tree.mods, req[b].mods) # "differs"
     \/ req[b].at = "checkState" /\ Target(tree.states, req[b].state) # "differs"
     \/ /\ req[b].at = "verify"
        /\ req[b].state.ref = tree.current /\ tree.current \in tree.mods
  /\ Goto(b, After(b))
  /\ UNCHANGED <<tree, lost, orphans, cancels>>

(* ensureRestoreMods, ensureRestoreState: an archive that is already there *)
(* is used as it is.                                                       *)
Find(b) ==
  /\ \E mods \in BOOLEAN :
       LET found == IF mods THEN Target(tree.mods, req[b].mods)
                            ELSE Target(tree.states, req[b].state)
       IN  /\ req[b].at = (IF mods THEN "findMods" ELSE "findState")
           /\ \/ found = "absent" /\ Goto(b, After(b))
              \/ found = "same" /\ Goto(b, IF mods THEN "deployMods" ELSE "deployState")
  /\ UNCHANGED <<tree, lost, orphans, cancels>>

(* handleStateDeploy: the package is deployed first unless backups list    *)
(* says it is in use.                                                      *)
ListMods(b) ==
  /\ req[b].at = "list"
  /\ Goto(b, IF tree.current.name = req[b].mods.name THEN "deployState" ELSE After(b))
  /\ UNCHANGED <<tree, lost, orphans, cancels>>

(* What the handler looked at does not permit to go on, or could not be    *)
(* read.                                                                   *)
GiveUp(b) ==
  /\ ~Answered(b)
  /\ req[b].at \notin Calls
  /\ Goto(b, "error")
  /\ UNCHANGED <<tree, lost, orphans, cancels>>

Command(b) ==
  [op   |-> req[b].at,
   file |-> IF req[b].at \in {"importMods", "deployMods"} THEN req[b].mods
                                                          ELSE req[b].state,
   keep |-> req[b].form = "keep"]

(* One ops command, from sudo to the decoded answer.                       *)
Call(b) ==
  /\ req[b].at \in Calls
  /\ \E o \in Outcomes(Command(b), tree) :
       /\ Becomes(o.tree)
       /\ Goto(b, IF o.ok THEN After(b) ELSE "error")
  /\ UNCHANGED <<orphans, cancels>>

(* The browser goes away or the call times out.  sudo is killed; ops, run  *)
(* by another user, may not be.                                            *)
Cancel(b) ==
  /\ req[b].at \in Calls
  /\ cancels < MaxCancels
  /\ cancels' = cancels + 1
  /\ orphans' = orphans \cup {Command(b)}
  /\ Goto(b, "error")
  /\ UNCHANGED <<tree, lost>>

Orphan ==
  /\ \E c \in orphans : \E o \in Outcomes(c, tree) :
       Becomes(o.tree) /\ orphans' = orphans \ {c}
  /\ UNCHANGED <<req, cancels>>

(* Commands that bring no archive a request names: the backup timer,       *)
(* backups create, backups prune.                                          *)
Backup ==
  /\ \E t \in Retained(tree, {}, {}) : Becomes(t)
  /\ UNCHANGED <<req, orphans, cancels>>

Next ==
  \/ Orphan
  \/ Backup
  \/ \E b \in Browsers :
       \/ Submit(b) \/ Check(b) \/ Find(b) \/ ListMods(b)
       \/ GiveUp(b) \/ Call(b) \/ Cancel(b)

Spec == Init /\ [][Next]_vars

-----------------------------------------------------------------------------
(* Archives are known by their names, to players and to one another: two   *)
(* contents never share one, and none takes the place of another, although *)
(* the panel looks for a free name long before ops uses it.                *)
NamesStayTrue ==
  [][/\ \A p \in tree'.mods, q \in tree.mods : p.name = q.name => p = q
     /\ \A s \in tree'.states, r \in tree.states : s.name = r.name => s = r]_vars

(* Whatever other operators deploy between the commands of a restore, and  *)
(* whatever cancelled commands still do: a state is only ever put under    *)
(* the mods it was saved with, unless the operator asked for the state     *)
(* alone; and their package is there for the players to download.  A       *)
(* restore of an upload that reports success has put the uploaded bytes to *)
(* use, not another archive of that name; only retention may have let that *)
(* happen, by removing the upload before it was deployed.                  *)
StatePairsWithMods ==
  tree'.live \notin {tree.live, NoFile} =>
    /\ tree'.current = tree'.live.ref
    /\ tree'.current \in tree'.mods

RestoredIsUploaded ==
  \A b \in Browsers :
    req[b].form \in {"bundle", "single"} /\ ~Answered(b) /\ req'[b].at = "ok" =>
      tree'.live = req[b].state \/ req[b].state \in lost

RestoredAsAsked == [][StatePairsWithMods /\ RestoredIsUploaded]_vars
=============================================================================
