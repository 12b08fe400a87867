------------------------- MODULE PanelRestoreProofs -------------------------
(***************************************************************************)
(* Proofs about PanelRestore, for any operators, packages, archives and    *)
(* number of cancelled requests: names stay true, and what a restore       *)
(* reports is what the server runs.                                        *)
(*                                                                         *)
(* Neither property is about one state, and neither is inductive alone.    *)
(* RestoreInv says that the stores are Sound (one content per name, the    *)
(* package in use is kept), that a request stands at a step of its form    *)
(* with the files that step needs, that a command without its request      *)
(* still has the file it was given, and that an uploaded state about to be *)
(* deployed was in the store once: what other operators do meanwhile can   *)
(* only have let retention remove it.                                      *)
(***************************************************************************)
EXTENDS PanelRestore, TLAPS

-----------------------------------------------------------------------------
(* What one command makes of the server tree.                              *)
Sound(t) ==
  /\ t \in Trees
  /\ \A p, q \in t.mods : p.name = q.name => p = q
  /\ \A s, r \in t.states : s.name = r.name => s = r
  /\ t.current \in t.mods

(* No name changes its content, and only a state with its mods goes live.  *)
Keeps(t, u) ==
  /\ \A p \in u.mods, q \in t.mods : p.name = q.name => p = q
  /\ \A s \in u.states, r \in t.states : s.name = r.name => s = r
  /\ u.live \notin {t.live, NoFile} => u.current = u.live.ref

(* What is left of t when nothing but retention ran.                       *)
Thinned(t, u) ==
  /\ u \in Trees
  /\ u.states \subseteq t.states
  /\ u.mods \subseteq t.mods
  /\ u.current = t.current
  /\ u.live = t.live
  /\ t.mods \cap {t.current} \subseteq u.mods

LEMMA RetainedThins ==
  ASSUME NEW t, t \in Trees, NEW packages, NEW archives,
         NEW u \in Retained(t, packages, archives)
  PROVE  /\ Thinned(t, u)
         /\ t.states \cap archives \subseteq u.states
         /\ t.mods \cap packages \subseteq u.mods
<1>1. PICK SM \in (SUBSET t.states) \X (SUBSET t.mods) :
        /\ t.states \cap archives \subseteq SM[1]
        /\ t.mods \cap (packages \cup {t.current} \cup {s.ref : s \in SM[1]}) \subseteq SM[2]
        /\ u = [t EXCEPT !.states = SM[1], !.mods = SM[2]]
  BY DEF Retained
<1>2. /\ u.states = SM[1] /\ u.mods = SM[2]
      /\ u.current = t.current /\ u.live = t.live
      /\ u \in Trees
  BY <1>1 DEF Trees
<1>3. SM[1] \subseteq t.states /\ SM[2] \subseteq t.mods
  BY <1>1
<1> HIDE DEF Trees
<1>4. t.mods \cap packages \subseteq SM[2] /\ t.mods \cap {t.current} \subseteq SM[2]
  BY <1>1
<1> QED  BY <1>1, <1>2, <1>3, <1>4 DEF Thinned

LEMMA ThinnedSound ==
  ASSUME NEW t, NEW v, NEW u, Sound(v), Keeps(t, v), Thinned(v, u)
  PROVE  Sound(u) /\ Keeps(t, u)
BY DEF Sound, Keeps, Thinned

LEMMA KeepsItself ==
  ASSUME NEW t, Sound(t)
  PROVE  Keeps(t, t)
BY DEF Sound, Keeps

(* Retention alone disturbs nothing.                                       *)
LEMMA RetainedSound ==
  ASSUME NEW t, NEW v, Sound(v), Keeps(t, v),
         NEW packages, NEW archives, NEW u \in Retained(v, packages, archives)
  PROVE  Sound(u) /\ Keeps(t, u)
<1>1. v \in Trees
  BY DEF Sound
<1>2. Thinned(v, u)
  BY <1>1, RetainedThins
<1> QED
  BY <1>2, ThinnedSound

LEMMA ImportModsOutcome ==
  ASSUME NEW t, Sound(t), NEW p \in Packages, NEW o \in ModsImport(t, p)
  PROVE  Sound(o.tree) /\ Keeps(t, o.tree)
<1> DEFINE v == [t EXCEPT !.mods = @ \cup {p}]
<1>1. Named(t.mods, p.name) = {} /\ o \in Done(Retained(v, {p}, {}))
  BY DEF ModsImport
<1>2. PICK u \in Retained(v, {p}, {}) : o = [tree |-> u, ok |-> TRUE]
  BY <1>1 DEF Done
<1>3. /\ v.mods = t.mods \cup {p} /\ v.states = t.states
      /\ v.current = t.current /\ v.live = t.live /\ v \in Trees
  BY DEF Sound, Trees
<1>4. \A q \in t.mods : q.name # p.name
  BY <1>1 DEF Named
<1> HIDE DEF v
<1>5. Sound(v)
  BY <1>3, <1>4 DEF Sound
<1>6. Keeps(t, v)
  BY <1>3, <1>4 DEF Sound, Keeps
<1>7. Sound(u) /\ Keeps(t, u)
  BY <1>5, <1>6, <1>2, RetainedSound
<1> QED
  BY <1>2, <1>7

LEMMA ImportStateOutcome ==
  ASSUME NEW t, Sound(t), NEW s \in States, NEW o \in StateImport(t, s)
  PROVE  Sound(o.tree) /\ Keeps(t, o.tree) /\ s \in o.tree.states
<1>1. Named(t.states, s.name) = {}
  BY DEF StateImport
<1>2. PICK left \in SUBSET t.states :
        o = [tree |-> [t EXCEPT !.states = left \cup {s}], ok |-> TRUE]
  BY DEF StateImport, Done
<1> DEFINE u == [t EXCEPT !.states = left \cup {s}]
<1>3. /\ u.mods = t.mods /\ u.states = left \cup {s}
      /\ u.current = t.current /\ u.live = t.live /\ u \in Trees
  BY DEF Sound, Trees
<1>4. o.tree = u
  BY <1>2
<1>5. \A r \in t.states : r.name # s.name
  BY <1>1 DEF Named
<1> HIDE DEF u
<1>6. Sound(u) /\ Keeps(t, u)
  BY <1>3, <1>5 DEF Sound, Keeps
<1> QED
  BY <1>3, <1>4, <1>6

LEMMA DeployModsOutcome ==
  ASSUME NEW t, Sound(t), NEW n, NEW o \in ModsDeploy(t, n)
  PROVE  Sound(o.tree) /\ Keeps(t, o.tree)
<1> DEFINE Runs(u) == UNION {Done(Retained([u EXCEPT !.current = p], {}, {})) :
                                p \in Named(u.mods, n)}
<1>0. PICK u \in Retained(t, {}, {}) : o \in {Refused(u)} \cup Runs(u)
  BY DEF ModsDeploy
<1>1. \/ o = Refused(u)
      \/ \E p \in Named(u.mods, n) : o \in Done(Retained([u EXCEPT !.current = p], {}, {}))
  BY <1>0
<1>2. Sound(u) /\ Keeps(t, u)
  BY KeepsItself, RetainedSound
<1>3. CASE o = Refused(u)
  BY <1>2, <1>3 DEF Refused
<1>4. CASE \E p \in Named(u.mods, n) : o \in Done(Retained([u EXCEPT !.current = p], {}, {}))
  <2>1. PICK p \in Named(u.mods, n) : o \in Done(Retained([u EXCEPT !.current = p], {}, {}))
    BY <1>4
  <2> DEFINE v == [u EXCEPT !.current = p]
  <2>2. PICK w \in Retained(v, {}, {}) : o = [tree |-> w, ok |-> TRUE]
    BY <2>1 DEF Done
  <2>3. p \in u.mods
    BY DEF Named
  <2>4. /\ v.mods = u.mods /\ v.states = u.states
        /\ v.current = p /\ v.live = u.live /\ v \in Trees
    BY <1>2, <2>3 DEF Sound, Trees
  <2>5. u.live \in {t.live, NoFile} \/ u.live = t.live
    <3>1. Thinned(t, u)
      BY RetainedThins DEF Sound
    <3> QED
      BY <3>1 DEF Thinned
  <2> HIDE DEF v
  <2>6. Sound(v) /\ Keeps(t, v)
    BY <1>2, <2>3, <2>4, <2>5 DEF Sound, Keeps
  <2>7. Sound(w) /\ Keeps(t, w)
    BY <2>6, RetainedSound
  <2> QED
    BY <2>2, <2>7
<1> QED
  BY <1>1, <1>3, <1>4

LEMMA DeployStateOutcome ==
  ASSUME NEW t, Sound(t), NEW n, NEW keep \in BOOLEAN, NEW o \in StateDeploy(t, n, keep)
  PROVE  /\ Sound(o.tree) /\ Keeps(t, o.tree)
         /\ o.ok /\ ~keep => o.tree.live \in Named(t.states, n)
<1> DEFINE Ends(s) ==
      {Refused(u) : u \in Retained(t, {}, {s})}
      \cup Done({[u EXCEPT !.live = Deployed(s, keep)] : u \in Retained(t, {}, {s})})
<1>0. PICK s \in {f \in Named(t.states, n) : keep \/ (f.ref = t.current /\ f.ref \in t.mods)} :
        o \in Ends(s)
  BY DEF StateDeploy
<1>1. keep \/ (s.ref = t.current /\ s.ref \in t.mods)
  OBVIOUS
<1>2. PICK u \in Retained(t, {}, {s}) :
        \/ o = Refused(u)
        \/ o = [tree |-> [u EXCEPT !.live = Deployed(s, keep)], ok |-> TRUE]
  BY <1>0 DEF Done
<1>3. Sound(u) /\ Keeps(t, u)
  BY KeepsItself, RetainedSound
<1>4. CASE o = Refused(u)
  BY <1>3, <1>4 DEF Refused
<1>5. CASE o = [tree |-> [u EXCEPT !.live = Deployed(s, keep)], ok |-> TRUE]
  <2> DEFINE v == [u EXCEPT !.live = Deployed(s, keep)]
  <2>1. s \in States
    BY DEF Named, Sound, Trees
  <2>2. Deployed(s, keep) \in States \cup {NoFile}
    BY <2>1 DEF Deployed
  <2>3. /\ v.mods = u.mods /\ v.states = u.states
        /\ v.current = u.current /\ v.live = Deployed(s, keep) /\ v \in Trees
    BY <1>3, <2>2 DEF Sound, Trees
  <2>4. u.current = t.current
    <3>1. Thinned(t, u)
      BY RetainedThins DEF Sound
    <3> QED
      BY <3>1 DEF Thinned
  <2>5. o.tree = v
    BY <1>5
  <2> HIDE DEF v
  <2>6. Sound(v)
    BY <1>3, <2>3 DEF Sound
  <2>7. Keeps(t, v)
    BY <1>1, <1>3, <2>3, <2>4 DEF Keeps, Deployed
  <2>8. ~keep => v.live = s
    BY <2>3 DEF Deployed
  <2> QED
    BY <2>5, <2>6, <2>7, <2>8
<1> QED
  BY <1>2, <1>4, <1>5

(* A command is given a file of the kind it asks for.                      *)
GivenFiles(c) ==
  /\ c.op \in Calls
  /\ c.keep \in BOOLEAN
  /\ c.op \in {"importMods", "deployMods"} => c.file \in Packages
  /\ c.op \in {"importState", "deployState"} => c.file \in States

(* Whatever a command does, the stores stay sound; a state archive it      *)
(* brought is there afterwards, and the one it deployed has the name it    *)
(* was told.                                                               *)
LEMMA OutcomesSound ==
  ASSUME NEW t, Sound(t), NEW c, GivenFiles(c), NEW o \in Outcomes(c, t)
  PROVE  /\ Sound(o.tree) /\ Keeps(t, o.tree)
         /\ o.ok /\ c.op = "importState" => c.file \in o.tree.states
         /\ o.ok /\ c.op = "deployState" /\ ~c.keep =>
              o.tree.live \in Named(t.states, c.file.name)
<1>1. CASE o = Refused(t)
  <2>1. o.tree = t /\ ~o.ok
    BY <1>1 DEF Refused
  <2> QED
    BY <2>1, KeepsItself
<1>2. CASE c.op = "importMods" /\ o \in ModsImport(t, c.file)
  BY <1>2, ImportModsOutcome DEF GivenFiles
<1>3. CASE c.op = "importState" /\ o \in StateImport(t, c.file)
  BY <1>3, ImportStateOutcome DEF GivenFiles
<1>4. CASE c.op = "deployMods" /\ o \in ModsDeploy(t, c.file.name)
  BY <1>4, DeployModsOutcome
<1>5. CASE c.op = "deployState" /\ o \in StateDeploy(t, c.file.name, c.keep)
  BY <1>5, DeployStateOutcome DEF GivenFiles
<1> QED
  BY <1>1, <1>2, <1>3, <1>4, <1>5 DEF Outcomes, GivenFiles, Calls

-----------------------------------------------------------------------------
(* Where a request stands.                                                 *)
Reached(r) == \E k \in DOMAIN Steps[r.form] : Steps[r.form][k] = r.at

Underway(r) ==
  /\ r.form \in Forms
  /\ Reached(r)
  /\ r.form \in {"bundle", "switch", "upload", "row"} => r.mods \in Packages
  /\ r.form \notin {"switch", "upload"} => r.state \in States

Uploads == {"bundle", "single"}

(* The uploaded state a request is about to deploy has been in the store.  *)
Delivered(r) ==
  r.form \in Uploads /\ r.at = "deployState" => r.state \in tree.states \cup lost

RestoreInv ==
  /\ TypeOK
  /\ Sound(tree)
  /\ \A c \in orphans : GivenFiles(c)
  /\ \A b \in Browsers : ~Answered(b) => Underway(req[b]) /\ Delivered(req[b])

(* The steps of a form, one by one.                                        *)
LEMMA FormSteps ==
  /\ Forms = {"bundle", "single", "row", "keep", "switch", "upload"}
  /\ Steps["bundle"] = <<"checkMods", "checkState", "findMods", "importMods", "deployMods",
                         "findState", "importState", "deployState">>
  /\ Steps["single"] = <<"checkState", "verify", "findState", "importState", "deployState">>
  /\ Steps["row"] = <<"list", "deployMods", "deployState">>
  /\ Steps["keep"] = <<"deployState">>
  /\ Steps["switch"] = <<"deployMods">>
  /\ Steps["upload"] = <<"importMods">>
BY DEF Forms, Steps

LEMMA StepsAre ==
  ASSUME NEW form \in Forms
  PROVE  /\ Len(Steps[form]) \in Nat \ {0}
         /\ DOMAIN Steps[form] = 1..Len(Steps[form])
         /\ Head(Steps[form]) = Steps[form][1]
<1>1. CASE form = "bundle"
  BY <1>1, FormSteps
<1>2. CASE form = "single"
  BY <1>2, FormSteps
<1>3. CASE form = "row"
  BY <1>3, FormSteps
<1>4. CASE form = "keep"
  BY <1>4, FormSteps
<1>5. CASE form = "switch"
  BY <1>5, FormSteps
<1>6. CASE form = "upload"
  BY <1>6, FormSteps
<1> QED
  BY <1>1, <1>2, <1>3, <1>4, <1>5, <1>6, FormSteps

(* Every step is one the request may stand at; those that name a file name *)
(* it in forms that have it.                                               *)
Places == {"checkMods", "checkState", "verify", "list", "findMods", "findState"} \cup Calls

LEMMA StepsTyped ==
  ASSUME NEW form \in Forms, NEW k \in DOMAIN Steps[form]
  PROVE  /\ Steps[form][k] \in Places
         /\ Steps[form][k] \in {"importMods", "deployMods", "findMods"} =>
              form \in {"bundle", "switch", "upload", "row"}
         /\ Steps[form][k] \in {"importState", "deployState", "findState", "list"} =>
              form \notin {"switch", "upload"}
         /\ Steps[form][k] = "findMods" => form = "bundle"
         /\ Steps[form][k] = "list" => form = "row"
<1> USE DEF Places, Calls
<1>1. CASE form = "bundle"
  BY <1>1, FormSteps
<1>2. CASE form = "single"
  BY <1>2, FormSteps
<1>3. CASE form = "row"
  BY <1>3, FormSteps
<1>4. CASE form = "keep"
  BY <1>4, FormSteps
<1>5. CASE form = "switch"
  BY <1>5, FormSteps
<1>6. CASE form = "upload"
  BY <1>6, FormSteps
<1> QED
  BY <1>1, <1>2, <1>3, <1>4, <1>5, <1>6, FormSteps

(* A restore of an upload deploys the state only after it has imported it, *)
(* and says ok only after it has deployed it.                              *)
LEMMA UploadOrder ==
  ASSUME NEW form \in Uploads, NEW k \in DOMAIN Steps[form]
  PROVE  /\ k = Len(Steps[form]) => Steps[form][k] = "deployState"
         /\ k # Len(Steps[form]) /\ Steps[form][k + 1] = "deployState" =>
              Steps[form][k] = "importState"
<1>1. CASE form = "bundle"
  BY <1>1, FormSteps
<1>2. CASE form = "single"
  BY <1>2, FormSteps
<1> QED
  BY <1>1, <1>2 DEF Uploads

LEMMA FindThenDeploy ==
  ASSUME NEW form \in Forms, NEW k \in DOMAIN Steps[form], Steps[form][k] = "findState"
  PROVE  \E i \in DOMAIN Steps[form] : Steps[form][i] = "deployState"
<1>1. CASE form = "bundle"
  <2>1. 8 \in DOMAIN Steps["bundle"] /\ Steps["bundle"][8] = "deployState"
    BY FormSteps
  <2> QED
    BY <1>1, <2>1
<1>2. CASE form = "single"
  <2>1. 5 \in DOMAIN Steps["single"] /\ Steps["single"][5] = "deployState"
    BY FormSteps
  <2> QED
    BY <1>2, <2>1
<1>3. form \in {"bundle", "single"}
  BY FormSteps
<1> QED
  BY <1>1, <1>2, <1>3

LEMMA AfterIsNext ==
  ASSUME NEW b, Underway(req[b])
  PROVE  /\ \/ After(b) = "ok"
            \/ \E k \in DOMAIN Steps[req[b].form] : Steps[req[b].form][k] = After(b)
         /\ req[b].form \in Uploads /\ After(b) = "ok" => req[b].at = "deployState"
         /\ req[b].form \in Uploads /\ After(b) = "deployState" =>
              req[b].at = "importState"
<1> DEFINE form == req[b].form
           k == CHOOSE i \in DOMAIN Steps[form] : Steps[form][i] = req[b].at
<1>1. k \in DOMAIN Steps[form] /\ Steps[form][k] = req[b].at
  BY DEF Underway, Reached
<1>2. After(b) = IF k = Len(Steps[form]) THEN "ok" ELSE Steps[form][k + 1]
  BY DEF After
<1>3. form \in Forms
  BY DEF Underway
<1> HIDE DEF k, form
<1>4. k # Len(Steps[form]) => k + 1 \in DOMAIN Steps[form]
  BY <1>1, <1>3, StepsAre
<1>5. k # Len(Steps[form]) => Steps[form][k + 1] \in Places
  BY <1>3, <1>4, StepsTyped
<1>6. k # Len(Steps[form]) => After(b) # "ok"
  BY <1>2, <1>5 DEF Places, Calls
<1>7. \/ After(b) = "ok"
      \/ \E i \in DOMAIN Steps[form] : Steps[form][i] = After(b)
  BY <1>2, <1>4
<1>8. ASSUME form \in Uploads, After(b) = "ok"
      PROVE  req[b].at = "deployState"
  BY <1>1, <1>6, <1>8, UploadOrder
<1>9. ASSUME form \in Uploads, After(b) = "deployState"
      PROVE  req[b].at = "importState"
  BY <1>1, <1>2, <1>9, UploadOrder
<1> QED
  BY <1>7, <1>8, <1>9 DEF form

-----------------------------------------------------------------------------
(* What every step of a request leaves: it stands where its form lets it,  *)
(* and what was in the store once is there or was removed by retention.    *)
Placed == \A b \in Browsers : ~Answered(b) => Underway(req[b]) /\ Delivered(req[b])

Stored == tree.states \cup lost

LEMMA GotoStays ==
  ASSUME RestoreInv, NEW b \in Browsers, NEW step, ~Answered(b), Goto(b, step),
         Stored \subseteq Stored',
         \/ step \in {"ok", "error"}
         \/ \E k \in DOMAIN Steps[req[b].form] : Steps[req[b].form][k] = step,
         req[b].form \in Uploads /\ step = "deployState" => req[b].state \in Stored'
  PROVE  Placed' /\ req' \in [Browsers -> Requests]
<1>1. req \in [Browsers -> Requests] /\ Underway(req[b])
  BY DEF RestoreInv, TypeOK
<1> DEFINE r == IF step \in {"ok", "error"} THEN Answer(step) ELSE [req[b] EXCEPT !.at = step]
<1>2. req' = [req EXCEPT ![b] = r]
  BY DEF Goto
<1>3. CASE step \in {"ok", "error"}
  <2>1. r = Answer(step)
    BY <1>3
  <2>2. Answer(step).at = step
    BY DEF Answer
  <2>3. Answer(step) \in Requests
    BY <1>3, FormSteps DEF Answer, Requests
  <2> HIDE DEF r
  <2>4. req' \in [Browsers -> Requests] /\ req'[b].at = step
    BY <1>1, <1>2, <2>1, <2>2, <2>3
  <2>5. ASSUME NEW x \in Browsers, ~Answered(x)' PROVE (Underway(req[x]) /\ Delivered(req[x]))'
    <3>1. x # b
      BY <1>3, <2>4, <2>5 DEF Answered
    <3>2. req'[x] = req[x]
      BY <1>1, <1>2, <3>1
    <3>3. Underway(req[x]) /\ Delivered(req[x])
      BY <2>5, <3>2 DEF RestoreInv, Answered
    <3> QED
      BY <3>2, <3>3 DEF Delivered, Stored, Underway, Reached
  <2> QED
    BY <2>4, <2>5 DEF Placed
<1>4. CASE step \notin {"ok", "error"}
  <2>1. r = [req[b] EXCEPT !.at = step]
    BY <1>4
  <2>2. PICK k \in DOMAIN Steps[req[b].form] : Steps[req[b].form][k] = step
    BY <1>4
  <2>3. req[b].form \in Forms
    BY <1>1 DEF Underway
  <2>4. step \in Places
    BY <2>2, <2>3, StepsTyped
  <2>5. req[b] \in Requests
    BY <1>1
  <2>6. /\ r.form = req[b].form /\ r.at = step
        /\ r.mods = req[b].mods /\ r.state = req[b].state
        /\ r \in Requests
    BY <2>1, <2>4, <2>5 DEF Requests, Places
  <2> HIDE DEF r
  <2>7. req' \in [Browsers -> Requests] /\ req'[b] = r
    BY <1>1, <1>2, <2>6
  <2>8. (Underway(req[b]) /\ Delivered(req[b]))'
    <3>1. Underway(r)
      BY <1>1, <2>2, <2>6 DEF Underway, Reached
    <3>2. r.form \in Uploads /\ r.at = "deployState" => r.state \in Stored'
      BY <2>6
    <3> QED
      BY <2>7, <3>1, <3>2 DEF Delivered, Stored, Underway, Reached
  <2>9. ASSUME NEW x \in Browsers, x # b, ~Answered(x)'
        PROVE  (Underway(req[x]) /\ Delivered(req[x]))'
    <3>1. req'[x] = req[x]
      BY <1>1, <1>2, <2>9
    <3>2. Underway(req[x]) /\ Delivered(req[x])
      BY <2>9, <3>1 DEF RestoreInv, Answered
    <3> QED
      BY <3>1, <3>2 DEF Delivered, Stored, Underway, Reached
  <2> QED
    BY <2>7, <2>8, <2>9 DEF Placed
<1> QED
  BY <1>3, <1>4

(* A tree that takes the place of the old one.                             *)
LEMMA BecomesSound ==
  ASSUME RestoreInv, NEW t, Sound(t), Becomes(t)
  PROVE  Sound(tree') /\ lost' \subseteq States /\ tree' \in Trees /\ Stored \subseteq Stored'
<1>1. tree \in Trees /\ lost \subseteq States
  BY DEF RestoreInv, TypeOK
<1>2. tree' = t /\ lost' = lost \cup (tree.states \ t.states)
  BY DEF Becomes
<1>3. tree.states \subseteq States
  BY <1>1 DEF Trees
<1>4. Sound(tree')
  BY <1>2
<1> QED
  BY <1>1, <1>2, <1>3, <1>4 DEF Stored, Sound

LEMMA CommandGiven ==
  ASSUME RestoreInv, NEW b \in Browsers, req[b].at \in Calls
  PROVE  GivenFiles(Command(b)) /\ Command(b) \in Commands
<1>1. Underway(req[b])
  BY DEF RestoreInv, Answered, Calls
<1>2. PICK k \in DOMAIN Steps[req[b].form] : Steps[req[b].form][k] = req[b].at
  BY <1>1 DEF Underway, Reached
<1>3. req[b].form \in Forms
  BY <1>1 DEF Underway
<1>4. /\ req[b].at \in {"importMods", "deployMods"} => req[b].mods \in Packages
      /\ req[b].at \in {"importState", "deployState"} => req[b].state \in States
  BY <1>1, <1>2, <1>3, StepsTyped DEF Underway
<1>5. /\ Command(b).op = req[b].at
      /\ Command(b).keep = (req[b].form = "keep")
      /\ Command(b).file = IF req[b].at \in {"importMods", "deployMods"} THEN req[b].mods
                                                                       ELSE req[b].state
  BY DEF Command
<1>6. Command(b).keep \in BOOLEAN
  BY <1>5
<1>7. Command(b).file \in Packages \cup States
  BY <1>4, <1>5 DEF Calls
<1>8. Command(b) = [op |-> Command(b).op, file |-> Command(b).file, keep |-> Command(b).keep]
  BY DEF Command
<1> QED
  BY <1>4, <1>5, <1>6, <1>7, <1>8 DEF GivenFiles, Commands, Calls

-----------------------------------------------------------------------------
(* The steps.                                                              *)
RestoreStep ==
  /\ RestoreInv'
  /\ Keeps(tree, tree')
  /\ RestoredIsUploaded

(* A step of a handler that looks but does not touch.                      *)
LEMMA LookStays ==
  ASSUME RestoreInv, NEW b \in Browsers, NEW step, ~Answered(b), Goto(b, step),
         UNCHANGED <<tree, lost, orphans, cancels>>,
         \/ step \in {"ok", "error"}
         \/ \E k \in DOMAIN Steps[req[b].form] : Steps[req[b].form][k] = step,
         req[b].form \in Uploads => step # "ok",
         req[b].form \in Uploads /\ step = "deployState" => req[b].state \in tree.states
  PROVE  RestoreStep
<1>1. Stored' = Stored
  BY DEF Stored
<1>2. Placed' /\ req' \in [Browsers -> Requests]
  BY <1>1, GotoStays DEF Stored
<1>3. RestoreInv'
  BY <1>2 DEF RestoreInv, TypeOK, Placed, Sound, Trees, Named
<1>4. Keeps(tree, tree')
  BY KeepsItself DEF RestoreInv
<1>5. RestoredIsUploaded
  <2> SUFFICES ASSUME NEW x \in Browsers, req[x].form \in Uploads, ~Answered(x), req'[x].at = "ok"
               PROVE  FALSE
    BY DEF RestoredIsUploaded, Uploads
  <2>1. req \in [Browsers -> Requests]
    BY DEF RestoreInv, TypeOK
  <2>2. CASE x = b
    <3>1. req'[b] = IF step \in {"ok", "error"} THEN Answer(step) ELSE [req[b] EXCEPT !.at = step]
      BY <2>1 DEF Goto
    <3>2. req'[b].at = step
      BY <2>1, <3>1 DEF Answer, Requests
    <3> QED
      BY <2>2, <3>2
  <2>3. CASE x # b
    <3>1. req'[x] = req[x]
      BY <2>1, <2>3 DEF Goto
    <3> QED
      BY <3>1 DEF Answered
  <2> QED
    BY <2>2, <2>3
<1> QED
  BY <1>3, <1>4, <1>5 DEF RestoreStep

(* Going on after a step that is neither an import nor a deploy.           *)
LEMMA LookGoesOn ==
  ASSUME RestoreInv, NEW b \in Browsers, ~Answered(b), req[b].at \notin Calls,
         Goto(b, After(b)), UNCHANGED <<tree, lost, orphans, cancels>>
  PROVE  RestoreStep
<1>1. Underway(req[b])
  BY DEF RestoreInv
<1>2. /\ req[b].form \in Uploads => After(b) # "ok"
      /\ req[b].form \in Uploads => After(b) # "deployState"
  BY <1>1, AfterIsNext DEF Calls
<1>3. \/ After(b) \in {"ok", "error"}
      \/ \E k \in DOMAIN Steps[req[b].form] : Steps[req[b].form][k] = After(b)
  BY <1>1, AfterIsNext
<1> QED
  BY <1>2, <1>3, LookStays

LEMMA CheckStep ==
  ASSUME RestoreInv, NEW b \in Browsers, Check(b)
  PROVE  RestoreStep
<1>1. /\ req[b].at \in {"checkMods", "checkState", "verify"}
      /\ Goto(b, After(b)) /\ UNCHANGED <<tree, lost, orphans, cancels>>
  BY DEF Check
<1>2. ~Answered(b) /\ req[b].at \notin Calls
  BY <1>1 DEF Answered, Calls
<1> QED
  BY <1>1, <1>2, LookGoesOn

LEMMA FindStep ==
  ASSUME RestoreInv, NEW b \in Browsers, Find(b)
  PROVE  RestoreStep
<1>1. PICK mods \in BOOLEAN :
        LET found == IF mods THEN Target(tree.mods, req[b].mods)
                             ELSE Target(tree.states, req[b].state)
        IN  /\ req[b].at = (IF mods THEN "findMods" ELSE "findState")
            /\ \/ found = "absent" /\ Goto(b, After(b))
               \/ found = "same" /\ Goto(b, IF mods THEN "deployMods" ELSE "deployState")
  BY DEF Find
<1>2. UNCHANGED <<tree, lost, orphans, cancels>>
  BY DEF Find
<1>3. req[b].at \in {"findMods", "findState"}
  BY <1>1
<1>4. ~Answered(b) /\ req[b].at \notin Calls
  BY <1>3 DEF Answered, Calls
<1>5. Underway(req[b])
  BY <1>4 DEF RestoreInv
<1>6. PICK k \in DOMAIN Steps[req[b].form] : Steps[req[b].form][k] = req[b].at
  BY <1>5 DEF Underway, Reached
<1>7. req[b].form \in Forms
  BY <1>5 DEF Underway
<1>8. CASE Goto(b, After(b))
  BY <1>2, <1>4, <1>8, LookGoesOn
<1>9. CASE mods /\ Goto(b, "deployMods")
  <2>1. req[b].form = "bundle"
    BY <1>1, <1>6, <1>7, <1>9, StepsTyped
  <2>2. \E i \in DOMAIN Steps["bundle"] : Steps["bundle"][i] = "deployMods"
    <3>1. 5 \in DOMAIN Steps["bundle"] /\ Steps["bundle"][5] = "deployMods"
      BY FormSteps
    <3> QED
      BY <3>1
  <2> QED
    BY <1>2, <1>4, <1>9, <2>1, <2>2, LookStays
<1>10. CASE ~mods /\ Goto(b, "deployState") /\ Target(tree.states, req[b].state) = "same"
  <2>1. req[b].state \in tree.states
    BY <1>10 DEF Target
  <2>2. req[b].at = "findState"
    BY <1>1, <1>10
  <2>3. \E i \in DOMAIN Steps[req[b].form] : Steps[req[b].form][i] = "deployState"
    BY <1>6, <1>7, <2>2, FindThenDeploy
  <2> QED
    BY <1>2, <1>4, <1>10, <2>1, <2>3, LookStays
<1> QED
  BY <1>1, <1>8, <1>9, <1>10

LEMMA ListStep ==
  ASSUME RestoreInv, NEW b \in Browsers, ListMods(b)
  PROVE  RestoreStep
<1>1. /\ req[b].at = "list" /\ UNCHANGED <<tree, lost, orphans, cancels>>
      /\ Goto(b, After(b)) \/ Goto(b, "deployState")
  BY DEF ListMods
<1>2. ~Answered(b) /\ req[b].at \notin Calls
  BY <1>1 DEF Answered, Calls
<1>3. Underway(req[b])
  BY <1>2 DEF RestoreInv
<1>4. PICK k \in DOMAIN Steps[req[b].form] : Steps[req[b].form][k] = req[b].at
  BY <1>3 DEF Underway, Reached
<1>5. req[b].form = "row"
  BY <1>1, <1>3, <1>4, StepsTyped DEF Underway
<1>6. 3 \in DOMAIN Steps["row"] /\ Steps["row"][3] = "deployState" /\ "row" \notin Uploads
  BY FormSteps DEF Uploads
<1>7. CASE Goto(b, After(b))
  BY <1>1, <1>2, <1>7, LookGoesOn
<1>8. CASE Goto(b, "deployState")
  BY <1>1, <1>2, <1>5, <1>6, <1>8, LookStays
<1> QED
  BY <1>1, <1>7, <1>8

LEMMA GiveUpStep ==
  ASSUME RestoreInv, NEW b \in Browsers, GiveUp(b)
  PROVE  RestoreStep
BY LookStays DEF GiveUp

LEMMA SubmitStep ==
  ASSUME RestoreInv, NEW b \in Browsers, Submit(b)
  PROVE  RestoreStep
<1>1. Answered(b) /\ UNCHANGED <<tree, lost, orphans, cancels>>
  BY DEF Submit
<1>2. PICK form \in Forms, m \in Packages, s \in States :
        req' = [req EXCEPT ![b] =
                 [form |-> form, at |-> Head(Steps[form]),
                  mods |-> CASE form \in {"bundle", "switch", "upload"} -> m
                             [] form = "row" -> s.ref
                             [] OTHER -> NoFile,
                  state |-> IF form \in {"switch", "upload"} THEN NoFile ELSE s]]
  BY DEF Submit
<1> DEFINE mods == CASE form \in {"bundle", "switch", "upload"} -> m
                     [] form = "row" -> s.ref
                     [] OTHER -> NoFile
           state == IF form \in {"switch", "upload"} THEN NoFile ELSE s
           r == [form |-> form, at |-> Head(Steps[form]), mods |-> mods, state |-> state]
<1>3. req' = [req EXCEPT ![b] = r]
  BY <1>2
<1>4. s.ref \in Packages
  BY PanelRestoreAssumption
<1>5. /\ mods \in Packages \cup {NoFile} /\ state \in States \cup {NoFile}
      /\ form \in {"bundle", "switch", "upload", "row"} => mods \in Packages
      /\ form \notin {"switch", "upload"} => state \in States
  BY <1>4, FormSteps
<1>6. /\ r.form = form /\ r.at = Steps[form][1] /\ r.mods = mods /\ r.state = state
      /\ 1 \in DOMAIN Steps[form]
  BY StepsAre
<1>7. r.at \in Places
  BY <1>6, StepsTyped
<1>8. r = [form |-> r.form, at |-> r.at, mods |-> r.mods, state |-> r.state]
  BY <1>6 DEF r
<1> HIDE DEF mods, state, r
<1>9. r \in Requests /\ Underway(r)
  BY <1>5, <1>6, <1>7, <1>8 DEF Requests, Places, Underway, Reached
<1>10. ~(r.form \in Uploads /\ r.at = "deployState")
  BY <1>6, FormSteps DEF Uploads
<1>11. req \in [Browsers -> Requests]
  BY DEF RestoreInv, TypeOK
<1>12. req' \in [Browsers -> Requests]
  BY <1>3, <1>9, <1>11
<1>13. Placed'
  <2> SUFFICES ASSUME NEW x \in Browsers, ~Answered(x)'
               PROVE  (Underway(req[x]) /\ Delivered(req[x]))'
    BY DEF Placed
  <2>1. CASE x = b
    <3>1. req'[x] = r
      BY <1>3, <1>11, <2>1
    <3> QED
      BY <1>9, <1>10, <3>1 DEF Underway, Reached, Delivered
  <2>2. CASE x # b
    <3>1. req'[x] = req[x]
      BY <1>3, <1>11, <2>2
    <3>2. Underway(req[x]) /\ Delivered(req[x])
      BY <3>1 DEF RestoreInv, Answered
    <3> QED
      BY <1>1, <3>1, <3>2 DEF Underway, Reached, Delivered
  <2> QED
    BY <2>1, <2>2
<1>14. RestoreInv'
  BY <1>1, <1>12, <1>13 DEF RestoreInv, TypeOK, Placed, Sound
<1>15. RestoredIsUploaded
  <2> SUFFICES ASSUME NEW x \in Browsers, ~Answered(x), req'[x].at = "ok" PROVE FALSE
    BY DEF RestoredIsUploaded
  <2>1. x # b
    BY <1>1
  <2>2. req'[x] = req[x]
    BY <1>3, <1>11, <2>1
  <2> QED
    BY <2>2 DEF Answered
<1> QED
  BY <1>1, <1>14, <1>15, KeepsItself DEF RestoreStep, RestoreInv

(* One command changes the stores and leaves every request but its own.    *)
LEMMA OthersStay ==
  ASSUME RestoreInv, NEW t, Sound(t), Becomes(t), UNCHANGED req
  PROVE  Placed' /\ RestoredIsUploaded
<1>1. Stored \subseteq Stored'
  BY BecomesSound
<1>2. Placed'
  BY <1>1 DEF RestoreInv, Placed, Answered, Underway, Reached, Delivered, Stored
<1> QED
  BY <1>2 DEF RestoredIsUploaded, Answered

LEMMA CallStep ==
  ASSUME RestoreInv, NEW b \in Browsers, Call(b)
  PROVE  RestoreStep
<1>1. req[b].at \in Calls /\ UNCHANGED <<orphans, cancels>>
  BY DEF Call
<1>2. PICK o \in Outcomes(Command(b), tree) :
        Becomes(o.tree) /\ Goto(b, IF o.ok THEN After(b) ELSE "error")
  BY DEF Call
<1>3. GivenFiles(Command(b)) /\ Sound(tree)
  BY <1>1, CommandGiven DEF RestoreInv
<1>4. /\ Sound(o.tree) /\ Keeps(tree, o.tree)
      /\ o.ok /\ Command(b).op = "importState" => Command(b).file \in o.tree.states
      /\ o.ok /\ Command(b).op = "deployState" /\ ~Command(b).keep =>
           o.tree.live \in Named(tree.states, Command(b).file.name)
  BY <1>3, OutcomesSound
<1>5. tree' = o.tree
  BY <1>2 DEF Becomes
<1>6. /\ Sound(tree') /\ lost' \subseteq States /\ tree' \in Trees
      /\ Stored \subseteq Stored'
  BY <1>2, <1>4, BecomesSound
<1>7. ~Answered(b)
  BY <1>1 DEF Answered, Calls
<1>8. Underway(req[b]) /\ Delivered(req[b])
  BY <1>7 DEF RestoreInv
<1>9. /\ Command(b).op = req[b].at
      /\ Command(b).keep = (req[b].form = "keep")
      /\ req[b].at \in {"importState", "deployState"} => Command(b).file = req[b].state
  BY DEF Command
<1> DEFINE step == IF o.ok THEN After(b) ELSE "error"
<1>10. \/ step \in {"ok", "error"}
       \/ \E k \in DOMAIN Steps[req[b].form] : Steps[req[b].form][k] = step
  BY <1>8, AfterIsNext
<1>11. ASSUME req[b].form \in Uploads, step = "deployState"
       PROVE  req[b].state \in Stored'
  <2>1. o.ok /\ After(b) = "deployState"
    BY <1>11
  <2>2. req[b].at = "importState"
    BY <1>8, <1>11, <2>1, AfterIsNext
  <2>3. req[b].state \in tree'.states
    BY <1>4, <1>5, <1>9, <2>1, <2>2
  <2> QED
    BY <2>3 DEF Stored
<1>12. ASSUME req[b].form \in Uploads, step = "ok"
       PROVE  tree'.live = req[b].state \/ req[b].state \in lost
  <2>1. o.ok /\ After(b) = "ok"
    BY <1>12
  <2>2. req[b].at = "deployState"
    BY <1>8, <1>12, <2>1, AfterIsNext
  <2>3. tree'.live \in Named(tree.states, req[b].state.name)
    BY <1>4, <1>5, <1>9, <1>12, <2>1, <2>2 DEF Uploads
  <2>4. req[b].state \in tree.states \cup lost
    BY <1>8, <1>12, <2>2 DEF Delivered
  <2> QED
    BY <1>3, <2>3, <2>4 DEF Named, Sound
<1>13. Goto(b, step)
  BY <1>2
<1> HIDE DEF step
<1>14. Placed' /\ req' \in [Browsers -> Requests]
  BY <1>6, <1>7, <1>10, <1>11, <1>13, GotoStays
<1>15. RestoreInv'
  BY <1>1, <1>6, <1>14 DEF RestoreInv, TypeOK, Placed
<1>16. RestoredIsUploaded
  <2> SUFFICES ASSUME NEW x \in Browsers, req[x].form \in Uploads, ~Answered(x), req'[x].at = "ok"
               PROVE  tree'.live = req[x].state \/ req[x].state \in lost
    BY DEF RestoredIsUploaded, Uploads
  <2>1. req \in [Browsers -> Requests]
    BY DEF RestoreInv, TypeOK
  <2>2. CASE x = b
    <3>1. req'[b] = IF step \in {"ok", "error"} THEN Answer(step) ELSE [req[b] EXCEPT !.at = step]
      BY <1>13, <2>1 DEF Goto
    <3>2. req'[b].at = step
      BY <2>1, <3>1 DEF Answer, Requests
    <3> QED
      BY <1>12, <2>2, <3>2
  <2>3. CASE x # b
    <3>1. req'[x] = req[x]
      BY <1>13, <2>1, <2>3 DEF Goto
    <3> QED
      BY <3>1 DEF Answered
  <2> QED
    BY <2>2, <2>3
<1> QED
  BY <1>4, <1>5, <1>15, <1>16 DEF RestoreStep

LEMMA CancelStep ==
  ASSUME RestoreInv, NEW b \in Browsers, Cancel(b)
  PROVE  RestoreStep
<1>1. /\ req[b].at \in Calls /\ cancels < MaxCancels /\ cancels' = cancels + 1
      /\ orphans' = orphans \cup {Command(b)} /\ Goto(b, "error") /\ UNCHANGED <<tree, lost>>
  BY DEF Cancel
<1>2. ~Answered(b)
  BY <1>1 DEF Answered, Calls
<1>3. GivenFiles(Command(b)) /\ Command(b) \in Commands
  BY <1>1, CommandGiven
<1>4. Placed' /\ req' \in [Browsers -> Requests]
  BY <1>1, <1>2, GotoStays DEF Stored
<1>5. cancels' \in 0..MaxCancels
  BY <1>1, PanelRestoreAssumption DEF RestoreInv, TypeOK
<1>6. RestoreInv'
  BY <1>1, <1>3, <1>4, <1>5 DEF RestoreInv, TypeOK, Placed, Sound
<1>7. RestoredIsUploaded
  <2> SUFFICES ASSUME NEW x \in Browsers, ~Answered(x), req'[x].at = "ok" PROVE FALSE
    BY DEF RestoredIsUploaded
  <2>1. req' = [req EXCEPT ![b] = Answer("error")]
    BY <1>1 DEF Goto
  <2>2. req'[b].at = "error"
    BY <2>1 DEF RestoreInv, TypeOK, Answer
  <2>3. x # b => req'[x] = req[x]
    BY <2>1 DEF RestoreInv, TypeOK
  <2> QED
    BY <2>2, <2>3 DEF Answered
<1> QED
  BY <1>1, <1>6, <1>7, KeepsItself DEF RestoreStep, RestoreInv

LEMMA OrphanStep ==
  ASSUME RestoreInv, Orphan
  PROVE  RestoreStep
<1>1. PICK c \in orphans : \E o \in Outcomes(c, tree) :
        Becomes(o.tree) /\ orphans' = orphans \ {c}
  BY DEF Orphan
<1>2. PICK o \in Outcomes(c, tree) : Becomes(o.tree) /\ orphans' = orphans \ {c}
  BY <1>1
<1>3. UNCHANGED <<req, cancels>>
  BY DEF Orphan
<1>4. GivenFiles(c) /\ Sound(tree)
  BY DEF RestoreInv
<1>5. Sound(o.tree) /\ Keeps(tree, o.tree)
  BY <1>4, OutcomesSound
<1>6. Sound(tree') /\ lost' \subseteq States /\ tree' \in Trees
  BY <1>2, <1>5, BecomesSound
<1>7. Placed' /\ RestoredIsUploaded
  BY <1>2, <1>3, <1>5, OthersStay
<1>8. RestoreInv'
  BY <1>2, <1>3, <1>6, <1>7 DEF RestoreInv, TypeOK, Placed
<1> QED
  BY <1>2, <1>5, <1>7, <1>8 DEF RestoreStep, Becomes

LEMMA BackupStep ==
  ASSUME RestoreInv, Backup
  PROVE  RestoreStep
<1>1. PICK t \in Retained(tree, {}, {}) : Becomes(t)
  BY DEF Backup
<1>2. UNCHANGED <<req, orphans, cancels>>
  BY DEF Backup
<1>3. Sound(t) /\ Keeps(tree, t)
  BY KeepsItself, RetainedSound DEF RestoreInv
<1>4. Sound(tree') /\ lost' \subseteq States /\ tree' \in Trees
  BY <1>1, <1>3, BecomesSound
<1>5. Placed' /\ RestoredIsUploaded
  BY <1>1, <1>2, <1>3, OthersStay
<1>6. RestoreInv'
  BY <1>2, <1>4, <1>5 DEF RestoreInv, TypeOK, Placed
<1> QED
  BY <1>1, <1>3, <1>5, <1>6 DEF RestoreStep, Becomes

LEMMA RestoreNext ==
  ASSUME RestoreInv, [Next]_vars
  PROVE  RestoreStep
<1>1. CASE UNCHANGED vars
  <2>1. RestoreInv'
    BY <1>1 DEF vars, RestoreInv, TypeOK, Sound, Answered, Underway, Reached, Delivered
  <2>2. Keeps(tree, tree')
    BY <1>1, KeepsItself DEF vars, RestoreInv
  <2>3. RestoredIsUploaded
    BY <1>1 DEF vars, RestoredIsUploaded, Answered
  <2> QED
    BY <2>1, <2>2, <2>3 DEF RestoreStep
<1> QED
  BY <1>1, OrphanStep, BackupStep, SubmitStep, CheckStep, FindStep, ListStep,
     GiveUpStep, CallStep, CancelStep
  DEF Next

LEMMA RestoreInit ==
  ASSUME Init
  PROVE  RestoreInv
<1>1. PICK p \in Packages :
        tree = [mods |-> {p}, states |-> {}, current |-> p, live |-> NoFile]
  BY DEF Init
<1>2. Sound(tree)
  BY <1>1 DEF Sound, Trees
<1>3. \A b \in Browsers : Answered(b)
  BY DEF Init, Answered, Answer
<1>4. Answer("ok") \in Requests
  BY FormSteps DEF Answer, Requests
<1> QED
  BY <1>2, <1>3, <1>4, PanelRestoreAssumption DEF Init, RestoreInv, TypeOK, Sound

(* Every variable keeps its type, and a request stands at a step of its    *)
(* form with the files that step needs.                                    *)
THEOREM RestoreInvariant == Spec => []RestoreInv
<1>1. RestoreInv /\ [Next]_vars => RestoreInv'
  BY RestoreNext DEF RestoreStep
<1> QED
  BY <1>1, RestoreInit, PTL DEF Spec

THEOREM RestoreTypes == Spec => []TypeOK
<1>1. RestoreInv => TypeOK
  BY DEF RestoreInv
<1> QED
  BY <1>1, RestoreInvariant, PTL

(* Archives are known by their names, to players and to one another: two   *)
(* contents never share one, and none takes the place of another.          *)
THEOREM NamesAreTrue == Spec => NamesStayTrue
<1>1. ASSUME RestoreInv, [Next]_vars
      PROVE  [/\ \A p \in tree'.mods, q \in tree.mods : p.name = q.name => p = q
              /\ \A s \in tree'.states, r \in tree.states : s.name = r.name => s = r]_vars
  BY <1>1, RestoreNext DEF RestoreStep, Keeps
<1> QED
  BY <1>1, RestoreInvariant, PTL DEF Spec, NamesStayTrue

(* A state is only ever put under the mods it was saved with, unless the   *)
(* operator asked for the state alone, and a restore of an upload that     *)
(* reports success has put the uploaded bytes to use unless retention had  *)
(* removed them.                                                           *)
THEOREM RestoresAsAsked == Spec => RestoredAsAsked
<1>1. ASSUME RestoreInv, [Next]_vars
      PROVE  [StatePairsWithMods /\ RestoredIsUploaded]_vars
  <2>1. RestoreInv' /\ Keeps(tree, tree') /\ RestoredIsUploaded
    BY <1>1, RestoreNext DEF RestoreStep
  <2>2. StatePairsWithMods
    BY <2>1 DEF Keeps, RestoreInv, Sound, StatePairsWithMods
  <2> QED
    BY <2>1, <2>2
<1> QED
  BY <1>1, RestoreInvariant, PTL DEF Spec, RestoredAsAsked
=============================================================================
