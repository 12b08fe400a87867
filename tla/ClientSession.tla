--------------------------- MODULE ClientSession ---------------------------
(***************************************************************************)
(* The client program while its window is open: the configuration store,   *)
(* Play and OpenMW-CS with the launch slot they share, the mod check of a  *)
(* launch, and the manual mod update.                                      *)
(*                                                                         *)
(* The window has one thread.  Whatever takes time runs in a goroutine of  *)
(* its own, and dialogs can be closed while it runs, so the user may start *)
(* anything else meanwhile.  Installing a pack is one step here: ClientMods*)
(* opens it up.                                                            *)
(***************************************************************************)
EXTENDS Naturals, FiniteSets

CONSTANTS
  Profiles,       \* identifiers of server profiles (address and port)
  None,
  MaxVersion,     \* bound: packs one panel publishes
  MaxMishaps      \* bound: failed writes, unreachable panels, restarts

VARIABLES
  cfg,            \* Store.cfg: the profiles, and whether there is a game folder
  file,           \* config.json
  unsynced,       \* history: the last save failed after its rename
  form,           \* the settings a handler of the window has read, or None
  guard,          \* launchGuard
  play,           \* profile -> its playServer goroutine
  editor,         \* OpenMWCS holds the slot
  alive,          \* profiles whose game this client started and still runs
  panel,          \* profile -> the newest pack of its panel
  mods,           \* profile -> installed pack, 0 for none
  update,         \* the manual update that runs, or None
  mishaps

store  == <<cfg, file, unsynced>>
launch == <<guard, play, editor, alive>>
packs  == <<panel, mods, update>>
vars   == <<store, launch, packs, form, mishaps>>

Mishap == mishaps < MaxMishaps /\ mishaps' = mishaps + 1
Fine   == UNCHANGED mishaps

(* The window's thread is between two handlers.                            *)
Idle == form = None

(* A goroutine of Play: the newest pack when it was clicked, the one       *)
(* UpdateMods was told of, and whether the check failed, with a warning,   *)
(* or met a manual update of the same profile.                             *)
Off == [at |-> "idle", asked |-> 0, seen |-> 0, blurred |-> FALSE]

-----------------------------------------------------------------------------
(* config.Store: written first, then visible.                              *)
Update(new) ==
  \/ cfg' = new /\ file' = new /\ unsynced' = FALSE /\ Fine
  \/ UNCHANGED store /\ Mishap
  \/ file' = new /\ unsynced' = TRUE /\ UNCHANGED cfg /\ Mishap

Default == [servers |-> {}, folder |-> FALSE]

Init ==
  /\ cfg \in {Default, [servers |-> Profiles, folder |-> TRUE]}
  /\ file = cfg /\ unsynced = FALSE
  /\ form = None
  /\ guard = [starting |-> FALSE, running |-> FALSE]
  /\ play = [p \in Profiles |-> Off] /\ editor = FALSE /\ alive = {}
  /\ panel = [p \in Profiles |-> 1]
  /\ mods \in {[p \in Profiles |-> v] : v \in 0..1}
  /\ update = None
  /\ mishaps = 0

-----------------------------------------------------------------------------
(* SaveServer: a new profile, or an edited one, which a new address makes  *)
(* another.                                                                *)
SaveServer(original, p) ==
  /\ Idle
  /\ original = None \/ original \in cfg.servers
  /\ p \in cfg.servers => p = original
  /\ Update([cfg EXCEPT !.servers = (@ \ {original}) \cup {p}])
  /\ UNCHANGED <<launch, packs, form>>

DeleteServer(p) ==
  /\ Idle /\ p \in cfg.servers
  /\ Update([cfg EXCEPT !.servers = @ \ {p}])
  /\ UNCHANGED <<launch, packs, form>>

(* A handler of the window reads every setting, changes one (the theme,    *)
(* the language, a folder) and saves them all.                             *)
ReadSettings ==
  /\ Idle
  /\ form' = [folder |-> cfg.folder]
  /\ Fine /\ UNCHANGED <<store, launch, packs>>

SaveSettings ==
  /\ ~Idle
  /\ Update([cfg EXCEPT !.folder = form.folder])
  /\ form' = None
  /\ UNCHANGED <<launch, packs>>

(* findMorrowind: the search saves what it finds from its goroutine, when  *)
(* it is done.                                                             *)
DetectMorrowind ==
  /\ Update([cfg EXCEPT !.folder = TRUE])
  /\ UNCHANGED <<launch, packs, form>>

-----------------------------------------------------------------------------
Begin == /\ ~guard.starting /\ ~guard.running
         /\ guard' = [guard EXCEPT !.starting = TRUE]

Finish(started) == guard' = [starting |-> FALSE, running |-> started]

At(p, from, to) ==
  /\ play[p].at = from
  /\ play' = [play EXCEPT ![p] = IF to \in {"idle", "wait"}
                                 THEN [Off EXCEPT !.at = to]
                                 ELSE [@ EXCEPT !.at = to]]

Others == UNCHANGED <<store, editor, form>>

(* playServer: refused while a game runs, without a game folder, and while *)
(* the same profile is already on its way.                                 *)
Play(p) ==
  /\ Idle /\ p \in cfg.servers /\ play[p].at = "idle"
  /\ ~guard.running /\ cfg.folder
  /\ \/ /\ play' = [play EXCEPT ![p] =
                       [at |-> "ensure", asked |-> panel[p], seen |-> 0,
                        blurred |-> update # None /\ update.of = p]]
        /\ UNCHANGED store /\ Fine
     \/ UNCHANGED <<store, play>> /\ Mishap       \* SetActiveServer fails
  /\ UNCHANGED <<guard, editor, alive, packs, form>>

(* Mutant of EnsureMods: a pack that is installed is good enough.          *)
EnsureModsOnce(p) ==
  /\ play[p].at = "ensure"
  /\ play' = [play EXCEPT ![p].at = "install",
                          ![p].seen = IF mods[p] = 0 THEN panel[p] ELSE mods[p]]
  /\ Fine /\ Others /\ UNCHANGED <<guard, alive, packs>>

(* EnsureMods, the metadata.  A panel that cannot be asked stops a Play    *)
(* that has nothing installed; any other starts what there is, warned.     *)
EnsureMods(p) ==
  /\ play[p].at = "ensure"
  /\ \/ /\ p \in cfg.servers
        /\ play' = [play EXCEPT ![p].at = "install", ![p].seen = panel[p]]
        /\ Fine
     \/ /\ play' = [play EXCEPT ![p] = IF mods[p] = 0 THEN Off
                         ELSE [@ EXCEPT !.at = "launch", !.blurred = TRUE]]
        /\ Mishap
  /\ Others /\ UNCHANGED <<guard, alive, packs>>

Install(p) ==
  /\ At(p, "install", "launch")
  /\ mods' = [mods EXCEPT ![p] = play[p].seen]
  /\ Fine /\ UNCHANGED <<store, guard, editor, alive, panel, update, form>>

(* Service.Launch takes the slot or is refused.                            *)
Launch(p) ==
  /\ \/ p \in cfg.servers /\ Begin /\ At(p, "launch", "prepare")
     \/ /\ p \notin cfg.servers \/ guard.starting \/ guard.running
        /\ At(p, "launch", "idle") /\ UNCHANGED guard
  /\ Fine /\ Others /\ UNCHANGED <<alive, packs>>

(* The game folder and the pack are looked at again inside the slot.       *)
Start(p) ==
  /\ \/ /\ cfg.folder /\ mods[p] # 0
        /\ At(p, "prepare", "started") /\ alive' = alive \cup {p}
        /\ UNCHANGED guard /\ Fine
     \/ /\ At(p, "prepare", "idle") /\ Finish(FALSE)
        /\ UNCHANGED alive
        /\ IF cfg.folder /\ mods[p] # 0 THEN Mishap ELSE Fine
  /\ Others /\ UNCHANGED packs

Started(p) ==
  /\ At(p, "started", "wait") /\ Finish(TRUE)
  /\ Fine /\ Others /\ UNCHANGED <<alive, packs>>

GameExits(p) ==
  /\ p \in alive /\ alive' = alive \ {p}
  /\ Fine /\ Others /\ UNCHANGED <<guard, play, packs>>

(* Mutant of GameStopped: the latch is forgotten.                          *)
GameStoppedNot(p) ==
  /\ p \notin alive /\ At(p, "wait", "idle")
  /\ Fine /\ Others /\ UNCHANGED <<guard, alive, packs>>

(* Wait has returned: the latch is released.                               *)
GameStopped(p) ==
  /\ p \notin alive /\ At(p, "wait", "idle")
  /\ guard' = [guard EXCEPT !.running = FALSE]
  /\ Fine /\ Others /\ UNCHANGED <<alive, packs>>

(* launchEditor: holds the slot while it prepares; the editor itself does  *)
(* not keep it.                                                            *)
OpenMWCS ==
  /\ \/ Idle /\ ~editor /\ cfg.servers # {} /\ Begin /\ editor' = TRUE
     \/ editor /\ editor' = FALSE /\ Finish(FALSE)
  /\ Fine /\ UNCHANGED <<store, play, alive, packs, form>>

-----------------------------------------------------------------------------
(* The menu's "Update mods", a running game or not.  Bound: one at a time, *)
(* as profiles share no pack.                                              *)
UpdateMods(p) ==
  /\ \/ /\ Idle /\ p \in cfg.servers /\ cfg.folder /\ update = None
        /\ update' = [of |-> p, pack |-> panel[p]]
        /\ play' = IF play[p].at \in {"idle", "wait"} THEN play
                   ELSE [play EXCEPT ![p].blurred = TRUE]
        /\ UNCHANGED mods
     \/ /\ update # None /\ update.of = p
        /\ update' = None
        /\ mods' = [mods EXCEPT ![p] = update.pack]
        /\ UNCHANGED play
  /\ Fine /\ UNCHANGED <<store, guard, editor, alive, panel, form>>

Publish(p) ==
  /\ panel[p] < MaxVersion
  /\ panel' = [panel EXCEPT ![p] = @ + 1]
  /\ Fine /\ UNCHANGED <<store, launch, mods, update, form>>

(* The next client starts with configuration c; a game the last one started*)
(* goes on, unknown to it.                                                 *)
Reopen(c) ==
  /\ cfg' = c /\ file' = c /\ unsynced' = FALSE
  /\ form' = None
  /\ guard' = [starting |-> FALSE, running |-> FALSE]
  /\ play' = [p \in Profiles |-> Off] /\ editor' = FALSE /\ alive' = {}
  /\ update' = None
  /\ UNCHANGED panel

Restart == Mishap /\ Reopen(file) /\ UNCHANGED mods

(* Uninstall of the game files, whatever runs; without its settings the    *)
(* client ends itself.                                                     *)
Uninstall ==
  /\ Idle /\ Mishap
  /\ mods' = [p \in Profiles |-> 0]
  /\ \/ UNCHANGED <<store, launch, panel, update, form>>
     \/ Reopen(Default)

Next ==
  \/ ReadSettings \/ SaveSettings \/ DetectMorrowind
  \/ OpenMWCS \/ Uninstall \/ Restart
  \/ \E p \in Profiles :
       \/ \E original \in Profiles \cup {None} : SaveServer(original, p)
       \/ DeleteServer(p) \/ Play(p) \/ EnsureMods(p) \/ Install(p)
       \/ Launch(p) \/ Start(p) \/ Started(p) \/ GameExits(p) \/ GameStopped(p)
       \/ UpdateMods(p) \/ Publish(p)

Spec == Init /\ [][Next]_vars

-----------------------------------------------------------------------------
Steps == {"idle", "ensure", "install", "launch", "prepare", "started", "wait"}

TypeOK ==
  /\ {cfg, file} \subseteq [servers : SUBSET Profiles, folder : BOOLEAN]
  /\ form \in {None} \cup [folder : BOOLEAN]
  /\ {editor, unsynced} \subseteq BOOLEAN
  /\ guard \in [starting : BOOLEAN, running : BOOLEAN]
  /\ play \in [Profiles -> [at : Steps, asked : 0..MaxVersion,
                             seen : 0..MaxVersion, blurred : BOOLEAN]]
  /\ alive \subseteq Profiles
  /\ {panel, mods} \subseteq [Profiles -> 0..MaxVersion]
  /\ update \in {None} \cup [of : Profiles, pack : 1..MaxVersion]
  /\ mishaps \in 0..MaxMishaps

(* "A repeated Play click cannot start a second TES3MP instance"           *)
(* (internal/app/launch.go): of the games one client started, at most one  *)
(* runs, whichever profiles were played and however their goroutines       *)
(* overlap.                                                                *)
OneInstance == Cardinality(alive) <= 1

(* The slot is never lost: while it is taken, the goroutine that will give *)
(* it back exists, so Play cannot stay refused for the whole session.      *)
Holders == {p \in Profiles : play[p].at \in {"prepare", "started"}}
SlotComesBack ==
  /\ guard.starting <=> editor \/ Holders # {}
  /\ guard.running => \E p \in Profiles : play[p].at = "wait"

(* "A pack replaced while the window was open must not leave the game on   *)
(* yesterday's plugins" (internal/ui/launch.go): a game that starts without*)
(* a warning has a pack at least as new as the panel's when Play was       *)
(* clicked, unless the same pack was also being updated from the menu or   *)
(* the game files were uninstalled meanwhile.                              *)
PlaysTheNewestPack ==
  \A p \in Profiles :
    play[p].at = "started" /\ mods[p] # 0 /\ ~play[p].blurred =>
      mods[p] >= play[p].asked

(* config.json holds what the client runs with, unless the last save       *)
(* failed after it had replaced the file.                                  *)
FileIsConfig == file = cfg \/ unsynced

(* "A successful path is saved in config.json" (internal/app/setup.go:16): *)
(* a folder the search has found is not forgotten by a running client.     *)
FoundIsKept ==
  [][cfg.folder /\ ~Restart /\ ~Uninstall => cfg'.folder]_vars
=============================================================================
