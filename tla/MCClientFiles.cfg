\* Mods: one install after another, a server that changes its package, and one
\* crash or failed operation.  TES3MP: two installs that may overlap, a newer
\* client later; a language: one install or removal at a time.  Two crashes or
\* failed operations.  Two profiles with two packs each; three font downloads.
CONSTANTS
  a = a  b = b  play = play  update = update
  Packs <- MCPacks
  Installers <- MCOne
  MaxPublishes = 3
  MaxMishaps = 1
  fromWizard = fromWizard  fromRow = fromRow
  MaxInstallMishaps = 2
  None = None
  Profiles = {p, q}
  MaxVersion = 2  MaxSessionMishaps = 1
  MaxRuns = 3  MaxOrphans = 2
SPECIFICATION FilesSpec
SYMMETRY Alike
INVARIANTS
  PlayableAgain
  ReportIsTrue
  KeptComplete
  SessionIsTrue
  PlaysTheNewestPack
  WindowIsTrue
