\* "Play" beside an "Update mods" that is still running; nothing fails.
CONSTANTS
  a = a  b = b  play = play  update = update
  Packs <- MCPacks
  Installers <- MCTwo
  MaxPublishes = 1
  MaxMishaps = 0
SPECIFICATION Spec
INVARIANTS
  PlayableAgain
