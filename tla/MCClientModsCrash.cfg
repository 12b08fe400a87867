\* The client dies between activating the new tree and writing the digest.
CONSTANTS
  a = a  b = b  play = play  update = update
  Packs <- MCPacks
  Installers <- MCOne
  MaxPublishes = 1
  MaxMishaps = 1
SPECIFICATION Spec
INVARIANTS
  MarkedTree
