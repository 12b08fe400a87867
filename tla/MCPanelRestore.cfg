\* Two operators, two packages and two archives of one name.
CONSTANTS
  a = a  b = b
  NoFile = NoFile
  Browsers <- MCBrowsers
  Packages <- MCPackages
  States <- MCStates
  MaxCancels = 1
SPECIFICATION Spec
SYMMETRY Alike
PROPERTIES
  NamesStayTrue
  RestoredAsAsked
