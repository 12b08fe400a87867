\* Settings: two requests, two players, a report of doctor that may be three
\* ticks old.  Certificate: two addresses, two lifetimes, five days, two
\* failures.  Downloads: one visitor beside all commands, two packages of one
\* length, two names.  Upload: two failed operations.
CONSTANTS
  Requests = {r1, r2}
  Names = {m, n}
  Nobody = Nobody
  MaxLag = 3
  Addresses = {"x", "y"}
  Lifetimes = {2, 4}
  MinimumWindow = 2
  MaximumWindow = 30
  LastTick = 5
  MaxIssued = 3
  MaxMishaps = 2
  Visitors = {v}
  Nothing = Nothing
  MaxName = 1
  Attempts = 2
  MaxUploadFaults = 2
SPECIFICATION PagesSpec
SYMMETRY Alike
INVARIANTS
  FormIsAPrefix
  PageTellsTruth
  CertificateHolds
  DownloadsMatch
  UploadIsSettled
PROPERTIES
  GateNoticesWithinAMinute
