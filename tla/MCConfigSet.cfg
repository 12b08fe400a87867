\* Two ops processes: the lock, and two keys of one file set under it.
CONSTANTS
  a = a  b = b
  Procs <- MCProcs
  Keys <- MCKeys
  Values <- MCValues
  MaxPolls = 1
SPECIFICATION FairSetSpec
INVARIANTS
  WritersTakeTurns
PROPERTIES
  AlwaysAnswers
  NothingIsOverwritten
