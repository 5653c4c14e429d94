SPECIFICATION Spec
CONSTANTS
  PkgLists = {p1, p2}
  Accounts = {a1, a2}
  Links = {"ttyFIQ0"}
  NoWork = NoWork
  NoTar = NoTar
  NoMark = NoMark
  Empty = Empty
  Changes = {"clean"}
  MaxBreaks = 1
  MaxChanges = 1
SYMMETRY Symmetry
INVARIANTS
  DoneIsWhole
