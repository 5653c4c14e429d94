SPECIFICATION Spec
CONSTANTS
  PkgLists = {p1, p2}
  Accounts = {a1, a2}
  Links = {"ttyFIQ0"}
  NoWork = NoWork
  NoTar = NoTar
  NoMark = NoMark
  Empty = Empty
  Changes = {"pkgs", "account", "accept", "clean", "reboot"}
  MaxBreaks = 2
  MaxChanges = 2
SYMMETRY Symmetry
INVARIANTS
  TypeOK
  CleanExact
  SkipFresh
  HostApart
PROPERTIES
  KeepsPromise
