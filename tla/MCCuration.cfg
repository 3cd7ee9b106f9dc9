\* Two commands at once, three in all.
SPECIFICATION CSpec
CONSTANTS
  Command = {c1, c2}
  Catalog <- MCCatalog
  ArchiveRoot <- MCArchiveRoot
  RawRoot <- MCRawRoot
  CryptRoot <- MCCryptRoot
  Existing <- MCExisting
  BuiltinRoots <- MCBuiltin
  ExtraRoots <- MCExtra
  MaxCommands = 3
  Occupied <- MCOccupied
  MaxEdits = 1
INVARIANTS BoundaryKept AppliedIsPrefix  FreshEvidenceIsRight
SYMMETRY Symmetric
CHECK_DEADLOCK FALSE
