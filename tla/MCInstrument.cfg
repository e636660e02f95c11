SPECIFICATION Spec
CONSTANTS
  Sources <- MCSources
  Width = 3
  fnv <- MCfnv
INVARIANTS
  TypeOK
  SameWhenOff
  OneChange
  AsksWhereItRuns
  KeysDistinct
  CatalogIsTheCode
CHECK_DEADLOCK FALSE
