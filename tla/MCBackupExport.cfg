SPECIFICATION BackupSpec
CONSTANTS
  c1 = c1
  c2 = c2
  e1 = e1
  e2 = e2
  Change <- MCChange
  Export <- MCExport
  NoTar = NoTar
INVARIANTS BackupTypeOK BackupIsOneMoment
PROPERTY ExportEnds
CHECK_DEADLOCK FALSE
