SPECIFICATION Spec
CONSTANTS
  None = None
  b0 = b0
  b1 = b1
  k0 = k0
  k1 = k1
  a1 = a1
  a2 = a2
  Bases <- MCBases
  Keys <- MCKeys
  Accounts <- MCAccounts
  Backups <- MCBackups
  MaxRestores = 2
  MaxEdits = 2
  MaxFailures = 3
INVARIANT TypeOK
INVARIANT NeverRefuses
PROPERTY RestoresAtomically
CHECK_DEADLOCK FALSE
