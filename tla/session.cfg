SPECIFICATION Spec
CONSTANTS
  a1 = a1
  a2 = a2
  None = None
  Torn = Torn
  Accounts <- MCAccounts
  LastSlot = 3
  MaxSecrets = 1
  MaxLogins = 2
  MaxHandles = 2
  MaxEvents = 2
SYMMETRY Interchangeable
CHECK_DEADLOCK FALSE
INVARIANTS TypeOK KeyringOwner SignedInIsStored SignOutComplete
