CONSTANTS
  Images <- VaultImages
  VAULT_MAX_TRIES = 10
  MaxKeys = 2
  Faults <- NoFaults
SPECIFICATION Spec
INVARIANT NewVaultNotLockedOut
