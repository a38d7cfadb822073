-------------------------- MODULE MCVaultWorkspace --------------------------
EXTENDS VaultWorkspace, TLC

Sym == Permutations(Devices) \cup Permutations(Kits)
=============================================================================
