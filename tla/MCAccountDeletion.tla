-------------------------- MODULE MCAccountDeletion --------------------------
EXTENDS AccountDeletion, TLC

Sym == Permutations(Connections)
================================================================================
