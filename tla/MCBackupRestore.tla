--------------------------- MODULE MCBackupRestore ---------------------------
EXTENDS BackupRestore, TLC

MCCapability == [j \in Jobs |-> IF j = "b1" THEN "beta-backup" ELSE "beta-restore"]
Sym == Permutations(Tenants) \cup Permutations(Intents)
================================================================================
