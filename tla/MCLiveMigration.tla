-------------------------- MODULE MCLiveMigration --------------------------
EXTENDS LiveMigration, TLC

DriveSymmetry == Permutations(Drives)
=============================================================================
