------------------------------- MODULE MCDark -------------------------------
EXTENDS MCVault, DarkManager
=============================================================================
