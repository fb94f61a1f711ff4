--------------------------- MODULE MC_ConfigSync ---------------------------
EXTENDS ConfigSync
=============================================================================
