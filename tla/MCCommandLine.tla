--------------------------- MODULE MCCommandLine ---------------------------
EXTENDS CommandLine
=============================================================================
