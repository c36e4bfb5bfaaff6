--------------------------- MODULE MC_PortRestart ---------------------------
EXTENDS PortRestart

MC_DocIds == {1, 2}

=============================================================================
