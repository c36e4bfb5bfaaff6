--------------------------- MODULE MC_Dispatcher ---------------------------
EXTENDS Dispatcher

MC_DocIds == {1, 2}

=============================================================================
