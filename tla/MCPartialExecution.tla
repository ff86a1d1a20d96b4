------------------------- MODULE MCPartialExecution ------------------------
EXTENDS PartialExecution
=============================================================================
