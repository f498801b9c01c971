------------------------------ MODULE MCFat32 ------------------------------
EXTENDS Fat32Refinement
=============================================================================
