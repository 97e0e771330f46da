------------------------------ MODULE MCWfsTree ------------------------------
EXTENDS MCWfs, WfsTree
=============================================================================
