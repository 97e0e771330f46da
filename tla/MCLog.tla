--------------------------------- MODULE MCLog --------------------------------
EXTENDS LogReserved
=============================================================================
