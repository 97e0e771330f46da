------------------------------ MODULE MCOpenFiles -----------------------------
EXTENDS OpenFiles
MCWrites == {<<1, 2, 1>>}
=============================================================================
