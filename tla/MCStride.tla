------------------------------- MODULE MCStride -------------------------------
EXTENDS Stride
=============================================================================
