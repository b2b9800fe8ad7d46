----------------------------- MODULE MCAttributes -----------------------------
EXTENDS Attributes
=============================================================================
