------------------------------ MODULE MCHandles ------------------------------
EXTENDS Handles
=============================================================================
