---------------------------- MODULE MCExecution ----------------------------
EXTENDS Execution
=============================================================================
