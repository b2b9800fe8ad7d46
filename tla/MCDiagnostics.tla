---------------------------- MODULE MCDiagnostics ----------------------------
EXTENDS Diagnostics
=============================================================================
