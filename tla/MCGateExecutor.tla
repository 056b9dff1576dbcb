--------------------------- MODULE MCGateExecutor ---------------------------
\* Small instances of GateExecutor; the .cfg files give every constant.
EXTENDS GateExecutor
=============================================================================
