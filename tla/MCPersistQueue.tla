---------------------------- MODULE MCPersistQueue ----------------------------
EXTENDS PersistQueue

CONSTANTS m1, m2
=============================================================================
