---------------------------- MODULE MCSessionStore ----------------------------
EXTENDS SessionStore

CONSTANTS m1, m2
=============================================================================
