------------------------ MODULE MCIdentityListeners ------------------------
EXTENDS IdentityListeners
CONSTANTS d1, d2, nobody
=============================================================================
