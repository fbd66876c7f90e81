--------------------------- MODULE MCSessionHost ---------------------------
EXTENDS SessionHost
=============================================================================
