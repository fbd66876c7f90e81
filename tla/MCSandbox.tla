----------------------------- MODULE MCSandbox -----------------------------
EXTENDS Sandbox
=============================================================================
