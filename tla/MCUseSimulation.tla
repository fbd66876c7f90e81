-------------------------- MODULE MCUseSimulation --------------------------
EXTENDS UseSimulation
=============================================================================
