-------------------------------- MODULE MCSetup -------------------------------
EXTENDS Setup
===============================================================================
