------------------------------ MODULE MCTeardown ------------------------------
EXTENDS Teardown
===============================================================================
