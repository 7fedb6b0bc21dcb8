------------------------------ MODULE MCWebSync ------------------------------
EXTENDS WebSync
=============================================================================
