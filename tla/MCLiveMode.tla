----------------------------- MODULE MCLiveMode ------------------------------
EXTENDS LiveMode
=============================================================================
