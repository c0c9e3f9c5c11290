------------------------------- MODULE MCChat -------------------------------
EXTENDS ChatSession
=============================================================================
