----------------------------- MODULE MCReindex -----------------------------
EXTENDS ReindexJob
=============================================================================
