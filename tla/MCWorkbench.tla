----------------------------- MODULE MCWorkbench ----------------------------
EXTENDS Workbench
=============================================================================
