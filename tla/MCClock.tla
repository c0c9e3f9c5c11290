------------------------------ MODULE MCClock -------------------------------
(* The rules of two events over a few minutes.                             *)
EXTENDS EventClock

Few == {{1, 2}, {2}}

=============================================================================
