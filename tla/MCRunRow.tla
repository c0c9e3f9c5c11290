------------------------------ MODULE MCRunRow ------------------------------
(* Chains for checking RunRow on one or two rows.                          *)
EXTENDS RunRow

Two   == 2
Three == 3

CallsAround     == <<"call", "wait", "call">>
CreateEventWait == <<"create", "event", "wait">>
WaitThenCalls   == <<"wait", "call">>

=============================================================================
