------------------------------- MODULE MCSetup -------------------------------
(* Setup with two tabs and two calendars, one of them empty.               *)
EXTENDS Setup

=============================================================================
