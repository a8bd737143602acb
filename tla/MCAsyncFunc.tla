---------------------------- MODULE MCAsyncFunc ----------------------------
(* The instance of AsyncFunc TLC checks: the HTTP server task, whose requests *)
(* have a limit or not, and another task that asks meanwhile.                 *)
EXTENDS AsyncFunc

CONSTANTS httpd, other

MCCaller == {httpd, other}
=============================================================================
