--------------------------- MODULE MCCommandWait ---------------------------
(* An instance of CommandWait for TLC: a job, a tunnel, two requests.      *)
EXTENDS CommandWait

CONSTANTS j1, h1, h2
=============================================================================
