------------------------------ MODULE MCConPty ------------------------------
(* ConPty with a few chunks, a few bytes and an input pipe that fills up.   *)
EXTENDS ConPty
=============================================================================
