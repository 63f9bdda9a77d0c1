-------------------------- MODULE MCIndicatorTask --------------------------
(* Two task slots.  The unit of time is six hours: the reservation and the *)
(* hard limit are one unit, the visibility timeout is two.                 *)
EXTENDS IndicatorTask

CONSTANTS t1, t2
=============================================================================
