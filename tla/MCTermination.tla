--------------------------- MODULE MCTermination ---------------------------
(* Small instances of Termination for TLC: a central node with its disk on *)
(* LP 0; a LAN, an actuator and a sensor on LP 1.                          *)
EXTENDS Termination

CONSTANTS central, lan, actuator, sensor

MCElements == {central, lan, actuator, sensor}

MCLpOf == [e \in MCElements |-> IF e = central THEN 0 ELSE 1]

MCTypeOf == [e \in MCElements |->
  CASE e = central -> NODE
    [] e = lan -> LAN
    [] e = actuator -> ACTUATOR
    [] e = sensor -> SENSOR]

\* One id is a multiple of the period apart from another, so that two elements
\* are checked at one timestamp.
MCIdShift == [e \in MCElements |->
  CASE e = central -> 0
    [] e = lan -> 2
    [] e = actuator -> 6
    [] e = sensor -> 8]

=============================================================================
