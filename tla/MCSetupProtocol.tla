-------------------------- MODULE MCSetupProtocol --------------------------
(* A small topology: a local node (12), the central node (10) and a WAN    *)
(* (11) on LP 0, a sensor (14), an actuator (15) and a LAN (13) on LP 1,   *)
(* LP 2 without devices, LP 3 unused.                                      *)
EXTENDS SetupProtocol

MCTypeOf == (10 :> NODE) @@ (11 :> WAN) @@ (12 :> NODE)
              @@ (13 :> LAN) @@ (14 :> SENSOR) @@ (15 :> ACTUATOR)

MCElements == DOMAIN MCTypeOf

MCLpElements == (0 :> <<12, 10, 11>>) @@ (1 :> <<14, 15, 13>>) @@ (2 :> <<>>)

MCCentral == {10}

\* Below the inner elements: an actuator of the second of two types and a sensor.
Inner(lowers, lans, neighbours) ==
  [lowers |-> lowers, lans |-> lans, paths |-> 1, neighbours |-> neighbours,
   actuators |-> <<0, 1>>, sensors |-> <<1>>]
Leaf == [lowers |-> 0, lans |-> 0, paths |-> 0, neighbours |-> 1,
         actuators |-> <<0, 0>>, sensors |-> <<0>>]

MCSizes == (10 :> Inner(1, 0, 1)) @@ (11 :> Inner(1, 0, 2)) @@ (12 :> Inner(1, 1, 2))
             @@ (13 :> Inner(2, 0, 3)) @@ (14 :> Leaf) @@ (15 :> Leaf)

=============================================================================
