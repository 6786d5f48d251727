------------------------------ MODULE Station ------------------------------
(***************************************************************************)
(* What every service centre of the simulated network promises, seen from  *)
(* outside: jobs enter one at a time, stay, and leave exactly once.  A     *)
(* station that is InOrder never lets a job leave while one that entered   *)
(* at an earlier timestamp is still inside.  Nodes, actuators, the two     *)
(* directions of a LAN and the central disk all implement it (see          *)
(* QueueStation).                                                          *)
(***************************************************************************)
EXTENDS Naturals

CONSTANT InOrder     \* do jobs leave in order of arrival?

VARIABLES entered,   \* how many jobs have entered so far
          present    \* the jobs inside: [id, arrived]

vars == <<entered, present>>

Visit == [id : Nat, arrived : Nat]

TypeOK ==
  /\ entered \in Nat
  /\ present \subseteq Visit
  /\ \A v \in present : v.id \in 1 .. entered

Init ==
  /\ entered = 0
  /\ present = {}

Enter ==
  /\ entered' = entered + 1
  /\ \E v \in present' : /\ v \in Visit
                         /\ v.id = entered + 1
                         /\ present' = present \cup {v}

Leave ==
  \E v \in present :
    /\ InOrder => \A w \in present : v.arrived <= w.arrived
    /\ present' = present \ {v}
    /\ UNCHANGED entered

Next == Enter \/ Leave

Spec == Init /\ [][Next]_vars

=============================================================================
