----------------------------- MODULE Convergence -----------------------------
(***************************************************************************)
(* What the stability protocol promises: elements gain and lose stability, *)
(* the simulation may end only at a moment when every one of them counts   *)
(* as stable, and from that moment on none loses it again, so the printed  *)
(* results belong to one common steady state.                              *)
(***************************************************************************)
CONSTANT Elements    \* the nodes, actuators and LANs of the topology

VARIABLES counted,   \* the elements that count as stable
          ended      \* has some LP taken the simulation for finished?

vars == <<counted, ended>>

TypeOK ==
  /\ counted \subseteq Elements
  /\ ended \in BOOLEAN

Init ==
  /\ counted = {}
  /\ ended = FALSE

Gain(e) ==
  /\ ~ended
  /\ counted' = counted \cup {e}
  /\ UNCHANGED ended

Lose(e) ==
  /\ ~ended
  /\ counted' = counted \ {e}
  /\ UNCHANGED ended

End ==
  /\ counted = Elements
  /\ ended' = TRUE
  /\ UNCHANGED counted

Next == End \/ \E e \in Elements : Gain(e) \/ Lose(e)

Spec == Init /\ [][Next]_vars

=============================================================================
