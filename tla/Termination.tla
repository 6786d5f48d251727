---------------------------- MODULE Termination ----------------------------
(***************************************************************************)
(* How the logical processes (LPs) of a simulation start, agree that every *)
(* queue has reached its steady state, and stop.  Each NODE, ACTUATOR and  *)
(* LAN checks its metrics every NEXT_UPDATE_TIMESTAMP and broadcasts each  *)
(* change of its stability to all LPs; an LP that has counted as many      *)
(* stable elements as the topology has tells the engine (OnGVT) that it is *)
(* done.                                                                   *)
(*                                                                         *)
(* Timestamps are in ticks, fine enough for SHIFT_EVENT (0.1) to be one.   *)
(* The engine delivers events by timestamp, ties in any order.             *)
(***************************************************************************)
EXTENDS Integers, FiniteSets

CONSTANTS
  NPrcTot,              \* n_prc_tot: the LPs the engine was started with
  NumLP,                \* numLP: the LPs the topology needs
  Elements,             \* the devices of the topology
  LpOf,                 \* the LP of each element
  TypeOf,               \* the type of each element
  IdShift,              \* id_device of each element, in ticks
  SetupIndependent,     \* the SETUP_INDEPENDENT build flag
  NextUpdateTimestamp,  \* NEXT_UPDATE_TIMESTAMP
  ShiftEvent,           \* SHIFT_EVENT
  TransitionTimeLimit,  \* TRANSITION_TIME_LIMIT
  MaxSimulationTime,    \* MAX_SIMULATION_TIME
  TsDisableUnusedLp,    \* TS_DISABLE_UNUSED_LP
  TsStartSimulation     \* TS_START_SIMULATION

NODE     == "NODE"
SENSOR   == "SENSOR"
ACTUATOR == "ACTUATOR"
LAN      == "LAN"
WAN      == "WAN"

LP == 0 .. NPrcTot - 1

\* number_lps_enabled: the LPs that broadcast_message reaches.
Enabled == 0 .. NumLP - 1

\* The elements that total_number_of_elements counts.
Counted == {e \in Elements : TypeOf[e] \in {NODE, ACTUATOR, LAN}}

Total == Cardinality(Counted)

ASSUME TerminationAssumption ==
  /\ NPrcTot \in Nat \ {0}
  /\ NumLP \in Nat \ {0}
  /\ IsFiniteSet(Elements)
  /\ LpOf \in [Elements -> 0 .. NumLP - 1]
  /\ TypeOf \in [Elements -> {NODE, SENSOR, ACTUATOR, LAN, WAN}]
  /\ IdShift \in [Elements -> Nat]
  /\ SetupIndependent \in BOOLEAN
  /\ NextUpdateTimestamp \in Nat
  /\ ShiftEvent \in Nat \ {0}
  /\ ShiftEvent < NextUpdateTimestamp
  /\ TransitionTimeLimit \in Nat
  /\ MaxSimulationTime \in Nat
  /\ TsDisableUnusedLp \in Nat
  /\ TsStartSimulation \in Nat
  /\ TsDisableUnusedLp < TsStartSimulation

VARIABLES
  lp_enabled,             \* LP_DISABLED, LP_SETUP or LP_ENABLED, per LP
  num_stable_elements,    \* per LP
  stability,              \* per element: is it ELEMENT_STABLE?
  simulation_completed,   \* per element: is it SIMULATION_STOP?
  lifecycle,              \* INIT, DISABLE_UNUSED_LP, START_SIMULATION events
  updates,                \* UPDATE_TIMESTAMP events
  messages,               \* STABILITY_ACQUIRED and STABILITY_LOST events
  now,                    \* timestamp of the last event processed
  results,                \* per LP: its result files, each the elements it calls stable
  finished,               \* the LPs whose OnGVT last returned true
  aborted                 \* exit(EXIT_FAILURE), or a fault, ended the program

lpVars      == <<lp_enabled, num_stable_elements>>
elementVars == <<stability, simulation_completed>>
eventVars   == <<lifecycle, updates, messages>>
outputVars  == <<results, finished>>
vars == <<lp_enabled, num_stable_elements, stability, simulation_completed,
          lifecycle, updates, messages, now, results, finished, aborted>>

Lifecycle == [kind : {"INIT", "DISABLE_UNUSED_LP", "START_SIMULATION"}, lp : LP, ts : Nat]
Update    == [element_id : Elements, ts : Nat]
\* "from" tells apart messages that two elements broadcast at one timestamp.
Message   == [kind : {"STABILITY_ACQUIRED", "STABILITY_LOST"},
              lp : 0 .. NumLP - 1, from : Elements, ts : Nat]

TypeOK ==
  /\ lp_enabled \in [LP -> {"LP_DISABLED", "LP_SETUP", "LP_ENABLED"}]
  /\ num_stable_elements \in [LP -> Int]
  /\ stability \in [Elements -> BOOLEAN]
  /\ simulation_completed \in [Elements -> BOOLEAN]
  /\ lifecycle \subseteq Lifecycle
  /\ updates \subseteq Update
  /\ messages \subseteq Message
  /\ now \in Nat
  /\ results \in [LP -> SUBSET SUBSET Elements]
  /\ finished \subseteq LP
  /\ aborted \in BOOLEAN

-----------------------------------------------------------------------------
(* The engine.                                                             *)

Pending == {v.ts : v \in lifecycle} \cup {v.ts : v \in updates} \cup {v.ts : v \in messages}

Halted == finished = LP

\* The engine processes v: nothing earlier is left.
Deliver(v) ==
  /\ ~aborted
  /\ ~Halted
  /\ \A ts \in Pending : v.ts <= ts
  /\ now' = v.ts

Init ==
  /\ lp_enabled = [lp \in LP |-> "LP_DISABLED"]
  /\ num_stable_elements = [lp \in LP |-> 0]
  /\ stability = [e \in Elements |-> FALSE]
  /\ simulation_completed = [e \in Elements |-> FALSE]
  /\ lifecycle = {[kind |-> "INIT", lp |-> lp, ts |-> 0] : lp \in LP}
  /\ updates = {}
  /\ messages = {}
  /\ now = 0
  /\ results = [lp \in LP |-> {}]
  /\ finished = {}
  /\ aborted = FALSE

-----------------------------------------------------------------------------
(* INIT and setup.                                                         *)

Start(lp)   == [kind |-> "START_SIMULATION", lp |-> lp, ts |-> TsStartSimulation]
Disable(lp) == [kind |-> "DISABLE_UNUSED_LP", lp |-> lp, ts |-> TsDisableUnusedLp]

\* setup_independent: an LP the topology does not need disables itself, but
\* its START_SIMULATION is scheduled like everyone's.
SetupIndependently(lp) ==
  /\ lp_enabled' = [lp_enabled EXCEPT ![lp] = IF lp >= NumLP THEN "LP_DISABLED" ELSE "LP_SETUP"]
  /\ lifecycle' = (lifecycle \ {[kind |-> "INIT", lp |-> lp, ts |-> 0]}) \cup {Start(lp)}

\* Mutant: setup_master starts spare LPs as well.
MutStartsSpareLps(lp) ==
  /\ lp_enabled' = [lp_enabled EXCEPT ![lp] = "LP_SETUP"]
  /\ lifecycle' = (lifecycle \ {[kind |-> "INIT", lp |-> lp, ts |-> 0]})
                    \cup (IF lp = 0
                          THEN {Disable(l) : l \in LP \ Enabled} \cup {Start(l) : l \in LP}
                          ELSE {})

\* setup_master runs in LP 0 only and schedules for all.
SetupByMaster(lp) ==
  /\ lp_enabled' = [lp_enabled EXCEPT ![lp] = "LP_SETUP"]
  /\ lifecycle' = (lifecycle \ {[kind |-> "INIT", lp |-> lp, ts |-> 0]})
                    \cup (IF lp = 0
                          THEN {Disable(l) : l \in LP \ Enabled} \cup {Start(l) : l \in Enabled}
                          ELSE {})

\* "too few LPs".
TooFewLps(lp) == NumLP > NPrcTot /\ (SetupIndependent \/ lp = 0)

\* parseBinaryLpTopologyOneLPStripped looks up an LP that has no entry.
ReadsPastTable(lp) == SetupIndependent /\ lp >= NumLP

InitLp(v) ==
  /\ v.kind = "INIT"
  /\ Deliver(v)
  /\ \/ /\ ~TooFewLps(v.lp)
        /\ IF SetupIndependent THEN SetupIndependently(v.lp) ELSE SetupByMaster(v.lp)
        /\ UNCHANGED aborted
     \/ /\ TooFewLps(v.lp) \/ ReadsPastTable(v.lp)
        /\ aborted' = TRUE
        /\ UNCHANGED <<lp_enabled, lifecycle>>
  /\ UNCHANGED <<num_stable_elements, elementVars, updates, messages, outputVars>>

DisableUnusedLp(v) ==
  /\ v.kind = "DISABLE_UNUSED_LP"
  /\ Deliver(v)
  /\ lp_enabled' = [lp_enabled EXCEPT ![v.lp] = "LP_DISABLED"]
  /\ lifecycle' = lifecycle \ {v}
  /\ UNCHANGED <<num_stable_elements, elementVars, updates, messages, outputVars, aborted>>

\* The devices of an LP start; those that are counted start unstable and get
\* their first UPDATE_TIMESTAMP, shifted by their id.
StartSimulation(v) ==
  LET mine == {e \in Elements : LpOf[e] = v.lp}
  IN  /\ v.kind = "START_SIMULATION"
      /\ Deliver(v)
      /\ lp_enabled' = [lp_enabled EXCEPT ![v.lp] = "LP_ENABLED"]
      /\ num_stable_elements' = [num_stable_elements EXCEPT ![v.lp] = 0]
      /\ stability' = [e \in Elements |-> IF e \in mine THEN e \notin Counted ELSE stability[e]]
      /\ simulation_completed' =
           [e \in Elements |-> IF e \in mine THEN FALSE ELSE simulation_completed[e]]
      /\ updates' = updates \cup
           {[element_id |-> e, ts |-> v.ts + NextUpdateTimestamp + IdShift[e]] : e \in mine \cap Counted}
      /\ lifecycle' = lifecycle \ {v}
      /\ UNCHANGED <<messages, outputVars, aborted>>

-----------------------------------------------------------------------------
(* UPDATE_TIMESTAMP.                                                       *)

\* Mutant: the loop stops one LP short.
MutBroadcastSkipsLast(kind, e, ts) ==
  {[kind |-> kind, lp |-> lp, from |-> e, ts |-> ts] : lp \in 0 .. NumLP - 2}

\* Mutant: the loop runs one LP too far.
MutBroadcastTooFar(kind, e, ts) ==
  {[kind |-> kind, lp |-> lp, from |-> e, ts |-> ts] : lp \in 0 .. NumLP}

Broadcast(kind, e, ts) ==
  {[kind |-> kind, lp |-> lp, from |-> e, ts |-> ts] : lp \in Enabled}

\* Mutant: an element announces itself at the time limit, stable or not.
MutTimeLimitAlwaysAnnounces(v) ==
  LET e == v.element_id
  IN  /\ simulation_completed' = [simulation_completed EXCEPT ![e] = TRUE]
      /\ messages' = messages \cup Broadcast("STABILITY_ACQUIRED", e, v.ts)
      /\ updates' = updates \ {v}
      /\ UNCHANGED stability

\* Past MAX_SIMULATION_TIME an unstable element announces itself all the same,
\* and stops.
TimeLimit(v) ==
  LET e == v.element_id
  IN  /\ simulation_completed' = [simulation_completed EXCEPT ![e] = TRUE]
      /\ messages' = messages \cup
           (IF stability[e] THEN {} ELSE Broadcast("STABILITY_ACQUIRED", e, v.ts))
      /\ updates' = updates \ {v}
      /\ UNCHANGED stability

\* Mutant: a loss of stability is not announced.
MutLossNotAnnounced(v) ==
  LET e == v.element_id
  IN  \E check \in BOOLEAN :
        /\ stability' = [stability EXCEPT ![e] = check]
        /\ messages' = messages \cup
             (IF ~stability[e] /\ check THEN Broadcast("STABILITY_ACQUIRED", e, v.ts + ShiftEvent) ELSE {})
        /\ updates' = (updates \ {v}) \cup {[v EXCEPT !.ts = v.ts + NextUpdateTimestamp]}
        /\ UNCHANGED simulation_completed

\* The element checks its metrics and announces a change of its stability; the
\* verdict is the one of the disk for the central node and of the outgoing
\* direction for a LAN, which overwrites the one before it.
Check(v) ==
  LET e == v.element_id
  IN  \E check \in (IF v.ts > TransitionTimeLimit THEN BOOLEAN ELSE {stability[e]}) :
        /\ stability' = [stability EXCEPT ![e] = check]
        /\ messages' = messages \cup
             CASE ~stability[e] /\ check -> Broadcast("STABILITY_ACQUIRED", e, v.ts + ShiftEvent)
               [] stability[e] /\ ~check -> Broadcast("STABILITY_LOST", e, v.ts + ShiftEvent)
               [] OTHER -> {}
        /\ updates' = (updates \ {v}) \cup {[v EXCEPT !.ts = v.ts + NextUpdateTimestamp]}
        /\ UNCHANGED simulation_completed

\* Mutant: an element has nothing more to do once it is stable itself.
MutOwnStability(e) == stability[e] \/ simulation_completed[e]

\* All elements are stable, as far as the LP knows, or this one has stopped.
Settled(e) == num_stable_elements[LpOf[e]] = Total \/ simulation_completed[e]

UpdateTimestamp(v) ==
  /\ Deliver(v)
  /\ \/ /\ Settled(v.element_id)
        /\ updates' = updates \ {v}
        /\ UNCHANGED <<elementVars, messages>>
     \/ /\ ~Settled(v.element_id)
        /\ v.ts > MaxSimulationTime
        /\ TimeLimit(v)
     \/ /\ ~Settled(v.element_id)
        /\ v.ts <= MaxSimulationTime
        /\ Check(v)
  /\ UNCHANGED <<lpVars, lifecycle, outputVars, aborted>>

-----------------------------------------------------------------------------
(* STABILITY_ACQUIRED, STABILITY_LOST and OnGVT.                           *)

StabilityMessage(m) ==
  /\ Deliver(m)
  /\ num_stable_elements' =
       [num_stable_elements EXCEPT
         ![m.lp] = IF m.kind = "STABILITY_ACQUIRED" THEN @ + 1 ELSE @ - 1]
  /\ messages' = messages \ {m}
  /\ UNCHANGED <<lp_enabled, elementVars, lifecycle, updates, outputVars, aborted>>

\* Mutant: LANs are left out of total_number_of_elements.
MutAllCounted(lp) ==
  num_stable_elements[lp] = Cardinality({e \in Counted : TypeOf[e] # LAN})

AllCounted(lp) == num_stable_elements[lp] = Total

\* The first time, the stability of the LP's elements goes to its file with
\* the rest of the results; a file that exists is not written again.
WriteResults(lp) ==
  results' = [results EXCEPT
    ![lp] = IF @ = {} THEN {{e \in Elements : LpOf[e] = lp /\ stability[e]}} ELSE @]

\* The engine shows OnGVT the state of an LP in which all events up to now
\* have been processed.  An enabled LP without devices makes it read entry 0 of
\* an idmap it does not have: the program faults, or the dead load is gone and
\* the LP compares its count.
OnGVT(lp) ==
  /\ ~aborted
  /\ ~Halted
  /\ \A ts \in Pending : now < ts
  /\ \/ /\ lp_enabled[lp] = "LP_DISABLED"
        /\ finished' = finished \cup {lp}
        /\ UNCHANGED <<results, aborted>>
     \/ /\ lp_enabled[lp] = "LP_ENABLED"
        /\ AllCounted(lp)
        /\ finished' = finished \cup {lp}
        /\ WriteResults(lp)
        /\ UNCHANGED aborted
     \/ /\ lp_enabled[lp] = "LP_SETUP" \/ ~AllCounted(lp)
        /\ lp_enabled[lp] # "LP_DISABLED"
        /\ finished' = finished \ {lp}
        /\ UNCHANGED <<results, aborted>>
     \/ /\ lp_enabled[lp] = "LP_ENABLED"
        /\ lp \notin Enabled
        /\ aborted' = TRUE
        /\ UNCHANGED outputVars
  /\ UNCHANGED <<lpVars, elementVars, eventVars, now>>

-----------------------------------------------------------------------------

LifecycleStep == \E v \in lifecycle : InitLp(v) \/ DisableUnusedLp(v) \/ StartSimulation(v)

UpdateStep == \E v \in updates : UpdateTimestamp(v)

MessageStep == \E m \in messages : StabilityMessage(m)

GVTStep == \E lp \in LP : OnGVT(lp)

\* The program is over.
Done == (Halted \/ aborted) /\ UNCHANGED vars

Next == LifecycleStep \/ UpdateStep \/ MessageStep \/ GVTStep \/ Done

Spec == Init /\ [][Next]_vars

\* The engine goes on delivering the events it holds, and asks every LP again
\* and again.
Fairness ==
  /\ WF_vars(LifecycleStep)
  /\ WF_vars(UpdateStep)
  /\ WF_vars(MessageStep)
  /\ \A lp \in LP : WF_vars(OnGVT(lp))

FairSpec == Spec /\ Fairness

-----------------------------------------------------------------------------
(* Safety.                                                                 *)

\* The elements that count as stable, seen from the elements: those that found
\* themselves so at their last check, and those that ran into the time limit.
Settling == {e \in Counted : stability[e] \/ simulation_completed[e]}

Underway(kind, lp) == {m \in messages : m.kind = kind /\ m.lp = lp}

\* No LP loses or double-counts a change of stability: what an LP has counted,
\* with the messages on their way to it, is the number of elements that count
\* as stable.
CountsAgree ==
  \A lp \in Enabled \cap LP :
    num_stable_elements[lp] + Cardinality(Underway("STABILITY_ACQUIRED", lp))
      = Cardinality(Settling) + Cardinality(Underway("STABILITY_LOST", lp))

\* What CountsAgree rests on: setup is over before the first UPDATE_TIMESTAMP,
\* and an element's messages have arrived before its next one.
SetupFirst ==
  /\ \A v \in lifecycle : /\ v.ts <= TsStartSimulation
                          /\ v.kind = "START_SIMULATION" => v.ts = TsStartSimulation
                          /\ v.kind = "INIT" => v.ts < TsStartSimulation
  /\ \A v \in updates : v.element_id \in Counted /\ TsStartSimulation < v.ts
  /\ lifecycle # {} => /\ messages = {}
                       /\ Settling = {}
                       /\ \A lp \in LP : num_stable_elements[lp] = 0

MessagesBeforeNextUpdate ==
  \A v \in updates, m \in messages : m.from = v.element_id => m.ts < v.ts

OneChainPerElement ==
  /\ \A v, w \in updates : v.element_id = w.element_id => v = w
  /\ \A v \in lifecycle, w \in updates :
       /\ v.kind # "INIT"
       /\ v.kind = "START_SIMULATION" => LpOf[w.element_id] # v.lp

FewUnderway ==
  \A lp \in Enabled \cap LP : /\ IsFiniteSet(Underway("STABILITY_ACQUIRED", lp))
                            /\ IsFiniteSet(Underway("STABILITY_LOST", lp))

TerminationInv ==
  /\ TypeOK
  /\ FewUnderway
  /\ SetupFirst
  /\ MessagesBeforeNextUpdate
  /\ OneChainPerElement
  /\ CountsAgree

\* An element whose chain of UPDATE_TIMESTAMP events has ended counts as stable
\* for good: it stopped at the time limit, or its LP had counted everyone (and
\* none can change its mind any more).  An element that is reported as not stable
\* ran into the time limit.
NobodyForgotten ==
  \A e \in Counted :
    LET chain == {v \in updates : v.element_id = e}
    IN  /\ \A v, w \in chain : v = w
        /\ lp_enabled[LpOf[e]] = "LP_ENABLED" /\ chain = {} =>
             simulation_completed[e] \/ Settling = Counted
        /\ \A stable \in results[LpOf[e]] :
             e \notin stable => simulation_completed[e] /\ now > MaxSimulationTime

\* "simulation will continue, but LP %d will not be actively used".
UnusedLpStaysDisabled ==
  \A lp \in LP \ Enabled : lp_enabled[lp] # "LP_ENABLED"

(* Liveness.                                                               *)

\* A simulation with the right number of LPs ends, at the latest soon after
\* MAX_SIMULATION_TIME, with the results of every LP on file.
Terminates == <>(Halted /\ \A lp \in Enabled : results[lp] # {})

(* Refinement.                                                             *)

Seen == INSTANCE Convergence WITH
          Elements <- Counted,
          counted  <- Settling,
          ended    <- \E lp \in finished : lp_enabled[lp] = "LP_ENABLED"

\* The first LP to finish does so when every element counts as stable, and none
\* changes its mind afterwards: all LPs print results of the same steady state.
ImplementsConvergence == Seen!Spec

=============================================================================
