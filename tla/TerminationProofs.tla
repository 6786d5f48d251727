-------------------------- MODULE TerminationProofs ---------------------------
(***************************************************************************)
(* The termination protocol for any number of LPs and any topology, ids,   *)
(* period and limits.  No LP ever loses or double-counts a change of       *)
(* stability: TerminationInv is the inductive invariant.  Nobody is        *)
(* forgotten, and Termination implements Convergence: ConvergenceInv.      *)
(***************************************************************************)
EXTENDS Termination, FiniteSetTheorems, TLAPS

LEMMA SettlingFinite ==
  /\ IsFiniteSet(Settling)
  /\ Cardinality(Settling) \in Nat
<1>1. Settling \in SUBSET Elements
  BY DEF Settling, Counted
<1> QED BY <1>1, TerminationAssumption, FS_Subset, FS_CardinalityType, Zenon

\* Cardinality is defined on what is underway.
LEMMA UnderwayCount ==
  ASSUME FewUnderway, NEW lp \in Enabled \cap LP
  PROVE  /\ Cardinality(Underway("STABILITY_ACQUIRED", lp)) \in Nat
         /\ Cardinality(Underway("STABILITY_LOST", lp)) \in Nat
BY FS_CardinalityType DEF FewUnderway

\* A broadcast adds exactly one message to what is underway to each LP.
LEMMA BroadcastAddsOne ==
  ASSUME TypeOK, FewUnderway,
         NEW kind \in {"STABILITY_ACQUIRED", "STABILITY_LOST"},
         NEW other \in {"STABILITY_ACQUIRED", "STABILITY_LOST"}, other # kind,
         NEW e \in Elements, NEW ts \in Nat,
         \A m \in messages : m.from # e,
         messages' = messages \cup Broadcast(kind, e, ts),
         NEW lp \in Enabled \cap LP
  PROVE  /\ IsFiniteSet(Underway(kind, lp)')
         /\ Cardinality(Underway(kind, lp)') = Cardinality(Underway(kind, lp)) + 1
         /\ Underway(other, lp)' = Underway(other, lp)
<1> DEFINE new == [kind |-> kind, lp |-> lp, from |-> e, ts |-> ts]
<1>1. new \notin messages
  OBVIOUS
<1>2. \A m \in Broadcast(kind, e, ts) : m.lp = lp => m = new
  BY DEF Broadcast
<1>3. new \in Broadcast(kind, e, ts) /\ new.kind = kind /\ new.lp = lp
  BY DEF Broadcast
<1>4. \A m \in Broadcast(kind, e, ts) : m.kind = kind
  BY DEF Broadcast
<1> HIDE DEF new
<1>5. Underway(kind, lp)' = Underway(kind, lp) \cup {new}
  BY <1>2, <1>3 DEF Underway
<1>6. new \notin Underway(kind, lp) /\ IsFiniteSet(Underway(kind, lp))
  BY <1>1 DEF Underway, FewUnderway
<1>7. Underway(other, lp)' = Underway(other, lp)
  BY <1>4 DEF Underway
<1> QED BY <1>5, <1>6, <1>7, FS_AddElement

LEMMA BroadcastType ==
  ASSUME NEW kind \in {"STABILITY_ACQUIRED", "STABILITY_LOST"},
         NEW e \in Elements, NEW ts \in Nat
  PROVE  /\ Broadcast(kind, e, ts) \subseteq Message
         /\ \A m \in Broadcast(kind, e, ts) : m.from = e /\ m.ts = ts
BY DEF Broadcast, Message, Enabled

\* Nothing pending is earlier than the event being processed.
LEMMA DeliverEarliest ==
  ASSUME NEW v, Deliver(v)
  PROVE  /\ \A w \in lifecycle : v.ts <= w.ts
         /\ \A w \in updates : v.ts <= w.ts
         /\ \A w \in messages : v.ts <= w.ts
         /\ now' = v.ts
BY DEF Deliver, Pending

-----------------------------------------------------------------------------
(* Setup.                                                                  *)

LEMMA InitPreserves ==
  ASSUME TerminationInv, NEW v \in lifecycle, InitLp(v)
  PROVE  TerminationInv'
<1>1. /\ v.kind = "INIT" /\ v.lp \in LP /\ v.ts \in Nat /\ now' = v.ts
      /\ UNCHANGED <<num_stable_elements, stability, simulation_completed,
                     updates, messages, results, finished>>
  BY DEF InitLp, Deliver, TerminationInv, TypeOK, Lifecycle, elementVars, outputVars
<1>2. updates = {}
  BY <1>1 DEF TerminationInv, OneChainPerElement
<1>3. /\ lp_enabled' \in [LP -> {"LP_DISABLED", "LP_SETUP", "LP_ENABLED"}]
      /\ aborted' \in BOOLEAN
  BY DEF InitLp, SetupIndependently, SetupByMaster, TerminationInv, TypeOK
<1>4. ASSUME NEW w \in lifecycle', w \notin lifecycle
      PROVE  /\ w \in Lifecycle
             /\ w.ts <= TsStartSimulation
             /\ w.kind = "START_SIMULATION" => w.ts = TsStartSimulation
             /\ w.kind # "INIT"
  <2>1. CASE w = Start(v.lp)
    BY <2>1, <1>1, TerminationAssumption DEF Start, Lifecycle
  <2>2. CASE \E l \in LP \ Enabled : w = Disable(l)
    BY <2>2, TerminationAssumption DEF Disable, Lifecycle
  <2>3. CASE v.lp = 0 /\ ~TooFewLps(v.lp) /\ \E l \in Enabled : w = Start(l)
    <3>1. Enabled \subseteq LP
      BY <2>3, TerminationAssumption DEF TooFewLps, Enabled, LP
    <3> QED BY <2>3, <3>1, TerminationAssumption DEF Start, Lifecycle
  <2> QED
    BY <1>4, <2>1, <2>2, <2>3 DEF InitLp, SetupIndependently, SetupByMaster
<1>5. TypeOK'
  BY <1>1, <1>3, <1>4 DEF TerminationInv, TypeOK
<1>6. SetupFirst'
  BY <1>1, <1>2, <1>4 DEF TerminationInv, SetupFirst, Settling
<1>7. FewUnderway' /\ MessagesBeforeNextUpdate' /\ OneChainPerElement'
  BY <1>1, <1>2 DEF TerminationInv, FewUnderway, Underway, MessagesBeforeNextUpdate, OneChainPerElement
<1>8. CountsAgree'
  BY <1>1 DEF TerminationInv, CountsAgree, Underway, Settling
<1> QED BY <1>5, <1>6, <1>7, <1>8 DEF TerminationInv

LEMMA DisablePreserves ==
  ASSUME TerminationInv, NEW v \in lifecycle, DisableUnusedLp(v)
  PROVE  TerminationInv'
<1>1. /\ v \in Lifecycle /\ now' = v.ts /\ lifecycle' = lifecycle \ {v}
      /\ lp_enabled' = [lp_enabled EXCEPT ![v.lp] = "LP_DISABLED"]
      /\ UNCHANGED <<num_stable_elements, stability, simulation_completed,
                     updates, messages, results, finished, aborted>>
  BY DEF DisableUnusedLp, Deliver, TerminationInv, TypeOK, elementVars, outputVars
<1>2. TypeOK'
  BY <1>1 DEF TerminationInv, TypeOK, Lifecycle
<1>3. SetupFirst' /\ OneChainPerElement'
  BY <1>1 DEF TerminationInv, SetupFirst, OneChainPerElement, Settling
<1>4. FewUnderway' /\ MessagesBeforeNextUpdate' /\ CountsAgree'
  BY <1>1 DEF TerminationInv, FewUnderway, MessagesBeforeNextUpdate, CountsAgree, Underway, Settling
<1> QED BY <1>2, <1>3, <1>4 DEF TerminationInv

LEMMA StartPreserves ==
  ASSUME TerminationInv, NEW v \in lifecycle, StartSimulation(v)
  PROVE  TerminationInv'
<1> DEFINE mine == {e \in Elements : LpOf[e] = v.lp}
           new(e) == [element_id |-> e, ts |-> v.ts + NextUpdateTimestamp + IdShift[e]]
<1>1. /\ v \in Lifecycle /\ v.kind = "START_SIMULATION" /\ now' = v.ts
      /\ lp_enabled' = [lp_enabled EXCEPT ![v.lp] = "LP_ENABLED"]
      /\ num_stable_elements' = [num_stable_elements EXCEPT ![v.lp] = 0]
      /\ stability' = [e \in Elements |-> IF e \in mine THEN e \notin Counted ELSE stability[e]]
      /\ simulation_completed' =
           [e \in Elements |-> IF e \in mine THEN FALSE ELSE simulation_completed[e]]
      /\ updates' = updates \cup {new(e) : e \in mine \cap Counted}
      /\ lifecycle' = lifecycle \ {v}
      /\ UNCHANGED <<messages, results, finished, aborted>>
  BY DEF StartSimulation, Deliver, TerminationInv, TypeOK, outputVars
<1>2. /\ v.ts = TsStartSimulation /\ messages = {} /\ Settling = {}
      /\ \A lp \in LP : num_stable_elements[lp] = 0
      /\ v.ts \in Nat /\ v.lp \in LP
  BY <1>1 DEF TerminationInv, SetupFirst, Lifecycle
<1>3. \A e \in mine \cap Counted : new(e) \in Update /\ TsStartSimulation < new(e).ts
                                   /\ new(e).element_id = e
  BY <1>2, TerminationAssumption DEF Update, Counted
<1>4. Settling' = {}
  BY <1>1, <1>2 DEF Settling, Counted
<1>5. \A lp \in LP : num_stable_elements'[lp] = 0
  BY <1>1, <1>2 DEF TerminationInv, TypeOK
<1>6. \A w \in lifecycle' : w.kind # "INIT"
  <2>1. \A w \in lifecycle : w.ts \in Nat /\ (w.kind = "INIT" => w.ts < TsStartSimulation)
    BY DEF TerminationInv, SetupFirst, TypeOK, Lifecycle
  <2> QED BY <1>1, <1>2, <2>1, DeliverEarliest, TerminationAssumption DEF StartSimulation
<1>7. TypeOK'
  <2>1. updates' \subseteq Update
    BY <1>1, <1>3 DEF TerminationInv, TypeOK
  <2>2. stability' \in [Elements -> BOOLEAN] /\ simulation_completed' \in [Elements -> BOOLEAN]
    BY <1>1 DEF TerminationInv, TypeOK
  <2> QED BY <1>1, <1>2, <2>1, <2>2 DEF TerminationInv, TypeOK
<1>8. SetupFirst'
  BY <1>1, <1>2, <1>3, <1>4, <1>5 DEF TerminationInv, SetupFirst
<1>9. OneChainPerElement'
  <2>1. \A w \in updates : LpOf[w.element_id] # v.lp
    BY <1>1 DEF TerminationInv, OneChainPerElement
  <2>2. \A x \in updates' : x \in updates \/ (x.element_id \in mine /\ x = new(x.element_id))
    BY <1>1, <1>3
  <2>3. \A x, y \in updates' : x.element_id = y.element_id => x = y
    BY <2>1, <2>2 DEF TerminationInv, OneChainPerElement
  <2>4. \A w \in lifecycle', x \in updates' :
          w.kind = "START_SIMULATION" => LpOf[x.element_id] # w.lp
    <3>1. \A w \in lifecycle' : w.kind = "START_SIMULATION" => w.lp # v.lp
      BY <1>1, <1>2 DEF TerminationInv, TypeOK, SetupFirst, Lifecycle
    <3> QED BY <1>1, <2>2, <3>1 DEF TerminationInv, OneChainPerElement
  <2> QED BY <1>6, <2>3, <2>4 DEF OneChainPerElement
<1>10. FewUnderway' /\ MessagesBeforeNextUpdate'
  BY <1>1, <1>2 DEF TerminationInv, FewUnderway, Underway, MessagesBeforeNextUpdate
<1>11. CountsAgree'
  BY <1>1, <1>2, <1>4, <1>5, FS_EmptySet DEF CountsAgree, Underway
<1> QED BY <1>7, <1>8, <1>9, <1>10, <1>11 DEF TerminationInv

-----------------------------------------------------------------------------
(* UPDATE_TIMESTAMP.                                                       *)

LEMMA UpdateFacts ==
  ASSUME TerminationInv, NEW v \in updates, UpdateTimestamp(v)
  PROVE  /\ v \in Update /\ v.element_id \in Counted /\ v.element_id \in Elements /\ v.ts \in Nat
         /\ now' = v.ts
         /\ lifecycle = {}
         /\ \A m \in messages : m.from # v.element_id
         /\ \A w \in updates : w.element_id = v.element_id => w = v
         /\ UNCHANGED <<lp_enabled, num_stable_elements, lifecycle, results, finished, aborted>>
<1>1. /\ Deliver(v)
      /\ UNCHANGED <<lp_enabled, num_stable_elements, lifecycle, results, finished, aborted>>
  BY DEF UpdateTimestamp, lpVars, outputVars
<1>2. /\ v \in Update /\ v.element_id \in Counted /\ TsStartSimulation < v.ts
      /\ v.element_id \in Elements /\ v.ts \in Nat
  BY DEF TerminationInv, TypeOK, SetupFirst, Update, Counted
<1>3. lifecycle = {}
  <2>1. \A w \in lifecycle : v.ts <= w.ts /\ w.ts <= TsStartSimulation /\ w.ts \in Nat
    BY <1>1, DeliverEarliest DEF TerminationInv, SetupFirst, TypeOK, Lifecycle
  <2> QED BY <1>2, <2>1, TerminationAssumption
<1>4. \A m \in messages : m.from # v.element_id
  <2>1. \A m \in messages : v.ts <= m.ts /\ m.ts \in Nat
    BY <1>1, DeliverEarliest DEF TerminationInv, TypeOK, Message
  <2> QED BY <1>2, <2>1 DEF TerminationInv, MessagesBeforeNextUpdate
<1>5. \A w \in updates : w.element_id = v.element_id => w = v
  BY DEF TerminationInv, OneChainPerElement
<1> QED BY <1>1, <1>2, <1>3, <1>4, <1>5, DeliverEarliest

\* One element joins or leaves Settling and tells every LP so.
LEMMA AnnouncedChange ==
  ASSUME TerminationInv, NEW e \in Counted, NEW ts \in Nat,
         NEW kind \in {"STABILITY_ACQUIRED", "STABILITY_LOST"},
         \A m \in messages : m.from # e,
         messages' = messages \cup Broadcast(kind, e, ts),
         UNCHANGED num_stable_elements,
         kind = "STABILITY_ACQUIRED" => e \notin Settling /\ Settling' = Settling \cup {e},
         kind = "STABILITY_LOST" => e \in Settling /\ Settling' = Settling \ {e}
  PROVE  FewUnderway' /\ CountsAgree'
<1>0. e \in Elements /\ TypeOK /\ FewUnderway
  BY DEF Counted, TerminationInv
<1>1. CASE kind = "STABILITY_ACQUIRED"
  <2>1. Cardinality(Settling') = Cardinality(Settling) + 1
    BY <1>1, SettlingFinite, FS_AddElement
  <2>2. ASSUME NEW lp \in Enabled \cap LP
        PROVE  /\ IsFiniteSet(Underway("STABILITY_ACQUIRED", lp)')
               /\ Cardinality(Underway("STABILITY_ACQUIRED", lp)')
                    = Cardinality(Underway("STABILITY_ACQUIRED", lp)) + 1
               /\ Underway("STABILITY_LOST", lp)' = Underway("STABILITY_LOST", lp)
    BY <1>0, <1>1, BroadcastAddsOne
  <2>3. FewUnderway'
    BY <2>2 DEF TerminationInv, FewUnderway
  <2>4. ASSUME NEW lp \in Enabled \cap LP
        PROVE  num_stable_elements'[lp] + Cardinality(Underway("STABILITY_ACQUIRED", lp)')
                 = Cardinality(Settling') + Cardinality(Underway("STABILITY_LOST", lp)')
    <3>1. num_stable_elements[lp] \in Int
      BY DEF TerminationInv, TypeOK
    <3>2. num_stable_elements[lp] + Cardinality(Underway("STABILITY_ACQUIRED", lp))
            = Cardinality(Settling) + Cardinality(Underway("STABILITY_LOST", lp))
      BY DEF TerminationInv, CountsAgree
    <3> QED BY <1>0, <2>1, <2>2, <3>1, <3>2, SettlingFinite, UnderwayCount
  <2> QED BY <2>3, <2>4 DEF CountsAgree
<1>2. CASE kind = "STABILITY_LOST"
  <2>1. Cardinality(Settling') = Cardinality(Settling) - 1
    BY <1>2, SettlingFinite, FS_RemoveElement
  <2>2. ASSUME NEW lp \in Enabled \cap LP
        PROVE  /\ IsFiniteSet(Underway("STABILITY_LOST", lp)')
               /\ Cardinality(Underway("STABILITY_LOST", lp)')
                    = Cardinality(Underway("STABILITY_LOST", lp)) + 1
               /\ Underway("STABILITY_ACQUIRED", lp)' = Underway("STABILITY_ACQUIRED", lp)
    BY <1>0, <1>2, BroadcastAddsOne
  <2>3. FewUnderway'
    BY <2>2 DEF TerminationInv, FewUnderway
  <2>4. ASSUME NEW lp \in Enabled \cap LP
        PROVE  num_stable_elements'[lp] + Cardinality(Underway("STABILITY_ACQUIRED", lp)')
                 = Cardinality(Settling') + Cardinality(Underway("STABILITY_LOST", lp)')
    <3>1. num_stable_elements[lp] \in Int
      BY DEF TerminationInv, TypeOK
    <3>2. num_stable_elements[lp] + Cardinality(Underway("STABILITY_ACQUIRED", lp))
            = Cardinality(Settling) + Cardinality(Underway("STABILITY_LOST", lp))
      BY DEF TerminationInv, CountsAgree
    <3> QED BY <1>0, <2>1, <2>2, <3>1, <3>2, SettlingFinite, UnderwayCount
  <2> QED BY <2>3, <2>4 DEF CountsAgree
<1> QED BY <1>1, <1>2

\* No change is announced and none has happened.
LEMMA NothingAnnounced ==
  ASSUME TerminationInv, UNCHANGED <<messages, num_stable_elements>>, Settling' = Settling
  PROVE  FewUnderway' /\ CountsAgree'
BY DEF TerminationInv, FewUnderway, CountsAgree, Underway

LEMMA TimeLimitPreserves ==
  ASSUME TerminationInv, NEW v \in updates, UpdateTimestamp(v),
         ~Settled(v.element_id), TimeLimit(v)
  PROVE  TerminationInv'
<1> DEFINE e == v.element_id
<1>1. /\ v \in Update /\ e \in Counted /\ e \in Elements /\ v.ts \in Nat /\ now' = v.ts
      /\ lifecycle = {} /\ lifecycle' = {}
      /\ \A m \in messages : m.from # e
      /\ \A w \in updates : w.element_id = e => w = v
      /\ UNCHANGED <<lp_enabled, num_stable_elements, results, finished, aborted>>
  BY UpdateFacts
<1>2. /\ simulation_completed' = [simulation_completed EXCEPT ![e] = TRUE]
      /\ messages' = messages \cup
           (IF stability[e] THEN {} ELSE Broadcast("STABILITY_ACQUIRED", e, v.ts))
      /\ updates' = updates \ {v}
      /\ UNCHANGED stability
      /\ ~simulation_completed[e]
  BY DEF TimeLimit, Settled
<1>3. messages' \subseteq Message /\ \A m \in messages' : m \in messages \/ m.from = e
  BY <1>1, <1>2, BroadcastType DEF TerminationInv, TypeOK
<1>4. TypeOK'
  BY <1>1, <1>2, <1>3 DEF TerminationInv, TypeOK
<1>5. SetupFirst' /\ OneChainPerElement'
  BY <1>1, <1>2 DEF TerminationInv, SetupFirst, OneChainPerElement
<1>6. MessagesBeforeNextUpdate'
  BY <1>1, <1>2, <1>3 DEF TerminationInv, MessagesBeforeNextUpdate
<1>7. FewUnderway' /\ CountsAgree'
  <2>1. CASE stability[e]
    <3>1. Settling' = Settling
      BY <1>1, <1>2, <2>1 DEF Settling, TerminationInv, TypeOK
    <3> QED BY <1>1, <1>2, <2>1, <3>1, NothingAnnounced
  <2>2. CASE ~stability[e]
    <3>1. e \notin Settling /\ Settling' = Settling \cup {e}
      BY <1>1, <1>2, <2>2 DEF Settling, TerminationInv, TypeOK
    <3> QED BY <1>1, <1>2, <2>2, <3>1, AnnouncedChange
  <2> QED BY <2>1, <2>2
<1> QED BY <1>4, <1>5, <1>6, <1>7 DEF TerminationInv

LEMMA CheckPreserves ==
  ASSUME TerminationInv, NEW v \in updates, UpdateTimestamp(v),
         ~Settled(v.element_id), Check(v)
  PROVE  TerminationInv'
<1> DEFINE e    == v.element_id
           next == [v EXCEPT !.ts = v.ts + NextUpdateTimestamp]
<1>1. /\ v \in Update /\ e \in Counted /\ e \in Elements /\ v.ts \in Nat /\ now' = v.ts
      /\ lifecycle = {} /\ lifecycle' = {}
      /\ \A m \in messages : m.from # e
      /\ \A w \in updates : w.element_id = e => w = v
      /\ UNCHANGED <<lp_enabled, num_stable_elements, results, finished, aborted>>
  BY UpdateFacts
<1>2. PICK check \in BOOLEAN :
        /\ stability' = [stability EXCEPT ![e] = check]
        /\ messages' = messages \cup
             CASE ~stability[e] /\ check -> Broadcast("STABILITY_ACQUIRED", e, v.ts + ShiftEvent)
               [] stability[e] /\ ~check -> Broadcast("STABILITY_LOST", e, v.ts + ShiftEvent)
               [] OTHER -> {}
        /\ updates' = (updates \ {v}) \cup {next}
        /\ UNCHANGED simulation_completed
  BY <1>1 DEF Check, TerminationInv, TypeOK
<1>3. ~simulation_completed[e] /\ stability[e] \in BOOLEAN
  BY <1>1 DEF Settled, TerminationInv, TypeOK
<1>4. next \in Update /\ next.element_id = e /\ next.ts = v.ts + NextUpdateTimestamp
  BY <1>1, TerminationAssumption DEF Update
<1>5. v.ts + ShiftEvent \in Nat /\ v.ts + ShiftEvent < next.ts /\ v.ts < next.ts
  BY <1>1, <1>4, TerminationAssumption
<1> HIDE DEF next
<1>6. /\ messages' \subseteq Message
      /\ \A m \in messages' : m \in messages \/ (m.from = e /\ m.ts = v.ts + ShiftEvent)
  <2>1. CASE ~stability[e] /\ check
    BY <1>1, <1>2, <1>5, <2>1, BroadcastType DEF TerminationInv, TypeOK
  <2>2. CASE stability[e] /\ ~check
    BY <1>1, <1>2, <1>5, <2>2, BroadcastType DEF TerminationInv, TypeOK
  <2>3. CASE stability[e] = check
    BY <1>2, <2>3 DEF TerminationInv, TypeOK
  <2> QED BY <1>3, <2>1, <2>2, <2>3
<1>7. TypeOK'
  BY <1>1, <1>2, <1>4, <1>6 DEF TerminationInv, TypeOK
<1>8. SetupFirst' /\ OneChainPerElement'
  <2>1. TsStartSimulation < next.ts
    BY <1>1, <1>5, <1>4, TerminationAssumption DEF TerminationInv, SetupFirst
  <2>2. \A w \in updates' : w = next \/ (w \in updates /\ w.element_id # e)
    BY <1>1, <1>2
  <2> QED BY <1>1, <1>4, <2>1, <2>2 DEF TerminationInv, SetupFirst, OneChainPerElement
<1>9. MessagesBeforeNextUpdate'
  BY <1>1, <1>2, <1>4, <1>5, <1>6 DEF TerminationInv, MessagesBeforeNextUpdate
<1>10. FewUnderway' /\ CountsAgree'
  <2>1. CASE ~stability[e] /\ check
    <3>1. e \notin Settling /\ Settling' = Settling \cup {e}
      BY <1>1, <1>2, <1>3, <2>1 DEF Settling, TerminationInv, TypeOK
    <3>2. messages' = messages \cup Broadcast("STABILITY_ACQUIRED", e, v.ts + ShiftEvent)
      BY <1>2, <2>1
    <3> QED BY <1>1, <1>5, <3>1, <3>2, AnnouncedChange
  <2>2. CASE stability[e] /\ ~check
    <3>1. e \in Settling /\ Settling' = Settling \ {e}
      BY <1>1, <1>2, <1>3, <2>2 DEF Settling, TerminationInv, TypeOK
    <3>2. messages' = messages \cup Broadcast("STABILITY_LOST", e, v.ts + ShiftEvent)
      BY <1>2, <2>2
    <3> QED BY <1>1, <1>5, <3>1, <3>2, AnnouncedChange
  <2>3. CASE stability[e] = check
    <3>1. Settling' = Settling
      BY <1>1, <1>2, <2>3 DEF Settling, TerminationInv, TypeOK
    <3>2. messages' = messages
      BY <1>2, <2>3
    <3> QED BY <1>1, <3>1, <3>2, NothingAnnounced
  <2> QED BY <1>3, <2>1, <2>2, <2>3
<1> QED BY <1>7, <1>8, <1>9, <1>10 DEF TerminationInv

LEMMA UpdatePreserves ==
  ASSUME TerminationInv, NEW v \in updates, UpdateTimestamp(v)
  PROVE  TerminationInv'
<1>1. CASE /\ updates' = updates \ {v}
           /\ UNCHANGED <<elementVars, messages>>
  <2>1. /\ v \in Update /\ v.ts \in Nat /\ now' = v.ts
        /\ UNCHANGED <<lp_enabled, num_stable_elements, lifecycle, results, finished, aborted,
                       stability, simulation_completed, messages>>
    BY <1>1, UpdateFacts DEF elementVars
  <2>2. TypeOK' /\ SetupFirst' /\ OneChainPerElement' /\ MessagesBeforeNextUpdate'
    BY <1>1, <2>1
       DEF TerminationInv, TypeOK, SetupFirst, OneChainPerElement, MessagesBeforeNextUpdate, Settling
  <2>3. Settling' = Settling
    BY <2>1 DEF Settling
  <2> QED BY <2>1, <2>2, <2>3, NothingAnnounced DEF TerminationInv
<1>2. CASE ~Settled(v.element_id) /\ TimeLimit(v)
  BY <1>2, TimeLimitPreserves
<1>3. CASE ~Settled(v.element_id) /\ Check(v)
  BY <1>3, CheckPreserves
<1> QED BY <1>1, <1>2, <1>3 DEF UpdateTimestamp

-----------------------------------------------------------------------------
(* STABILITY_ACQUIRED, STABILITY_LOST and OnGVT.                           *)

LEMMA MessagePreserves ==
  ASSUME TerminationInv, NEW m \in messages, StabilityMessage(m)
  PROVE  TerminationInv'
<1>1. /\ m \in Message /\ m.ts \in Nat /\ now' = m.ts
      /\ messages' = messages \ {m}
      /\ num_stable_elements' =
           [num_stable_elements EXCEPT
             ![m.lp] = IF m.kind = "STABILITY_ACQUIRED" THEN @ + 1 ELSE @ - 1]
      /\ UNCHANGED <<lp_enabled, stability, simulation_completed, lifecycle, updates,
                     results, finished, aborted>>
  BY DEF StabilityMessage, Deliver, TerminationInv, TypeOK, Message, elementVars, outputVars
<1>2. TypeOK'
  <2>1. num_stable_elements \in [LP -> Int]
    BY DEF TerminationInv, TypeOK
  <2> DEFINE new == IF m.kind = "STABILITY_ACQUIRED" THEN num_stable_elements[m.lp] + 1
                    ELSE num_stable_elements[m.lp] - 1
  <2>2. num_stable_elements' = [num_stable_elements EXCEPT ![m.lp] = new]
    BY <1>1
  <2>3. m.lp \in LP => new \in Int
    BY <2>1
  <2> HIDE DEF new
  <2>4. num_stable_elements' \in [LP -> Int]
    BY <2>1, <2>2, <2>3
  <2> QED BY <1>1, <2>4 DEF TerminationInv, TypeOK
<1>3. lifecycle = {}
  BY DEF TerminationInv, SetupFirst
<1>4. SetupFirst' /\ OneChainPerElement' /\ MessagesBeforeNextUpdate'
  BY <1>1, <1>3 DEF TerminationInv, SetupFirst, OneChainPerElement, MessagesBeforeNextUpdate
<1>5. Settling' = Settling
  BY <1>1 DEF Settling
<1>6. ASSUME NEW lp \in Enabled \cap LP
      PROVE  /\ IsFiniteSet(Underway("STABILITY_ACQUIRED", lp)')
             /\ IsFiniteSet(Underway("STABILITY_LOST", lp)')
             /\ num_stable_elements'[lp] + Cardinality(Underway("STABILITY_ACQUIRED", lp)')
                  = Cardinality(Settling') + Cardinality(Underway("STABILITY_LOST", lp)')
  <2> DEFINE acq  == Underway("STABILITY_ACQUIRED", lp)
             lost == Underway("STABILITY_LOST", lp)
  <2>1. /\ IsFiniteSet(acq) /\ IsFiniteSet(lost)
        /\ Cardinality(acq) \in Nat /\ Cardinality(lost) \in Nat
        /\ num_stable_elements[lp] \in Int
        /\ num_stable_elements[lp] + Cardinality(acq) = Cardinality(Settling) + Cardinality(lost)
    BY UnderwayCount DEF TerminationInv, FewUnderway, CountsAgree, TypeOK
  <2>2. CASE m.lp # lp
    <3>1. acq' = acq /\ lost' = lost
      BY <1>1, <2>2 DEF Underway
    <3>2. num_stable_elements'[lp] = num_stable_elements[lp]
      BY <1>1, <2>2 DEF TerminationInv, TypeOK
    <3> QED BY <1>5, <2>1, <3>1, <3>2
  <2>3. CASE m.lp = lp /\ m.kind = "STABILITY_ACQUIRED"
    <3>1. acq' = acq \ {m} /\ lost' = lost /\ m \in acq
      BY <1>1, <2>3 DEF Underway
    <3>2. num_stable_elements'[lp] = num_stable_elements[lp] + 1
      BY <1>1, <2>3 DEF TerminationInv, TypeOK
    <3> HIDE DEF acq, lost
    <3>3. IsFiniteSet(acq') /\ Cardinality(acq') = Cardinality(acq) - 1
      BY <2>1, <3>1, FS_RemoveElement
    <3>4. num_stable_elements'[lp] + Cardinality(acq') = Cardinality(Settling') + Cardinality(lost')
      BY <1>5, <2>1, <3>1, <3>2, <3>3, SettlingFinite
    <3> QED BY <2>1, <3>1, <3>3, <3>4 DEF acq, lost
  <2>4. CASE m.lp = lp /\ m.kind = "STABILITY_LOST"
    <3>1. lost' = lost \ {m} /\ acq' = acq /\ m \in lost
      BY <1>1, <2>4 DEF Underway
    <3>2. num_stable_elements'[lp] = num_stable_elements[lp] - 1
      BY <1>1, <2>4 DEF TerminationInv, TypeOK
    <3> HIDE DEF acq, lost
    <3>3. IsFiniteSet(lost') /\ Cardinality(lost') = Cardinality(lost) - 1
      BY <2>1, <3>1, FS_RemoveElement
    <3>4. num_stable_elements'[lp] + Cardinality(acq') = Cardinality(Settling') + Cardinality(lost')
      BY <1>5, <2>1, <3>1, <3>2, <3>3, SettlingFinite
    <3> QED BY <2>1, <3>1, <3>3, <3>4 DEF acq, lost
  <2> QED BY <1>1, <2>2, <2>3, <2>4 DEF Message
<1> QED BY <1>2, <1>4, <1>6 DEF TerminationInv, FewUnderway, CountsAgree

LEMMA OnGVTPreserves ==
  ASSUME TerminationInv, NEW lp \in LP, OnGVT(lp)
  PROVE  TerminationInv'
<1>1. UNCHANGED <<lp_enabled, num_stable_elements, stability, simulation_completed,
                  lifecycle, updates, messages, now>>
  BY DEF OnGVT, lpVars, elementVars, eventVars
<1>2. /\ finished' \subseteq LP /\ aborted' \in BOOLEAN
      /\ results' \in [LP -> SUBSET SUBSET Elements]
  <2>1. /\ finished \subseteq LP /\ aborted \in BOOLEAN
        /\ results \in [LP -> SUBSET SUBSET Elements]
    BY DEF TerminationInv, TypeOK
  <2>2. finished' \subseteq LP /\ aborted' \in BOOLEAN
    BY <2>1 DEF OnGVT, outputVars
  <2> DEFINE stable == {e \in Elements : LpOf[e] = lp /\ stability[e]}
             file   == IF results[lp] = {} THEN {stable} ELSE results[lp]
  <2>3. file \in SUBSET SUBSET Elements
    <3>1. stable \in SUBSET Elements
      OBVIOUS
    <3> HIDE DEF stable
    <3> QED BY <2>1, <3>1
  <2>4. results' = results \/ results' = [results EXCEPT ![lp] = file]
    BY DEF OnGVT, WriteResults, outputVars
  <2> HIDE DEF file
  <2> QED BY <2>1, <2>2, <2>3, <2>4
<1>3. TypeOK'
  BY <1>1, <1>2 DEF TerminationInv, TypeOK
<1>4. Settling' = Settling
  BY <1>1 DEF Settling
<1>5. SetupFirst' /\ OneChainPerElement' /\ MessagesBeforeNextUpdate'
  BY <1>1, <1>4 DEF TerminationInv, SetupFirst, OneChainPerElement, MessagesBeforeNextUpdate
<1> QED BY <1>1, <1>3, <1>4, <1>5, NothingAnnounced DEF TerminationInv

-----------------------------------------------------------------------------
(* The theorems.                                                           *)

LEMMA InitEstablishes == Init => TerminationInv
<1> SUFFICES ASSUME Init PROVE TerminationInv
  OBVIOUS
<1>1. TypeOK
  <2>1. lifecycle \subseteq Lifecycle
    BY DEF Init, Lifecycle
  <2>2. /\ lp_enabled \in [LP -> {"LP_DISABLED", "LP_SETUP", "LP_ENABLED"}]
        /\ num_stable_elements \in [LP -> Int]
        /\ results \in [LP -> SUBSET SUBSET Elements]
    BY DEF Init
  <2>3. /\ stability \in [Elements -> BOOLEAN]
        /\ simulation_completed \in [Elements -> BOOLEAN]
    BY DEF Init
  <2> QED BY <2>1, <2>2, <2>3 DEF Init, TypeOK
<1>2. Settling = {} /\ messages = {} /\ updates = {}
  BY DEF Init, Settling, Counted
<1>3. FewUnderway /\ MessagesBeforeNextUpdate /\ OneChainPerElement
  BY <1>2, FS_EmptySet DEF FewUnderway, Underway, MessagesBeforeNextUpdate, OneChainPerElement
<1>4. SetupFirst
  BY <1>2, TerminationAssumption DEF Init, SetupFirst
<1>5. CountsAgree
  BY <1>2, FS_EmptySet DEF Init, CountsAgree, Underway
<1> QED BY <1>1, <1>3, <1>4, <1>5 DEF TerminationInv

\* Setup ends before the first check, an element's messages arrive before its
\* next check, and the counts add up, in every reachable state.
THEOREM TerminationInvariant == Spec => []TerminationInv
<1>1. TerminationInv /\ [Next]_vars => TerminationInv'
  <2> SUFFICES ASSUME TerminationInv, [Next]_vars PROVE TerminationInv'
    OBVIOUS
  <2>1. CASE LifecycleStep
    BY <2>1, InitPreserves, DisablePreserves, StartPreserves DEF LifecycleStep
  <2>2. CASE UpdateStep
    BY <2>2, UpdatePreserves DEF UpdateStep
  <2>3. CASE MessageStep
    BY <2>3, MessagePreserves DEF MessageStep
  <2>4. CASE GVTStep
    BY <2>4, OnGVTPreserves DEF GVTStep
  <2>5. CASE UNCHANGED vars
    BY <2>5 DEF vars, TerminationInv, TypeOK, FewUnderway, Underway, SetupFirst,
                MessagesBeforeNextUpdate, OneChainPerElement, CountsAgree, Settling
  <2> QED BY <2>1, <2>2, <2>3, <2>4, <2>5 DEF Next, Done
<1> QED BY <1>1, InitEstablishes, PTL DEF Spec

\* Types of the LPs, elements and events.
THEOREM TypeCorrect == Spec => []TypeOK
<1>1. TerminationInv => TypeOK
  BY DEF TerminationInv
<1> QED BY <1>1, TerminationInvariant, PTL

\* What an LP has counted, with the messages on their way to it, is always the
\* number of elements that count as stable: the test in OnGVT compares the
\* topology's total with the truth, however many LPs and elements there are.
THEOREM CountsAlwaysAgree == Spec => []CountsAgree
<1>1. TerminationInv => CountsAgree
  BY DEF TerminationInv
<1> QED BY <1>1, TerminationInvariant, PTL

\* With setup_master an LP that the topology does not need is never enabled;
\* setup_independent lacks this (run TerminationUnusedLp).
THEOREM SpareLpsStayDisabled ==
  ASSUME ~SetupIndependent
  PROVE  Spec => []UnusedLpStaysDisabled
<1> DEFINE OnlyNeededStart ==
             \A v \in lifecycle : v.kind = "START_SIMULATION" => v.lp \in Enabled
           Inv == UnusedLpStaysDisabled /\ OnlyNeededStart
<1>1. Init => Inv
  BY DEF Init, UnusedLpStaysDisabled
<1>2. TypeOK /\ Inv /\ [Next]_vars => Inv'
  <2> SUFFICES ASSUME TypeOK, Inv, [Next]_vars PROVE Inv'
    OBVIOUS
  <2>1. ASSUME NEW v \in lifecycle, InitLp(v) PROVE Inv'
    <3>1. lp_enabled' = lp_enabled \/ lp_enabled' = [lp_enabled EXCEPT ![v.lp] = "LP_SETUP"]
      BY <2>1 DEF InitLp, SetupByMaster
    <3>2. \A w \in lifecycle' : w \in lifecycle \/ (\E l \in LP : w = Disable(l))
                               \/ (\E l \in Enabled : w = Start(l))
      BY <2>1 DEF InitLp, SetupByMaster
    <3>3. UnusedLpStaysDisabled'
      BY <3>1 DEF UnusedLpStaysDisabled, TypeOK
    <3> QED BY <3>2, <3>3 DEF Start, Disable
  <2>2. ASSUME NEW v \in lifecycle, DisableUnusedLp(v) PROVE Inv'
    BY <2>2 DEF DisableUnusedLp, UnusedLpStaysDisabled, TypeOK
  <2>3. ASSUME NEW v \in lifecycle, StartSimulation(v) PROVE Inv'
    <3>1. /\ lp_enabled' = [lp_enabled EXCEPT ![v.lp] = "LP_ENABLED"]
          /\ lifecycle' = lifecycle \ {v}
          /\ v.lp \in Enabled
      BY <2>3 DEF StartSimulation
    <3> QED BY <3>1 DEF UnusedLpStaysDisabled, TypeOK
  <2>4. ASSUME UNCHANGED <<lp_enabled, lifecycle>> PROVE Inv'
    BY <2>4 DEF UnusedLpStaysDisabled
  <2>5. CASE UpdateStep \/ MessageStep \/ GVTStep \/ UNCHANGED vars
    BY <2>4, <2>5 DEF UpdateStep, MessageStep, GVTStep, UpdateTimestamp, StabilityMessage,
                      OnGVT, lpVars, eventVars, vars
  <2> QED BY <2>1, <2>2, <2>3, <2>5 DEF Next, LifecycleStep, Done
<1>3. Inv => UnusedLpStaysDisabled
  OBVIOUS
<1> QED BY <1>1, <1>2, <1>3, TypeCorrect, PTL DEF Spec

-----------------------------------------------------------------------------
(***************************************************************************)
(* When an element's chain of checks ends, every element counts as stable  *)
(* for good, and Termination implements Convergence.  The argument is about *)
(* timestamps.  Ids and the period are whole seconds and SHIFT_EVENT is a  *)
(* fraction of one, so the checks happen at grid points and every message  *)
(* of one grid point arrives before the next.  At a grid point, therefore, *)
(* all LPs have the same count: the number of elements that counted as     *)
(* stable before it.  ConvergenceInv is the inductive invariant.           *)
(***************************************************************************)

IsSecond(s) ==
  /\ s \in Nat
  /\ ShiftEvent < s
  /\ \E k \in Nat : NextUpdateTimestamp = k * s
  /\ \A e \in Elements : \E k \in Nat : IdShift[e] = k * s

\* NEXT_UPDATE_TIMESTAMP (simulation.h:16) and the ids are integers, SHIFT_EVENT
\* (simulation.h:33) is 0.1.
WholeSeconds == \E s \in Nat : IsSecond(s)

Second == CHOOSE s \in Nat : IsSecond(s)

OnGrid(ts) == \E k \in Nat : ts = TsStartSimulation + k * Second

LEMMA SecondExists ==
  ASSUME WholeSeconds PROVE IsSecond(Second)
BY DEF WholeSeconds, Second, IsSecond

LEMMA GridTime ==
  ASSUME WholeSeconds, NEW ts, OnGrid(ts)
  PROVE  ts \in Nat
<1>1. PICK k \in Nat : ts = TsStartSimulation + k * Second
  BY DEF OnGrid
<1>2. Second \in Nat
  BY SecondExists DEF IsSecond
<1>3. k * Second \in Nat
  BY <1>2
<1> QED BY <1>1, <1>3, TerminationAssumption

LEMMA MultipleOnGrid ==
  ASSUME WholeSeconds, NEW ts, OnGrid(ts), NEW k \in Nat
  PROVE  OnGrid(ts + k * Second)
<1>1. PICK j \in Nat : ts = TsStartSimulation + j * Second
  BY DEF OnGrid
<1>2. Second \in Nat /\ TsStartSimulation \in Nat
  BY SecondExists, TerminationAssumption DEF IsSecond
<1> DEFINE s == Second
<1>3. ts + k * s = TsStartSimulation + (j + k) * s
  <2> HIDE DEF s
  <2>1. s \in Nat
    BY <1>2 DEF s
  <2>2. ts = TsStartSimulation + j * s
    BY <1>1 DEF s
  <2>3. j * s \in Nat /\ k * s \in Nat /\ (j + k) * s = j * s + k * s
    BY <2>1
  <2> QED BY <1>2, <2>2, <2>3
<1>4. j + k \in Nat
  OBVIOUS
<1> QED BY <1>3, <1>4 DEF OnGrid

\* A check is scheduled at grid points only.
LEMMA NextCheckOnGrid ==
  ASSUME WholeSeconds
  PROVE  /\ \A ts : OnGrid(ts) => OnGrid(ts + NextUpdateTimestamp)
         /\ \A e \in Elements : OnGrid(TsStartSimulation + NextUpdateTimestamp + IdShift[e])
<1>0. IsSecond(Second)
  BY SecondExists
<1>1. PICK p \in Nat : NextUpdateTimestamp = p * Second
  BY <1>0 DEF IsSecond
<1>2. \A ts : OnGrid(ts) => OnGrid(ts + NextUpdateTimestamp)
  BY <1>1, MultipleOnGrid
<1>3. OnGrid(TsStartSimulation)
  <2>1. TsStartSimulation = TsStartSimulation + 0 * Second
    BY <1>0, TerminationAssumption DEF IsSecond
  <2> QED BY <2>1 DEF OnGrid
<1>4. ASSUME NEW e \in Elements
      PROVE  OnGrid(TsStartSimulation + NextUpdateTimestamp + IdShift[e])
  <2>1. PICK k \in Nat : IdShift[e] = k * Second
    BY <1>0 DEF IsSecond
  <2> QED BY <1>2, <1>3, <2>1, MultipleOnGrid
<1> QED BY <1>2, <1>4

\* Grid points are further apart than a message is under way.
LEMMA GridSpaced ==
  ASSUME WholeSeconds, NEW a, NEW b, OnGrid(a), OnGrid(b), a < b
  PROVE  a + ShiftEvent < b
<1>1. PICK j \in Nat : a = TsStartSimulation + j * Second
  BY DEF OnGrid
<1>2. PICK k \in Nat : b = TsStartSimulation + k * Second
  BY DEF OnGrid
<1> DEFINE s == Second
<1>3. s \in Nat /\ ShiftEvent \in Nat /\ ShiftEvent < s /\ TsStartSimulation \in Nat
  BY SecondExists, TerminationAssumption DEF IsSecond
<1>4. a = TsStartSimulation + j * s /\ b = TsStartSimulation + k * s
  BY <1>1, <1>2
<1> HIDE DEF s
<1>5. j * s \in Nat /\ k * s \in Nat
  BY <1>3
<1>6. j < k
  <2>1. SUFFICES ASSUME k <= j PROVE FALSE
    OBVIOUS
  <2>2. k * s <= j * s
    <3>1. j * s = k * s + (j - k) * s
      BY <1>3
    <3>2. (j - k) * s \in Nat
      BY <1>3, <2>1
    <3> QED BY <1>5, <3>1, <3>2
  <2> QED BY <1>3, <1>4, <1>5, <2>2
<1>7. k * s >= j * s + s
  <2>1. k * s = j * s + s + (k - j - 1) * s
    BY <1>3
  <2>2. (k - j - 1) * s \in Nat
    BY <1>3, <1>6
  <2> QED BY <1>3, <1>5, <2>1, <2>2
<1> QED BY <1>3, <1>4, <1>5, <1>7

-----------------------------------------------------------------------------
(* The invariant.                                                          *)

\* Nothing is pending in the past.
NothingOverdue ==
  /\ \A v \in lifecycle : now <= v.ts
  /\ \A v \in updates : now <= v.ts
  /\ \A m \in messages : now <= m.ts

\* A message under way was sent by a check at a grid point, SHIFT_EVENT ahead,
\* or at the time limit, for the same moment.
SentByCheck(m) ==
  /\ OnGrid(m.ts - ShiftEvent)
  /\ m.ts - ShiftEvent <= now
  /\ m.ts - ShiftEvent <= MaxSimulationTime

SentAtLimit(m) ==
  /\ m.kind = "STABILITY_ACQUIRED"
  /\ OnGrid(m.ts)
  /\ m.ts <= now
  /\ MaxSimulationTime < m.ts

Timetable ==
  /\ NothingOverdue
  /\ \A v \in lifecycle : v.kind = "INIT" => v.ts = 0
  /\ \A v \in updates : OnGrid(v.ts)
  /\ \A m \in messages : SentByCheck(m) \/ SentAtLimit(m)

\* While all that is under way is still ahead, the LPs agree on the count; and
\* something can be under way only if that count left out some element.
Agreement ==
  /\ (\A m \in messages : now < m.ts) =>
       \A lp, other \in Enabled : num_stable_elements[lp] = num_stable_elements[other]
  /\ \A m \in messages : now < m.ts => \A lp \in Enabled : num_stable_elements[lp] # Total

\* Every element counts as stable and none will change its mind.
Quiet == Settling = Counted /\ (messages = {} \/ MaxSimulationTime < now)

ChainEnded(e) ==
  /\ lp_enabled[LpOf[e]] = "LP_ENABLED"
  /\ \A v \in updates : v.element_id # e

EndedForGood == \A e \in Counted : ChainEnded(e) => simulation_completed[e] \/ Quiet

StoppedAtLimit == \A e \in Counted : simulation_completed[e] => MaxSimulationTime < now

Reported ==
  \A e \in Counted : \A stable \in results[LpOf[e]] : e \notin stable => simulation_completed[e]

ConvergenceInv ==
  /\ TerminationInv
  /\ Timetable
  /\ Agreement
  /\ EndedForGood
  /\ StoppedAtLimit
  /\ Reported

\* The topology has an LP for each of its lines; the engine was started with them.
EnoughLps == NumLP <= NPrcTot

LEMMA EnabledAreLps ==
  ASSUME EnoughLps
  PROVE  Enabled \subseteq LP /\ \A e \in Elements : LpOf[e] \in Enabled
BY TerminationAssumption DEF EnoughLps, Enabled, LP

\* With nothing under way the count of every LP is the truth.
LEMMA NothingUnderway ==
  ASSUME EnoughLps, TypeOK, CountsAgree, messages = {}, NEW lp \in Enabled
  PROVE  num_stable_elements[lp] = Cardinality(Settling)
<1>1. lp \in Enabled \cap LP /\ num_stable_elements[lp] \in Int
  BY EnabledAreLps DEF TypeOK
<1>2. /\ Underway("STABILITY_ACQUIRED", lp) = {}
      /\ Underway("STABILITY_LOST", lp) = {}
  BY DEF Underway
<1>3. num_stable_elements[lp] + 0 = Cardinality(Settling) + 0
  BY <1>1, <1>2, FS_EmptySet DEF CountsAgree
<1> QED BY <1>1, <1>3, SettlingFinite

LEMMA EveryoneSettled ==
  ASSUME Cardinality(Settling) >= Total
  PROVE  Settling = Counted
<1>1. IsFiniteSet(Counted) /\ Settling \in SUBSET Counted
  BY TerminationAssumption, FS_Subset DEF Counted, Settling
<1>2. /\ Cardinality(Settling) <= Cardinality(Counted)
      /\ Cardinality(Counted) = Cardinality(Settling) => Counted = Settling
  BY <1>1, FS_Subset
<1>3. Cardinality(Settling) \in Nat /\ Cardinality(Counted) \in Nat
  BY <1>1, SettlingFinite, FS_CardinalityType
<1> QED BY <1>2, <1>3 DEF Total

\* What may be under way when a check takes place: before the time limit only
\* what the same grid point has sent, after it only announcements.
LEMMA AtCheck ==
  ASSUME WholeSeconds, ConvergenceInv, NEW v \in updates, Deliver(v)
  PROVE  /\ now <= v.ts
         /\ v.ts <= MaxSimulationTime =>
              \A m \in messages : now < m.ts /\ m.ts = v.ts + ShiftEvent
         /\ MaxSimulationTime < v.ts =>
              \A m \in messages : m.kind = "STABILITY_ACQUIRED" /\ m.ts = v.ts
<1>1. v.ts \in Nat /\ OnGrid(v.ts) /\ now \in Nat /\ now <= v.ts
  BY DEF ConvergenceInv, TerminationInv, TypeOK, Update, Timetable, NothingOverdue
<1>2. ASSUME NEW m \in messages
      PROVE  \/ v.ts <= MaxSimulationTime /\ now < m.ts /\ m.ts = v.ts + ShiftEvent
             \/ MaxSimulationTime < v.ts /\ m.kind = "STABILITY_ACQUIRED" /\ m.ts = v.ts
  <2>1. m.ts \in Nat /\ v.ts <= m.ts
    BY DeliverEarliest DEF ConvergenceInv, TerminationInv, TypeOK, Message
  <2>2. CASE SentByCheck(m)
    <3> DEFINE sent == m.ts - ShiftEvent
    <3>1. sent \in Int /\ OnGrid(sent) /\ sent <= now /\ sent <= MaxSimulationTime
      BY <2>1, <2>2, TerminationAssumption DEF SentByCheck
    <3>2. ~(sent < v.ts)
      <4>1. sent < v.ts => sent + ShiftEvent < v.ts
        BY <1>1, <3>1, GridSpaced
      <4> QED BY <1>1, <2>1, <4>1, TerminationAssumption
    <3> QED BY <1>1, <2>1, <3>1, <3>2, TerminationAssumption
  <2>3. CASE SentAtLimit(m)
    BY <1>1, <2>1, <2>3, TerminationAssumption DEF SentAtLimit
  <2> QED BY <2>2, <2>3 DEF ConvergenceInv, Timetable
<1> QED BY <1>1, <1>2, TerminationAssumption

\* An element that finds all elements counted is right.
LEMMA SettledIsTrue ==
  ASSUME WholeSeconds, EnoughLps, ConvergenceInv, NEW v \in updates, Deliver(v),
         v.element_id \in Counted,
         num_stable_elements[LpOf[v.element_id]] = Total
  PROVE  Settling = Counted /\ (messages = {} \/ MaxSimulationTime < v.ts)
<1> DEFINE lp == LpOf[v.element_id]
<1>1. lp \in Enabled /\ lp \in LP /\ v.ts \in Nat /\ MaxSimulationTime \in Nat
  BY EnabledAreLps, TerminationAssumption DEF Counted, ConvergenceInv, TerminationInv, TypeOK, Update
<1>2. CASE v.ts <= MaxSimulationTime
  <2>1. messages = {}
    BY <1>1, <1>2, AtCheck DEF ConvergenceInv, Agreement
  <2>2. Total = Cardinality(Settling)
    BY <1>1, <2>1, NothingUnderway DEF ConvergenceInv, TerminationInv
  <2> QED BY <2>1, <2>2, EveryoneSettled, SettlingFinite
<1>3. CASE MaxSimulationTime < v.ts
  <2>1. Underway("STABILITY_LOST", lp) = {}
    BY <1>3, AtCheck DEF Underway
  <2>2. /\ Cardinality(Underway("STABILITY_ACQUIRED", lp)) \in Nat
        /\ num_stable_elements[lp] + Cardinality(Underway("STABILITY_ACQUIRED", lp))
             = Cardinality(Settling) + 0
    BY <1>1, <2>1, FS_EmptySet, UnderwayCount DEF ConvergenceInv, TerminationInv, CountsAgree
  <2>3. num_stable_elements[lp] \in Int
    BY <1>1 DEF ConvergenceInv, TerminationInv, TypeOK
  <2>4. Cardinality(Settling) >= Total
    BY <2>2, <2>3, SettlingFinite
  <2> QED BY <1>3, <2>4, EveryoneSettled
<1> QED BY <1>1, <1>2, <1>3

-----------------------------------------------------------------------------
(* Every step keeps the invariant.                                         *)

\* The timetable survives when nothing new is announced and time moves on.
LEMMA TimetableKept ==
  ASSUME ConvergenceInv, TypeOK', NEW t \in Nat, now' = t, now <= t,
         \A v \in lifecycle' : t <= v.ts /\ (v.kind = "INIT" => v.ts = 0),
         \A v \in updates' : t <= v.ts /\ OnGrid(v.ts),
         messages' \subseteq messages,
         \A m \in messages : t <= m.ts
  PROVE  Timetable'
<1>1. ASSUME NEW m \in messages' PROVE SentByCheck(m)' \/ SentAtLimit(m)'
  <2>1. m \in messages /\ m.ts \in Nat /\ now \in Nat
    BY <1>1 DEF ConvergenceInv, TerminationInv, TypeOK, Message
  <2>2. CASE SentByCheck(m)
    BY <2>1, <2>2, TerminationAssumption DEF SentByCheck, OnGrid
  <2>3. CASE SentAtLimit(m)
    BY <2>1, <2>3, TerminationAssumption DEF SentAtLimit, OnGrid
  <2> QED BY <2>1, <2>2, <2>3 DEF ConvergenceInv, Timetable
<1>2. NothingOverdue' /\ \A v \in updates' : OnGrid(v.ts)'
  BY DEF NothingOverdue, OnGrid
<1> QED BY <1>1, <1>2 DEF Timetable

\* With nothing under way the LPs agree.
LEMMA AgreementWhenEmptyNext ==
  ASSUME EnoughLps, TerminationInv', messages' = {}
  PROVE  Agreement'
<1>1. TypeOK' /\ CountsAgree'
  BY DEF TerminationInv
<1>2. ASSUME NEW lp \in Enabled PROVE num_stable_elements'[lp] = Cardinality(Settling')
  <2>1. lp \in Enabled \cap LP /\ num_stable_elements'[lp] \in Int
    BY <1>1, EnabledAreLps DEF TypeOK
  <2>2. /\ Underway("STABILITY_ACQUIRED", lp)' = {}
        /\ Underway("STABILITY_LOST", lp)' = {}
    BY DEF Underway
  <2>3. IsFiniteSet(Settling') /\ Cardinality(Settling') \in Nat
    <3>1. Settling' \in SUBSET Elements
      BY DEF Settling, Counted
    <3> QED BY <3>1, TerminationAssumption, FS_Subset, FS_CardinalityType, Zenon
  <2>4. num_stable_elements'[lp] + 0 = Cardinality(Settling') + 0
    BY <1>1, <2>1, <2>2, FS_EmptySet DEF CountsAgree
  <2> QED BY <2>1, <2>3, <2>4
<1> QED BY <1>2 DEF Agreement

LEMMA SetupEmpty ==
  ASSUME ConvergenceInv, lifecycle # {}
  PROVE  messages = {} /\ Settling = {} /\ \A e \in Counted : ~simulation_completed[e] /\ ~stability[e]
BY DEF ConvergenceInv, TerminationInv, SetupFirst, Settling

\* During setup no chain of a started element has ended.
LEMMA ChainsDuringSetup ==
  ASSUME ConvergenceInv, lifecycle # {}, NEW e \in Counted
  PROVE  ~ChainEnded(e)
<1>1. Settling = {} /\ ~simulation_completed[e]
  BY SetupEmpty
<1> QED BY <1>1 DEF ConvergenceInv, EndedForGood, Quiet

LEMMA LifecycleTime ==
  ASSUME ConvergenceInv, NEW v \in lifecycle, Deliver(v)
  PROVE  v.ts \in Nat /\ now' = v.ts /\ now \in Nat /\ now <= v.ts
BY DeliverEarliest DEF ConvergenceInv, TerminationInv, TypeOK, Lifecycle, Timetable, NothingOverdue

LEMMA InitConverges ==
  ASSUME WholeSeconds, EnoughLps, ConvergenceInv, NEW v \in lifecycle, InitLp(v)
  PROVE  ConvergenceInv'
<1>1. /\ TerminationInv' /\ Deliver(v)
      /\ UNCHANGED <<num_stable_elements, stability, simulation_completed, updates, messages, results>>
  BY InitPreserves DEF ConvergenceInv, InitLp, elementVars, outputVars
<1>2. messages = {} /\ updates = {} /\ v.kind = "INIT" /\ v.lp \in LP
  BY SetupEmpty DEF ConvergenceInv, InitLp, TerminationInv, OneChainPerElement, TypeOK, Lifecycle
<1>3. v.ts \in Nat /\ now' = v.ts /\ now <= v.ts /\ \A w \in lifecycle : v.ts <= w.ts
  BY <1>1, LifecycleTime, DeliverEarliest
<1>4. ASSUME NEW w \in lifecycle' PROVE v.ts <= w.ts /\ (w.kind = "INIT" => w.ts = 0)
  <2>1. CASE w \in lifecycle
    BY <1>3, <2>1 DEF ConvergenceInv, Timetable
  <2>2. CASE w \notin lifecycle
    <3>1. w.ts \in {TsStartSimulation, TsDisableUnusedLp} /\ w.kind # "INIT"
      BY <2>2 DEF InitLp, SetupIndependently, SetupByMaster, Start, Disable
    <3>2. v.ts = 0
      BY <1>2 DEF ConvergenceInv, Timetable
    <3> QED BY <3>1, <3>2, TerminationAssumption
  <2> QED BY <2>1, <2>2
<1>5. Timetable'
  BY <1>1, <1>2, <1>3, <1>4, TimetableKept DEF TerminationInv
<1>6. Agreement'
  BY <1>1, <1>2, AgreementWhenEmptyNext
<1>7. StoppedAtLimit' /\ Reported'
  BY <1>1, <1>3, SetupEmpty DEF ConvergenceInv, StoppedAtLimit, Reported
<1>8. EndedForGood'
  <2>1. ASSUME NEW e \in Counted, ChainEnded(e)' PROVE FALSE
    <3>1. lp_enabled' = lp_enabled \/ lp_enabled' = [lp_enabled EXCEPT ![v.lp] = "LP_SETUP"]
                                   \/ lp_enabled' = [lp_enabled EXCEPT ![v.lp] = "LP_DISABLED"]
      BY DEF InitLp, SetupIndependently, SetupByMaster
    <3>2. LpOf[e] \in LP
      BY EnabledAreLps DEF Counted
    <3>3. lp_enabled[LpOf[e]] = "LP_ENABLED"
      BY <2>1, <3>1, <3>2 DEF ChainEnded, ConvergenceInv, TerminationInv, TypeOK
    <3>4. ChainEnded(e)
      BY <1>2, <3>3 DEF ChainEnded
    <3> QED BY <3>4, ChainsDuringSetup
  <2> QED BY <2>1 DEF EndedForGood
<1> QED BY <1>1, <1>5, <1>6, <1>7, <1>8 DEF ConvergenceInv

LEMMA DisableConverges ==
  ASSUME WholeSeconds, EnoughLps, ConvergenceInv, NEW v \in lifecycle, DisableUnusedLp(v)
  PROVE  ConvergenceInv'
<1>1. /\ TerminationInv' /\ Deliver(v) /\ lifecycle' = lifecycle \ {v}
      /\ lp_enabled' = [lp_enabled EXCEPT ![v.lp] = "LP_DISABLED"]
      /\ UNCHANGED <<num_stable_elements, stability, simulation_completed, updates, messages, results>>
  BY DisablePreserves DEF ConvergenceInv, DisableUnusedLp, elementVars, outputVars
<1>2. messages = {} /\ v.ts \in Nat /\ now' = v.ts /\ now <= v.ts
  BY <1>1, SetupEmpty, LifecycleTime
<1>3. Timetable'
  BY <1>1, <1>2, TimetableKept, DeliverEarliest DEF ConvergenceInv, TerminationInv, Timetable
<1>4. Agreement'
  BY <1>1, <1>2, AgreementWhenEmptyNext
<1>5. StoppedAtLimit' /\ Reported'
  BY <1>1, SetupEmpty DEF ConvergenceInv, StoppedAtLimit, Reported
<1>6. EndedForGood'
  <2>1. ASSUME NEW e \in Counted, ChainEnded(e)' PROVE FALSE
    <3>1. LpOf[e] \in LP
      BY EnabledAreLps DEF Counted
    <3>2. lp_enabled[LpOf[e]] = "LP_ENABLED"
      BY <1>1, <2>1, <3>1 DEF ChainEnded, ConvergenceInv, TerminationInv, TypeOK
    <3>3. ChainEnded(e)
      BY <1>1, <2>1, <3>2 DEF ChainEnded
    <3> QED BY <3>3, ChainsDuringSetup
  <2> QED BY <2>1 DEF EndedForGood
<1> QED BY <1>1, <1>3, <1>4, <1>5, <1>6 DEF ConvergenceInv

LEMMA StartConverges ==
  ASSUME WholeSeconds, EnoughLps, ConvergenceInv, NEW v \in lifecycle, StartSimulation(v)
  PROVE  ConvergenceInv'
<1> DEFINE mine == {e \in Elements : LpOf[e] = v.lp}
           new(e) == [element_id |-> e, ts |-> v.ts + NextUpdateTimestamp + IdShift[e]]
<1>1. /\ TerminationInv' /\ Deliver(v) /\ lifecycle' = lifecycle \ {v}
      /\ v.kind = "START_SIMULATION"
      /\ lp_enabled' = [lp_enabled EXCEPT ![v.lp] = "LP_ENABLED"]
      /\ simulation_completed' =
           [e \in Elements |-> IF e \in mine THEN FALSE ELSE simulation_completed[e]]
      /\ updates' = updates \cup {new(e) : e \in mine \cap Counted}
      /\ UNCHANGED <<messages, results>>
  BY StartPreserves DEF ConvergenceInv, StartSimulation, outputVars
<1>2. messages = {} /\ v.ts \in Nat /\ now' = v.ts /\ now <= v.ts /\ v.ts = TsStartSimulation
  BY <1>1, SetupEmpty, LifecycleTime DEF ConvergenceInv, TerminationInv, SetupFirst
<1>3. ASSUME NEW u \in updates' PROVE v.ts <= u.ts /\ OnGrid(u.ts)
  <2>1. CASE u \in updates
    BY <1>1, <2>1, DeliverEarliest DEF ConvergenceInv, Timetable
  <2>2. CASE \E e \in mine \cap Counted : u = new(e)
    <3>1. PICK e \in mine \cap Counted : u = new(e)
      BY <2>2
    <3>2. u.ts = TsStartSimulation + NextUpdateTimestamp + IdShift[e] /\ IdShift[e] \in Nat
      BY <1>2, <3>1, TerminationAssumption
    <3>3. OnGrid(u.ts)
      BY <3>2, NextCheckOnGrid
    <3> QED BY <1>2, <3>2, <3>3, TerminationAssumption
  <2> QED BY <1>1, <2>1, <2>2
<1>4. Timetable'
  BY <1>1, <1>2, <1>3, TimetableKept, DeliverEarliest DEF ConvergenceInv, TerminationInv, Timetable
<1>5. Agreement'
  BY <1>1, <1>2, AgreementWhenEmptyNext
<1>6. \A e \in Counted : ~simulation_completed'[e]
  BY <1>1, SetupEmpty DEF Counted
<1>7. StoppedAtLimit'
  BY <1>6 DEF StoppedAtLimit
<1>8. Reported'
  BY <1>1, <1>6, SetupEmpty DEF ConvergenceInv, Reported
<1>9. EndedForGood'
  <2>1. ASSUME NEW e \in Counted, ChainEnded(e)' PROVE FALSE
    <3>1. e \in Elements /\ LpOf[e] \in LP
      BY EnabledAreLps DEF Counted
    <3>2. LpOf[e] # v.lp
      <4>1. e \in mine \cap Counted => new(e) \in updates' /\ new(e).element_id = e
        BY <1>1
      <4> QED BY <2>1, <3>1, <4>1 DEF ChainEnded
    <3>3. lp_enabled[LpOf[e]] = "LP_ENABLED"
      BY <1>1, <2>1, <3>1, <3>2 DEF ChainEnded, ConvergenceInv, TerminationInv, TypeOK
    <3>4. ChainEnded(e)
      BY <1>1, <2>1, <3>3 DEF ChainEnded
    <3> QED BY <3>4, ChainsDuringSetup
  <2> QED BY <2>1 DEF EndedForGood
<1> QED BY <1>1, <1>4, <1>5, <1>7, <1>8, <1>9 DEF ConvergenceInv

\* An element that finds everyone settled, or has stopped, is checked no more.
LEMMA SettledConverges ==
  ASSUME WholeSeconds, EnoughLps, ConvergenceInv, NEW v \in updates, UpdateTimestamp(v),
         Settled(v.element_id), updates' = updates \ {v}, UNCHANGED <<elementVars, messages>>
  PROVE  ConvergenceInv'
<1>1. /\ TerminationInv' /\ Deliver(v) /\ v.element_id \in Counted
      /\ UNCHANGED <<num_stable_elements, stability, simulation_completed, lp_enabled,
                     lifecycle, messages, results>>
      /\ lifecycle = {}
  BY UpdatePreserves, UpdateFacts DEF ConvergenceInv, UpdateTimestamp, elementVars
<1>2. /\ v.ts \in Nat /\ now' = v.ts /\ now <= v.ts /\ OnGrid(v.ts) /\ now \in Nat
      /\ \A u \in updates : v.ts <= u.ts
      /\ \A m \in messages : v.ts <= m.ts
  BY <1>1, AtCheck, DeliverEarliest DEF ConvergenceInv, TerminationInv, TypeOK, Update, Timetable
<1>3. Timetable'
  BY <1>1, <1>2, TimetableKept DEF ConvergenceInv, TerminationInv, Timetable
<1>4. Agreement'
  <2>1. CASE v.ts <= MaxSimulationTime
    <3>1. \A m \in messages : now < m.ts
      BY <1>1, <2>1, AtCheck
    <3> QED BY <1>1, <3>1 DEF ConvergenceInv, Agreement, Enabled, Total
  <2>2. CASE MaxSimulationTime < v.ts
    <3>1. \A m \in messages : ~(now' < m.ts)
      BY <1>1, <1>2, <2>2, AtCheck
    <3>2. CASE messages' = {}
      BY <1>1, <3>2, AgreementWhenEmptyNext
    <3>3. CASE messages' # {}
      BY <1>1, <3>1, <3>3 DEF Agreement
    <3> QED BY <3>2, <3>3
  <2> QED BY <1>2, <2>1, <2>2, TerminationAssumption
<1>5. StoppedAtLimit' /\ Reported'
  BY <1>1, <1>2, TerminationAssumption DEF ConvergenceInv, StoppedAtLimit, Reported
<1>6. EndedForGood'
  <2>1. Settling' = Settling
    BY <1>1 DEF Settling
  <2>2. Quiet => Quiet'
    BY <1>1, <1>2, <2>1, TerminationAssumption DEF Quiet
  <2>3. ASSUME NEW e \in Counted, ChainEnded(e)', ~simulation_completed'[e]
        PROVE  Quiet'
    <3>1. CASE e = v.element_id
      <4>1. num_stable_elements[LpOf[e]] = Total
        BY <1>1, <2>3, <3>1 DEF Settled
      <4> QED BY <1>1, <1>2, <2>1, <3>1, <4>1, SettledIsTrue DEF Quiet
    <3>2. CASE e # v.element_id
      <4>1. ChainEnded(e)
        BY <1>1, <2>3, <3>2 DEF ChainEnded
      <4> QED BY <1>1, <2>2, <2>3, <4>1 DEF ConvergenceInv, EndedForGood
    <3> QED BY <3>1, <3>2
  <2> QED BY <2>3 DEF EndedForGood
<1> QED BY <1>1, <1>3, <1>4, <1>5, <1>6 DEF ConvergenceInv

\* Past the limit an element stops and counts as stable from then on.
LEMMA TimeLimitConverges ==
  ASSUME WholeSeconds, EnoughLps, ConvergenceInv, NEW v \in updates, UpdateTimestamp(v),
         ~Settled(v.element_id), MaxSimulationTime < v.ts, TimeLimit(v)
  PROVE  ConvergenceInv'
<1> DEFINE e == v.element_id
<1>1. /\ TerminationInv' /\ Deliver(v) /\ e \in Counted /\ e \in Elements
      /\ simulation_completed' = [simulation_completed EXCEPT ![e] = TRUE]
      /\ updates' = updates \ {v}
      /\ UNCHANGED <<num_stable_elements, stability, lp_enabled, lifecycle, results>>
      /\ lifecycle = {}
  BY UpdatePreserves, UpdateFacts DEF ConvergenceInv, UpdateTimestamp, TimeLimit
<1>2. /\ v.ts \in Nat /\ now' = v.ts /\ now <= v.ts /\ OnGrid(v.ts) /\ now \in Nat
      /\ \A u \in updates : v.ts <= u.ts
      /\ \A m \in messages : m.kind = "STABILITY_ACQUIRED" /\ m.ts = v.ts
  BY <1>1, AtCheck, DeliverEarliest DEF ConvergenceInv, TerminationInv, TypeOK, Update, Timetable
<1>3. \A m \in messages' : m.kind = "STABILITY_ACQUIRED" /\ m.ts = v.ts
  BY <1>2 DEF TimeLimit, Broadcast
<1>4. Timetable'
  <2>1. \A m \in messages' : SentAtLimit(m)'
    BY <1>2, <1>3 DEF SentAtLimit, OnGrid
  <2>2. NothingOverdue'
    BY <1>1, <1>2, <1>3 DEF NothingOverdue
  <2> QED BY <1>1, <2>1, <2>2 DEF ConvergenceInv, Timetable, OnGrid
<1>5. Agreement'
  <2>1. CASE messages' = {}
    BY <1>1, <2>1, AgreementWhenEmptyNext
  <2>2. CASE messages' # {}
    BY <1>2, <1>3, <2>2 DEF Agreement
  <2> QED BY <2>1, <2>2
<1>6. \A f \in Counted : simulation_completed'[f] = (simulation_completed[f] \/ f = e)
  BY <1>1 DEF ConvergenceInv, TerminationInv, TypeOK, Counted
<1>7. StoppedAtLimit' /\ Reported'
  BY <1>1, <1>2, <1>6 DEF ConvergenceInv, StoppedAtLimit, Reported
<1>8. EndedForGood'
  <2>1. Settling \subseteq Settling' /\ Settling' \subseteq Counted
    BY <1>1, <1>6 DEF Settling
  <2>2. Quiet => Quiet'
    BY <1>2, <2>1 DEF Quiet
  <2>3. ASSUME NEW f \in Counted, ChainEnded(f)', ~simulation_completed'[f]
        PROVE  Quiet'
    <3>1. f # e /\ ~simulation_completed[f]
      BY <1>6, <2>3
    <3>2. ChainEnded(f)
      BY <1>1, <2>3, <3>1 DEF ChainEnded
    <3> QED BY <2>2, <3>1, <3>2 DEF ConvergenceInv, EndedForGood
  <2> QED BY <2>3 DEF EndedForGood
<1> QED BY <1>1, <1>4, <1>5, <1>7, <1>8 DEF ConvergenceInv

\* A check that takes place finds that not everyone was settled, and every LP
\* knows it.
LEMMA CheckConverges ==
  ASSUME WholeSeconds, EnoughLps, ConvergenceInv, NEW v \in updates, UpdateTimestamp(v),
         ~Settled(v.element_id), v.ts <= MaxSimulationTime, Check(v)
  PROVE  ConvergenceInv'
<1> DEFINE e    == v.element_id
           next == [v EXCEPT !.ts = v.ts + NextUpdateTimestamp]
<1>1. /\ TerminationInv' /\ Deliver(v) /\ e \in Counted /\ e \in Elements
      /\ updates' = (updates \ {v}) \cup {next}
      /\ UNCHANGED <<num_stable_elements, simulation_completed, lp_enabled, lifecycle, results>>
      /\ lifecycle = {}
  BY UpdatePreserves, UpdateFacts DEF ConvergenceInv, UpdateTimestamp, Check
<1>2. /\ v \in Update /\ v.ts \in Nat /\ now' = v.ts /\ now <= v.ts /\ OnGrid(v.ts) /\ now \in Nat
      /\ \A u \in updates : v.ts <= u.ts
      /\ \A m \in messages : now < m.ts /\ m.ts = v.ts + ShiftEvent
  BY <1>1, AtCheck, DeliverEarliest DEF ConvergenceInv, TerminationInv, TypeOK, Update, Timetable
<1>3. messages \subseteq messages' /\ \A m \in messages' : m.ts = v.ts + ShiftEvent
  <2>1. \E added \in {{}, Broadcast("STABILITY_ACQUIRED", e, v.ts + ShiftEvent),
                      Broadcast("STABILITY_LOST", e, v.ts + ShiftEvent)} :
          messages' = messages \cup added
    BY DEF Check
  <2> QED BY <1>2, <2>1 DEF Broadcast
<1>4. next.ts = v.ts + NextUpdateTimestamp /\ next.element_id = e /\ OnGrid(next.ts)
  BY <1>2, NextCheckOnGrid DEF Update
<1> HIDE DEF next
<1>5. Timetable'
  <2>1. ASSUME NEW m \in messages' PROVE SentByCheck(m)'
    <3>1. m.ts - ShiftEvent = v.ts
      BY <1>2, <1>3, TerminationAssumption
    <3> QED BY <1>2, <3>1 DEF SentByCheck, OnGrid
  <2>2. NothingOverdue'
    BY <1>1, <1>2, <1>3, <1>4, TerminationAssumption DEF NothingOverdue
  <2> QED BY <1>1, <1>4, <2>1, <2>2 DEF ConvergenceInv, Timetable, OnGrid
<1>6. LpOf[e] \in Enabled /\ num_stable_elements[LpOf[e]] # Total
  BY <1>1, EnabledAreLps DEF Settled
<1>7. \A lp \in Enabled : num_stable_elements[lp] = num_stable_elements[LpOf[e]]
  BY <1>2, <1>6 DEF ConvergenceInv, Agreement
<1>8. Agreement'
  BY <1>1, <1>6, <1>7 DEF Agreement, Enabled, Total
<1>9. StoppedAtLimit' /\ Reported'
  BY <1>1, <1>2, TerminationAssumption DEF ConvergenceInv, StoppedAtLimit, Reported
<1>10. ~Quiet
  <2>1. ASSUME Quiet PROVE FALSE
    <3>1. messages = {}
      BY <1>2, <2>1, TerminationAssumption DEF Quiet
    <3>2. num_stable_elements[LpOf[e]] = Cardinality(Settling)
      BY <1>6, <3>1, NothingUnderway DEF ConvergenceInv, TerminationInv
    <3> QED BY <1>6, <2>1, <3>2 DEF Quiet, Total
  <2> QED BY <2>1
<1>11. EndedForGood'
  <2>1. ASSUME NEW f \in Counted, ChainEnded(f)' PROVE simulation_completed'[f]
    <3>1. f # e
      BY <1>1, <1>4, <2>1 DEF ChainEnded
    <3>2. ChainEnded(f)
      BY <1>1, <2>1, <3>1 DEF ChainEnded
    <3> QED BY <1>1, <1>10, <3>2 DEF ConvergenceInv, EndedForGood
  <2> QED BY <2>1 DEF EndedForGood
<1> QED BY <1>1, <1>5, <1>8, <1>9, <1>11 DEF ConvergenceInv

\* The messages of one moment are the last of those under way.
LEMMA MessageConverges ==
  ASSUME WholeSeconds, EnoughLps, ConvergenceInv, NEW m \in messages, StabilityMessage(m)
  PROVE  ConvergenceInv'
<1>1. /\ TerminationInv' /\ Deliver(m) /\ messages' = messages \ {m}
      /\ UNCHANGED <<stability, simulation_completed, lp_enabled, lifecycle, updates, results>>
  BY MessagePreserves DEF ConvergenceInv, StabilityMessage, elementVars, outputVars
<1>2. /\ m.ts \in Nat /\ now' = m.ts /\ now \in Nat /\ now <= m.ts
      /\ \A v \in lifecycle : m.ts <= v.ts
      /\ \A u \in updates : m.ts <= u.ts
      /\ \A w \in messages : w.ts \in Nat /\ m.ts <= w.ts
  BY <1>1, DeliverEarliest
     DEF ConvergenceInv, TerminationInv, TypeOK, Message, Timetable, NothingOverdue
<1>3. Timetable'
  BY <1>1, <1>2, TimetableKept DEF ConvergenceInv, TerminationInv, Timetable
<1>4. \A w \in messages : ~(m.ts < w.ts)
  <2>1. ASSUME NEW w \in messages, m.ts < w.ts PROVE FALSE
    <3> DEFINE sent == w.ts - ShiftEvent
    <3>1. sent \in Int /\ OnGrid(sent) /\ sent <= now /\ sent <= MaxSimulationTime
      <4>1. ~SentAtLimit(w)
        BY <1>2, <2>1 DEF SentAtLimit
      <4> QED BY <1>2, <4>1, TerminationAssumption DEF ConvergenceInv, Timetable, SentByCheck
    <3>2. CASE SentByCheck(m)
      <4> DEFINE before == m.ts - ShiftEvent
      <4>1. before \in Int /\ OnGrid(before) /\ before < sent
        BY <1>2, <2>1, <3>2, TerminationAssumption DEF SentByCheck
      <4>2. before + ShiftEvent < sent
        BY <3>1, <4>1, GridSpaced
      <4> QED BY <1>2, <3>1, <4>2, TerminationAssumption
    <3>3. CASE SentAtLimit(m)
      <4>1. OnGrid(m.ts) /\ sent < m.ts
        BY <1>2, <3>1, <3>3, TerminationAssumption DEF SentAtLimit
      <4>2. sent + ShiftEvent < m.ts
        BY <3>1, <4>1, GridSpaced
      <4> QED BY <1>2, <2>1, <4>2, TerminationAssumption
    <3> QED BY <3>2, <3>3 DEF ConvergenceInv, Timetable
  <2> QED BY <2>1
<1>5. Agreement'
  <2>1. \A w \in messages' : ~(now' < w.ts)
    BY <1>1, <1>2, <1>4
  <2>2. CASE messages' = {}
    BY <1>1, <2>2, AgreementWhenEmptyNext
  <2>3. CASE messages' # {}
    BY <2>1, <2>3 DEF Agreement
  <2> QED BY <2>2, <2>3
<1>6. StoppedAtLimit' /\ Reported'
  BY <1>1, <1>2, TerminationAssumption DEF ConvergenceInv, StoppedAtLimit, Reported
<1>7. EndedForGood'
  <2>1. Quiet => Quiet'
    BY <1>1, <1>2, TerminationAssumption DEF Quiet, Settling
  <2> QED BY <1>1, <2>1 DEF ConvergenceInv, EndedForGood, ChainEnded
<1> QED BY <1>1, <1>3, <1>5, <1>6, <1>7 DEF ConvergenceInv

\* An enabled LP that finds everyone counted is right, and nothing is under way.
LEMMA AllCountedIsTrue ==
  ASSUME EnoughLps, ConvergenceInv, NEW lp \in Enabled, AllCounted(lp),
         \A ts \in Pending : now < ts
  PROVE  messages = {} /\ Settling = Counted
<1>1. \A m \in messages : now < m.ts
  BY DEF Pending
<1>2. messages = {}
  BY <1>1 DEF ConvergenceInv, Agreement, AllCounted
<1>3. Cardinality(Settling) = Total
  BY <1>2, NothingUnderway DEF ConvergenceInv, TerminationInv, AllCounted
<1> QED BY <1>2, <1>3, EveryoneSettled, SettlingFinite

LEMMA OnGVTConverges ==
  ASSUME WholeSeconds, EnoughLps, ConvergenceInv, NEW lp \in LP, OnGVT(lp)
  PROVE  ConvergenceInv'
<1>1. /\ TerminationInv'
      /\ UNCHANGED <<lp_enabled, num_stable_elements, stability, simulation_completed,
                     lifecycle, updates, messages, now>>
  BY OnGVTPreserves DEF ConvergenceInv, OnGVT, lpVars, elementVars, eventVars
<1>2. Timetable' /\ Agreement' /\ EndedForGood' /\ StoppedAtLimit'
  BY <1>1 DEF ConvergenceInv, Timetable, NothingOverdue, SentByCheck, SentAtLimit, OnGrid,
              Agreement, EndedForGood, ChainEnded, Quiet, Settling, StoppedAtLimit
<1>3. Reported'
  <2>1. CASE UNCHANGED results
    BY <1>1, <2>1 DEF ConvergenceInv, Reported
  <2>2. CASE AllCounted(lp) /\ WriteResults(lp)
    <3> DEFINE file == {f \in Elements : LpOf[f] = lp /\ stability[f]}
    <3>1. ASSUME NEW e \in Counted, NEW stable \in results'[LpOf[e]], e \notin stable
          PROVE  simulation_completed'[e]
      <4>1. e \in Elements /\ LpOf[e] \in Enabled /\ LpOf[e] \in LP
        BY EnabledAreLps DEF Counted
      <4>2. CASE stable \in results[LpOf[e]]
        BY <1>1, <3>1, <4>2 DEF ConvergenceInv, Reported
      <4>3. CASE stable \notin results[LpOf[e]]
        <5>1. LpOf[e] = lp /\ stable = file
          BY <2>2, <3>1, <4>1, <4>3 DEF WriteResults, ConvergenceInv, TerminationInv, TypeOK
        <5>2. ~stability[e]
          BY <3>1, <4>1, <5>1
        <5>3. Settling = Counted
          BY <2>2, <4>1, <5>1, AllCountedIsTrue DEF OnGVT
        <5> QED BY <1>1, <5>2, <5>3 DEF Settling
      <4> QED BY <4>2, <4>3
    <3> QED BY <3>1 DEF Reported
  <2> QED BY <2>1, <2>2 DEF OnGVT, outputVars
<1> QED BY <1>1, <1>2, <1>3 DEF ConvergenceInv

LEMMA InitiallyConverging ==
  ASSUME EnoughLps, Init PROVE ConvergenceInv
<1>1. TerminationInv
  BY InitEstablishes
<1>2. Timetable /\ StoppedAtLimit
  BY DEF Init, Timetable, NothingOverdue, StoppedAtLimit, Counted
<1>3. Agreement
  BY EnabledAreLps DEF Init, Agreement
<1>4. EndedForGood /\ Reported
  BY EnabledAreLps DEF Init, EndedForGood, ChainEnded, Reported, Counted
<1> QED BY <1>1, <1>2, <1>3, <1>4 DEF ConvergenceInv

-----------------------------------------------------------------------------
(* The theorems.                                                           *)

LEMMA NextConverges ==
  ASSUME WholeSeconds, EnoughLps, ConvergenceInv, [Next]_vars
  PROVE  ConvergenceInv'
<1>1. CASE LifecycleStep
  BY <1>1, InitConverges, DisableConverges, StartConverges DEF LifecycleStep
<1>2. CASE UpdateStep
  <2>1. PICK v \in updates : UpdateTimestamp(v)
    BY <1>2 DEF UpdateStep
  <2> QED BY <2>1, SettledConverges, TimeLimitConverges, CheckConverges DEF UpdateTimestamp
<1>3. CASE MessageStep
  BY <1>3, MessageConverges DEF MessageStep
<1>4. CASE GVTStep
  BY <1>4, OnGVTConverges DEF GVTStep
<1>5. CASE UNCHANGED vars
  <2>1. TerminationInv'
    BY <1>5 DEF vars, ConvergenceInv, TerminationInv, TypeOK, FewUnderway, Underway, SetupFirst,
                MessagesBeforeNextUpdate, OneChainPerElement, CountsAgree, Settling
  <2> QED BY <1>5, <2>1
      DEF vars, ConvergenceInv, Timetable, NothingOverdue, SentByCheck, SentAtLimit, OnGrid,
          Agreement, EndedForGood, ChainEnded, Quiet, Settling, StoppedAtLimit, Reported
<1> QED BY <1>1, <1>2, <1>3, <1>4, <1>5 DEF Next, Done

\* At every check all LPs hold the same count, and that count is true.
THEOREM ConvergenceInvariant ==
  ASSUME WholeSeconds, EnoughLps
  PROVE  Spec => []ConvergenceInv
<1>1. Init => ConvergenceInv
  BY InitiallyConverging
<1>2. ConvergenceInv /\ [Next]_vars => ConvergenceInv'
  BY NextConverges
<1> QED BY <1>1, <1>2, PTL DEF Spec

\* An element whose chain of UPDATE_TIMESTAMP events has ended is settled for
\* good, and one that is reported as unstable ran into the time limit: for every
\* topology, distribution over LPs, ids, period and limits, and for both setups.
THEOREM NobodyIsForgotten ==
  ASSUME WholeSeconds, EnoughLps
  PROVE  Spec => []NobodyForgotten
<1>1. ConvergenceInv => NobodyForgotten
  <2> SUFFICES ASSUME ConvergenceInv, NEW e \in Counted
               PROVE  /\ \A v, w \in updates : v.element_id = e /\ w.element_id = e => v = w
                      /\ ChainEnded(e) => simulation_completed[e] \/ Settling = Counted
                      /\ \A stable \in results[LpOf[e]] :
                           e \notin stable => simulation_completed[e] /\ now > MaxSimulationTime
    BY DEF NobodyForgotten, ChainEnded
  <2>1. \A v, w \in updates : v.element_id = e /\ w.element_id = e => v = w
    BY DEF ConvergenceInv, TerminationInv, OneChainPerElement
  <2>2. ChainEnded(e) => simulation_completed[e] \/ Settling = Counted
    BY DEF ConvergenceInv, EndedForGood, Quiet
  <2>3. ASSUME NEW stable \in results[LpOf[e]], e \notin stable
        PROVE  simulation_completed[e] /\ now > MaxSimulationTime
    <3>1. simulation_completed[e]
      BY <2>3 DEF ConvergenceInv, Reported
    <3>2. now \in Nat
      BY DEF ConvergenceInv, TerminationInv, TypeOK
    <3> QED BY <3>1, <3>2, TerminationAssumption DEF ConvergenceInv, StoppedAtLimit
  <2> QED BY <2>1, <2>2, <2>3
<1> QED BY <1>1, ConvergenceInvariant, PTL

-----------------------------------------------------------------------------
(* The refinement.  A spare LP that independent setup enables again would  *)
(* count as finished from the time when it was disabled: this is the case  *)
(* left out (run TerminationUnusedLp).                                     *)

NoSpareStarts == EnoughLps /\ (SetupIndependent => NumLP = NPrcTot)

Ended == \E lp \in finished : lp_enabled[lp] = "LP_ENABLED"

\* Which LPs start, and which of them may have finished.
Launch ==
  /\ \A v \in lifecycle : v.kind = "START_SIMULATION" => v.lp \in Enabled
  /\ \A v \in lifecycle : v.kind = "DISABLE_UNUSED_LP" => v.lp \notin Enabled
  /\ \A lp \in LP \ Enabled : lp_enabled[lp] # "LP_ENABLED"
  /\ \A lp \in LP : lp_enabled[lp] = "LP_ENABLED" =>
       \A v \in lifecycle : v.kind # "INIT" /\ (v.kind = "START_SIMULATION" => v.lp # lp)
  /\ \A lp \in Enabled : lp_enabled[lp] = "LP_DISABLED" =>
       \E v \in lifecycle : v.kind = "INIT" /\ v.lp = lp
  /\ \A lp \in Enabled \cap finished : lp_enabled[lp] = "LP_ENABLED"

EndedTogether == Ended => Settling = Counted /\ messages = {}

RefinementInv == ConvergenceInv /\ Launch /\ EndedTogether

LEMMA RefinementInit ==
  ASSUME NoSpareStarts, Init
  PROVE  RefinementInv /\ Seen!Init
<1>1. ConvergenceInv
  BY InitiallyConverging DEF NoSpareStarts
<1>2. Launch /\ ~Ended
  <2>1. \A lp \in LP : lp_enabled[lp] = "LP_DISABLED"
    BY DEF Init
  <2>2. \A lp \in Enabled : \E v \in lifecycle : v.kind = "INIT" /\ v.lp = lp
    <3>1. \A lp \in Enabled : [kind |-> "INIT", lp |-> lp, ts |-> 0] \in lifecycle
      BY EnabledAreLps DEF Init, NoSpareStarts
    <3> QED BY <3>1
  <2>3. \A v \in lifecycle : v.kind = "INIT"
    BY DEF Init
  <2> QED BY <2>1, <2>2, <2>3 DEF Init, Launch, Ended
<1>3. Settling = {}
  BY DEF Init, Settling, Counted
<1> QED BY <1>1, <1>2, <1>3 DEF RefinementInv, EndedTogether, Seen!Init, Ended

\* The steps of setup change nothing that Convergence sees.
LEMMA InitRefines ==
  ASSUME NoSpareStarts, RefinementInv, NEW v \in lifecycle, InitLp(v)
  PROVE  Launch' /\ ~Ended /\ ~Ended' /\ Settling' = Settling
<1>1. /\ v.kind = "INIT" /\ v \in Lifecycle /\ v.lp \in LP
      /\ UNCHANGED <<stability, simulation_completed, finished>>
      /\ lp_enabled \in [LP -> {"LP_DISABLED", "LP_SETUP", "LP_ENABLED"}]
  BY DEF InitLp, elementVars, outputVars, RefinementInv, ConvergenceInv, TerminationInv, TypeOK, Lifecycle
<1>2. \A lp \in LP : lp_enabled[lp] # "LP_ENABLED"
  BY <1>1 DEF RefinementInv, Launch
<1>3. \/ UNCHANGED <<lp_enabled, lifecycle>>
      \/ /\ lp_enabled' = [lp_enabled EXCEPT ![v.lp] = "LP_SETUP"]
         /\ \E added \in SUBSET ({Disable(l) : l \in LP \ Enabled} \cup {Start(l) : l \in Enabled}) :
              lifecycle' = (lifecycle \ {[kind |-> "INIT", lp |-> v.lp, ts |-> 0]}) \cup added
  <2>1. CASE UNCHANGED <<lp_enabled, lifecycle>>
    BY <2>1
  <2>2. CASE SetupIndependent /\ SetupIndependently(v.lp)
    <3>1. v.lp \in Enabled /\ v.lp < NumLP
      BY <1>1, <2>2, TerminationAssumption DEF NoSpareStarts, LP, Enabled
    <3>2. ~(v.lp >= NumLP)
      BY <3>1, TerminationAssumption DEF Enabled
    <3>3. lp_enabled' = [lp_enabled EXCEPT ![v.lp] = "LP_SETUP"]
      BY <2>2, <3>2 DEF SetupIndependently
    <3> QED BY <2>2, <3>1, <3>3 DEF SetupIndependently
  <2>3. CASE SetupByMaster(v.lp)
    BY <2>3 DEF SetupByMaster
  <2> QED BY <2>1, <2>2, <2>3 DEF InitLp
<1>4. \A lp \in LP : lp_enabled'[lp] # "LP_ENABLED"
  BY <1>1, <1>2, <1>3
<1>5. finished \subseteq LP
  BY DEF RefinementInv, ConvergenceInv, TerminationInv, TypeOK
<1>6. \A w \in lifecycle' : w \in lifecycle \/ (\E l \in LP \ Enabled : w = Disable(l))
                                           \/ (\E l \in Enabled : w = Start(l))
  BY <1>3
<1>7. \A lp \in Enabled : lp_enabled'[lp] = "LP_DISABLED" =>
        \E w \in lifecycle' : w.kind = "INIT" /\ w.lp = lp
  <2> SUFFICES ASSUME NEW lp \in Enabled, lp_enabled'[lp] = "LP_DISABLED"
               PROVE  \E w \in lifecycle' : w.kind = "INIT" /\ w.lp = lp
    OBVIOUS
  <2>1. lp \in LP
    BY EnabledAreLps DEF NoSpareStarts
  <2>2. /\ lp_enabled[lp] = "LP_DISABLED"
        /\ UNCHANGED <<lp_enabled, lifecycle>> \/ lp # v.lp
    BY <1>1, <1>3, <2>1
  <2>3. PICK w \in lifecycle : w.kind = "INIT" /\ w.lp = lp
    BY <2>2 DEF RefinementInv, Launch
  <2>4. w \in lifecycle'
    BY <1>3, <2>2, <2>3
  <2> QED BY <2>3, <2>4
<1>8. \A lp \in Enabled \cap finished : FALSE
  BY <1>2, <1>5 DEF RefinementInv, Launch
<1>9. Launch'
  <2>1. \A w \in lifecycle' : w.kind = "START_SIMULATION" => w.lp \in Enabled
    BY <1>6 DEF RefinementInv, Launch, Start, Disable
  <2>2. \A w \in lifecycle' : w.kind = "DISABLE_UNUSED_LP" => w.lp \notin Enabled
    BY <1>6 DEF RefinementInv, Launch, Start, Disable
  <2>3. \A lp \in Enabled \cap finished' : lp_enabled'[lp] = "LP_ENABLED"
    BY <1>1, <1>8
  <2>4. \A lp \in LP \ Enabled : lp_enabled'[lp] # "LP_ENABLED"
    BY <1>4
  <2>5. \A lp \in LP : lp_enabled'[lp] = "LP_ENABLED" =>
          \A w \in lifecycle' : w.kind # "INIT" /\ (w.kind = "START_SIMULATION" => w.lp # lp)
    BY <1>4
  <2> QED BY <1>7, <2>1, <2>2, <2>3, <2>4, <2>5, Zenon DEF Launch
<1> QED BY <1>1, <1>2, <1>4, <1>5, <1>9 DEF Ended, Settling

LEMMA DisableRefines ==
  ASSUME NoSpareStarts, RefinementInv, NEW v \in lifecycle, DisableUnusedLp(v)
  PROVE  Launch' /\ (Ended' <=> Ended) /\ Settling' = Settling /\ messages' = messages
<1>1. /\ v.kind = "DISABLE_UNUSED_LP" /\ v.lp \in LP /\ v.lp \notin Enabled
      /\ lp_enabled' = [lp_enabled EXCEPT ![v.lp] = "LP_DISABLED"]
      /\ lifecycle' = lifecycle \ {v}
      /\ UNCHANGED <<stability, simulation_completed, finished, messages>>
      /\ lp_enabled \in [LP -> {"LP_DISABLED", "LP_SETUP", "LP_ENABLED"}]
      /\ finished \subseteq LP
  BY DEF DisableUnusedLp, elementVars, outputVars, RefinementInv, Launch,
         ConvergenceInv, TerminationInv, TypeOK, Lifecycle
<1>2. \A lp \in LP : lp # v.lp => lp_enabled'[lp] = lp_enabled[lp]
  BY <1>1
<1>3. lp_enabled[v.lp] # "LP_ENABLED" /\ lp_enabled'[v.lp] = "LP_DISABLED"
  BY <1>1 DEF RefinementInv, Launch
<1>4. Enabled \subseteq LP
  BY EnabledAreLps DEF NoSpareStarts
<1>5. \A lp \in Enabled : lp_enabled'[lp] = lp_enabled[lp]
  BY <1>1, <1>2, <1>4
<1>6. \A lp \in LP : lp_enabled'[lp] = "LP_ENABLED" <=> lp_enabled[lp] = "LP_ENABLED"
  BY <1>2, <1>3
<1>7. \A lp \in Enabled : lp_enabled'[lp] = "LP_DISABLED" =>
        \E w \in lifecycle' : w.kind = "INIT" /\ w.lp = lp
  BY <1>1, <1>5 DEF RefinementInv, Launch
<1>8. Launch'
  BY <1>1, <1>5, <1>6, <1>7 DEF RefinementInv, Launch, Enabled, LP
<1> QED BY <1>1, <1>6, <1>8 DEF Ended, Settling

LEMMA StartRefines ==
  ASSUME NoSpareStarts, RefinementInv, NEW v \in lifecycle, StartSimulation(v)
  PROVE  Launch' /\ (Ended' <=> Ended) /\ Settling' = Settling /\ messages' = messages
<1> DEFINE mine == {e \in Elements : LpOf[e] = v.lp}
<1>1. /\ v.kind = "START_SIMULATION" /\ v.lp \in LP /\ v.lp \in Enabled
      /\ lp_enabled' = [lp_enabled EXCEPT ![v.lp] = "LP_ENABLED"]
      /\ lifecycle' = lifecycle \ {v}
      /\ stability' = [e \in Elements |-> IF e \in mine THEN e \notin Counted ELSE stability[e]]
      /\ simulation_completed' =
           [e \in Elements |-> IF e \in mine THEN FALSE ELSE simulation_completed[e]]
      /\ UNCHANGED <<finished, messages>>
      /\ lp_enabled \in [LP -> {"LP_DISABLED", "LP_SETUP", "LP_ENABLED"}]
      /\ finished \subseteq LP
      /\ Deliver(v)
  BY DEF StartSimulation, outputVars, RefinementInv, Launch,
         ConvergenceInv, TerminationInv, TypeOK, Lifecycle
<1>2. lp_enabled[v.lp] # "LP_ENABLED" /\ v.lp \notin finished
  BY <1>1 DEF RefinementInv, Launch
<1>3. \A lp \in LP : lp # v.lp => lp_enabled'[lp] = lp_enabled[lp]
  BY <1>1
<1>4. Enabled \subseteq LP
  BY EnabledAreLps DEF NoSpareStarts
<1>5. \A w \in lifecycle : w.kind # "INIT"
  <2>1. v.ts = TsStartSimulation /\ \A w \in lifecycle : v.ts <= w.ts
    BY <1>1, DeliverEarliest DEF RefinementInv, ConvergenceInv, TerminationInv, SetupFirst
  <2>2. \A w \in lifecycle : w.ts \in Nat /\ (w.kind = "INIT" => w.ts < TsStartSimulation)
    BY DEF RefinementInv, ConvergenceInv, TerminationInv, SetupFirst, TypeOK, Lifecycle
  <2> QED BY <2>1, <2>2, TerminationAssumption
<1>6. \A w \in lifecycle' : w.kind = "START_SIMULATION" => w.lp # v.lp
  BY <1>1 DEF RefinementInv, ConvergenceInv, TerminationInv, TypeOK, SetupFirst, Lifecycle
<1>7. Settling = {} /\ Settling' = {}
  <2>1. Settling = {}
    BY SetupEmpty DEF RefinementInv
  <2> QED BY <1>1, <2>1 DEF Settling, Counted
<1>8. Launch'
  <2>1. \A lp \in LP : lp_enabled'[lp] = "LP_ENABLED" =>
          \A w \in lifecycle' : w.kind # "INIT" /\ (w.kind = "START_SIMULATION" => w.lp # lp)
    BY <1>1, <1>3, <1>5, <1>6 DEF RefinementInv, Launch
  <2>2. \A lp \in Enabled : lp_enabled'[lp] # "LP_DISABLED"
    BY <1>1, <1>3, <1>4, <1>5 DEF RefinementInv, Launch
  <2>3. \A lp \in Enabled \cap finished' : lp_enabled'[lp] = "LP_ENABLED"
    BY <1>1, <1>3, <1>4 DEF RefinementInv, Launch
  <2>4. \A lp \in LP \ Enabled : lp_enabled'[lp] # "LP_ENABLED"
    BY <1>1, <1>3 DEF RefinementInv, Launch
  <2> QED BY <1>1, <2>1, <2>2, <2>3, <2>4 DEF RefinementInv, Launch, Enabled, LP
<1>9. Ended' <=> Ended
  BY <1>1, <1>2, <1>3 DEF Ended
<1> QED BY <1>1, <1>7, <1>8, <1>9

\* A check lets one element join or leave those that count as stable, unless
\* some LP has finished: then the element has nothing to check any more.
LEMMA UpdateRefines ==
  ASSUME WholeSeconds, NoSpareStarts, RefinementInv, NEW v \in updates, UpdateTimestamp(v)
  PROVE  /\ Launch' /\ (Ended' <=> Ended)
         /\ Settling' = Settling \/
              /\ ~Ended
              /\ \E e \in Counted : Settling' = Settling \cup {e} \/ Settling' = Settling \ {e}
         /\ Ended => messages' = messages
<1> DEFINE e == v.element_id
<1>1. /\ e \in Counted /\ e \in Elements /\ LpOf[e] \in Enabled
      /\ UNCHANGED <<lp_enabled, num_stable_elements, lifecycle, finished>>
  BY UpdateFacts, EnabledAreLps DEF RefinementInv, ConvergenceInv, NoSpareStarts
<1>2. Launch' /\ (Ended' <=> Ended)
  BY <1>1 DEF RefinementInv, Launch, Ended
<1>3. CASE UNCHANGED <<elementVars, messages>>
  BY <1>2, <1>3 DEF elementVars, Settling
<1>4. CASE ~Settled(e) /\ (TimeLimit(v) \/ Check(v))
  <2>1. ~Ended
    <3>1. ASSUME Ended PROVE FALSE
      <4>1. messages = {} /\ Settling = Counted
        BY <3>1 DEF RefinementInv, EndedTogether
      <4>2. num_stable_elements[LpOf[e]] = Total
        BY <1>1, <4>1, NothingUnderway
           DEF RefinementInv, ConvergenceInv, TerminationInv, NoSpareStarts, Total
      <4> QED BY <1>4, <4>2 DEF Settled
    <3> QED BY <3>1
  <2>2. \/ /\ stability' = stability
           /\ simulation_completed' = [simulation_completed EXCEPT ![e] = TRUE]
        \/ /\ \E check \in BOOLEAN \cup {stability[e]} : stability' = [stability EXCEPT ![e] = check]
           /\ simulation_completed' = simulation_completed
    BY <1>4 DEF TimeLimit, Check
  <2>3. \A f \in Counted \ {e} : f \in Settling' <=> f \in Settling
    BY <2>2 DEF Settling, Counted, RefinementInv, ConvergenceInv, TerminationInv, TypeOK
  <2>4. Settling \subseteq Counted /\ Settling' \subseteq Counted
    BY DEF Settling
  <2>5. Settling' = Settling \cup {e} \/ Settling' = Settling \ {e}
    <3>1. CASE e \in Settling'
      BY <2>3, <2>4, <3>1
    <3>2. CASE e \notin Settling'
      BY <2>3, <2>4, <3>2
    <3> QED BY <3>1, <3>2
  <2> QED BY <1>1, <1>2, <2>1, <2>5
<1> QED BY <1>3, <1>4 DEF UpdateTimestamp

\* Once an LP has finished no message is under way.
LEMMA MessageRefines ==
  ASSUME RefinementInv, NEW m \in messages, StabilityMessage(m)
  PROVE  Launch' /\ ~Ended /\ ~Ended' /\ Settling' = Settling
<1>1. UNCHANGED <<stability, simulation_completed, lp_enabled, lifecycle, finished>>
  BY DEF StabilityMessage, elementVars, outputVars
<1> QED BY <1>1 DEF RefinementInv, EndedTogether, Launch, Ended, Settling

\* The first LP to finish does so when every element counts as stable; the others
\* follow.
LEMMA OnGVTRefines ==
  ASSUME NoSpareStarts, RefinementInv, NEW lp \in LP, OnGVT(lp)
  PROVE  /\ Launch' /\ Settling' = Settling /\ messages' = messages
         /\ \/ Ended' <=> Ended
            \/ Ended' /\ messages = {} /\ Settling = Counted
<1>1. /\ UNCHANGED <<lp_enabled, stability, simulation_completed, lifecycle, messages>>
      /\ \A ts \in Pending : now < ts
      /\ finished \subseteq LP
  BY DEF OnGVT, lpVars, elementVars, eventVars, RefinementInv, ConvergenceInv, TerminationInv, TypeOK
<1>2. Settling' = Settling /\ messages' = messages
  BY <1>1 DEF Settling
<1>3. CASE lp_enabled[lp] = "LP_DISABLED" /\ finished' = finished \cup {lp}
  <2>1. lp \notin Enabled
    <3>1. ASSUME lp \in Enabled PROVE FALSE
      <4>1. PICK v \in lifecycle : v.kind = "INIT" /\ v.lp = lp
        BY <1>3, <3>1 DEF RefinementInv, Launch
      <4>2. v.ts = 0 /\ now \in Nat
        BY <4>1 DEF RefinementInv, ConvergenceInv, Timetable, TerminationInv, TypeOK
      <4>3. now < v.ts
        BY <1>1 DEF Pending
      <4> QED BY <4>2, <4>3
    <3> QED BY <3>1
  <2>2. Launch'
    BY <1>1, <1>3, <2>1 DEF RefinementInv, Launch
  <2>3. Ended' <=> Ended
    BY <1>1, <1>3 DEF Ended
  <2> QED BY <1>2, <2>2, <2>3
<1>4. CASE lp_enabled[lp] = "LP_ENABLED" /\ AllCounted(lp) /\ finished' = finished \cup {lp}
  <2>1. lp \in Enabled
    BY <1>4 DEF RefinementInv, Launch
  <2>2. messages = {} /\ Settling = Counted
    BY <1>1, <1>4, <2>1, AllCountedIsTrue DEF RefinementInv, NoSpareStarts
  <2>3. Launch'
    BY <1>1, <1>4 DEF RefinementInv, Launch
  <2>4. Ended'
    BY <1>1, <1>4 DEF Ended
  <2> QED BY <1>1, <1>2, <2>2, <2>3, <2>4
<1>5. CASE /\ lp_enabled[lp] = "LP_SETUP" \/ ~AllCounted(lp)
           /\ lp_enabled[lp] # "LP_DISABLED"
           /\ finished' = finished \ {lp}
  <2>1. Launch'
    BY <1>1, <1>5 DEF RefinementInv, Launch
  <2>2. Ended' => Ended
    BY <1>1, <1>5 DEF Ended
  <2>3. Ended => Ended'
    <3>1. ASSUME Ended PROVE lp_enabled[lp] # "LP_ENABLED"
      <4>1. messages = {} /\ Settling = Counted
        BY <3>1 DEF RefinementInv, EndedTogether
      <4>2. lp \in Enabled => AllCounted(lp)
        BY <4>1, NothingUnderway
           DEF RefinementInv, ConvergenceInv, TerminationInv, NoSpareStarts, AllCounted, Total
      <4> QED BY <1>5, <4>2 DEF RefinementInv, Launch
    <3> QED BY <1>1, <1>5, <3>1 DEF Ended
  <2> QED BY <1>2, <2>1, <2>2, <2>3
<1>6. CASE lp_enabled[lp] = "LP_ENABLED" /\ lp \notin Enabled
  BY <1>6 DEF RefinementInv, Launch
<1> QED BY <1>3, <1>4, <1>5, <1>6 DEF OnGVT

\* Every step of the protocol is a step of Convergence, or changes nothing there.
LEMMA StepRefines ==
  ASSUME WholeSeconds, NoSpareStarts, RefinementInv, [Next]_vars
  PROVE  RefinementInv' /\ [Seen!Next]_(Seen!vars)
<1>1. ConvergenceInv'
  BY NextConverges DEF RefinementInv, NoSpareStarts
<1>2. SUFFICES /\ Launch'
               /\ EndedTogether'
               /\ \/ Settling' = Settling /\ (Ended' <=> Ended)
                  \/ Settling' = Settling /\ Settling = Counted /\ Ended'
                  \/ /\ ~Ended /\ (Ended' <=> Ended)
                     /\ \E e \in Counted : Settling' = Settling \cup {e} \/ Settling' = Settling \ {e}
  BY <1>1 DEF RefinementInv, Seen!Next, Seen!End, Seen!Gain, Seen!Lose, Seen!vars, Ended
<1>3. ASSUME NEW v \in lifecycle, InitLp(v) PROVE Launch' /\ ~Ended /\ ~Ended' /\ Settling' = Settling
  BY <1>3, InitRefines
<1>4. ASSUME NEW v \in lifecycle, DisableUnusedLp(v) \/ StartSimulation(v)
      PROVE  Launch' /\ (Ended' <=> Ended) /\ Settling' = Settling /\ messages' = messages
  BY <1>4, DisableRefines, StartRefines
<1>5. CASE LifecycleStep
  <2>1. CASE \E v \in lifecycle : InitLp(v)
    BY <1>3, <2>1 DEF EndedTogether
  <2>2. CASE \E v \in lifecycle : DisableUnusedLp(v) \/ StartSimulation(v)
    BY <1>4, <2>2 DEF RefinementInv, EndedTogether, Counted
  <2> QED BY <1>5, <2>1, <2>2 DEF LifecycleStep
<1>6. CASE UpdateStep
  BY <1>6, UpdateRefines DEF UpdateStep, RefinementInv, EndedTogether, Counted
<1>7. CASE MessageStep
  <2>1. Launch' /\ ~Ended /\ ~Ended' /\ Settling' = Settling
    BY <1>7, MessageRefines DEF MessageStep
  <2> QED BY <2>1 DEF EndedTogether
<1>8. CASE GVTStep
  BY <1>8, OnGVTRefines DEF GVTStep, RefinementInv, EndedTogether, Counted
<1>9. CASE UNCHANGED vars
  BY <1>9 DEF vars, RefinementInv, Launch, EndedTogether, Ended, Settling, Counted
<1> QED BY <1>5, <1>6, <1>7, <1>8, <1>9 DEF Next, Done

\* The simulation ends only when every element counts as stable, and from then
\* on none changes its mind: all LPs print results of the same steady state, for
\* every topology and every distribution over the LPs.
THEOREM RefinesConvergence ==
  ASSUME WholeSeconds, NoSpareStarts
  PROVE  Spec => ImplementsConvergence
<1>1. Init => RefinementInv /\ Seen!Init
  BY RefinementInit
<1>2. RefinementInv /\ [Next]_vars => RefinementInv' /\ [Seen!Next]_(Seen!vars)
  BY StepRefines
<1> QED BY <1>1, <1>2, PTL DEF Spec, ImplementsConvergence, Seen!Spec

=============================================================================
