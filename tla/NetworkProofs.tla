--------------------------- MODULE NetworkProofs ---------------------------
(***************************************************************************)
(* The network for every tree of the shape that TopologyAssumption states, *)
(* any number of devices and any aggregation.                              *)
(*                                                                         *)
(* First SoundRouting: the next hop is a recursive function on the tree; a *)
(* tree has seven levels, and seven steps of the recursion define it.      *)
(* RoutingInv is the inductive invariant.                                  *)
(*                                                                         *)
(* Then what the routing conserves: measurements, transitions and their    *)
(* replies, commands.  Each count is a sum over the jobs under way, in     *)
(* which a job weighs what it stands for where it is.  AccountsInv is the  *)
(* inductive invariant.                                                    *)
(***************************************************************************)
EXTENDS TreeNetwork, ProofBasics

-----------------------------------------------------------------------------
(* The tree.                                                               *)

Level(x) ==
  CASE Kind[x] = NODE /\ Type(x) = CENTRAL         -> 1
    [] Kind[x] = WAN /\ Type(Upper[x]) = CENTRAL   -> 2
    [] Kind[x] = NODE /\ Type(x) = REGIONAL        -> 3
    [] Kind[x] = WAN /\ Type(Upper[x]) = REGIONAL  -> 4
    [] Kind[x] = NODE /\ Type(x) = LOCAL_NODE      -> 5
    [] Kind[x] = LAN                               -> 6
    [] Kind[x] \in {SENSOR, ACTUATOR}              -> 7

\* The element above is one level up, and only the central node has none.
LEMMA Levels ==
  ASSUME NEW x \in Element
  PROVE  /\ Level(x) \in 1 .. 7 /\ x # NONE
         /\ \/ Upper[x] = NONE
            \/ Upper[x] \in Element /\ Upper[x] # NONE /\ Level(Upper[x]) + 1 = Level(x)
<1> USE DEF Of, Nodes, NODE, LAN, WAN, SENSOR, ACTUATOR, CENTRAL, REGIONAL, LOCAL_NODE, NONE
<1>1. \A e \in Element : e # NONE
  BY TopologyAssumption
<1>2. CASE Kind[x] = NODE /\ Type(x) = CENTRAL
  BY <1>1, <1>2, TopologyAssumption DEF Level
<1>3. CASE Kind[x] = NODE /\ Type(x) # CENTRAL
  <2>1. Upper[x] \in Of(WAN) /\ Type(x) \in {REGIONAL, LOCAL_NODE}
    BY <1>3, TopologyAssumption
  <2>2. Type(Upper[Upper[x]]) = IF Type(x) = LOCAL_NODE THEN REGIONAL ELSE CENTRAL
    BY <1>3, <2>1, TopologyAssumption
  <2> QED BY <1>1, <1>3, <2>1, <2>2 DEF Level
<1>4. CASE Kind[x] = WAN
  <2>1. Upper[x] \in Nodes /\ Type(Upper[x]) # LOCAL_NODE
    BY <1>4, TopologyAssumption
  <2>2. Type(Upper[x]) \in {CENTRAL, REGIONAL}
    BY <2>1, TopologyAssumption
  <2> QED BY <1>1, <1>4, <2>1, <2>2 DEF Level
<1>5. CASE Kind[x] = LAN
  BY <1>1, <1>5, TopologyAssumption DEF Level
<1>6. CASE Kind[x] \in {SENSOR, ACTUATOR}
  BY <1>1, <1>6, TopologyAssumption DEF Level
<1> QED BY <1>2, <1>3, <1>4, <1>5, <1>6, TopologyAssumption

\* Induction down the tree, for a set of elements.
LEMMA DownTheTree ==
  ASSUME NEW S,
         \A x \in Element : Upper[x] = NONE \/ Upper[x] \in S => x \in S
  PROVE  \A x \in Element : x \in S
<1> DEFINE Upto(k) == \A x \in Element : Level(x) <= k => x \in S
<1>1. Upto(0)
  BY Levels
<1>2. ASSUME NEW k \in Nat, Upto(k) PROVE Upto(k + 1)
  BY <1>2, Levels
<1>3. Upto(1)
  BY <1>1, <1>2
<1>4. Upto(2)
  BY <1>2, <1>3
<1>5. Upto(3)
  BY <1>2, <1>4
<1>6. Upto(4)
  BY <1>2, <1>5
<1>7. Upto(5)
  BY <1>2, <1>6
<1>8. Upto(6)
  BY <1>2, <1>7
<1>9. Upto(7)
  BY <1>2, <1>8
<1> QED BY <1>9, Levels

-----------------------------------------------------------------------------
(* The next hop.                                                           *)

\* One step of upwardSearchActuatorPaths' walk towards n, for every element.
Climb(h, n) ==
  [x \in Element |-> IF Upper[x] = n THEN x
                     ELSE IF Upper[x] = NONE THEN NONE ELSE h[Upper[x]]]

LEMMA ClimbAgrees ==
  ASSUME NEW n \in Element, NEW g, NEW h, NEW k \in Nat,
         \A x \in Element : Level(x) <= k => g[x] = h[x]
  PROVE  \A x \in Element : Level(x) <= k + 1 => Climb(g, n)[x] = Climb(h, n)[x]
BY Levels DEF Climb

LEMMA ClimbEnds ==
  ASSUME NEW n \in Element
  PROVE  \E f : f = Climb(f, n)
<1> DEFINE h0 == [x \in Element |-> NONE]
           h1 == Climb(h0, n)
           h2 == Climb(h1, n)
           h3 == Climb(h2, n)
           h4 == Climb(h3, n)
           h5 == Climb(h4, n)
           h6 == Climb(h5, n)
           h7 == Climb(h6, n)
           Same(g, h, k) == \A x \in Element : Level(x) <= k => g[x] = h[x]
<1>0. Same(h0, h1, 0)
  BY Levels
<1>1. Same(h1, Climb(h1, n), 1)
  BY <1>0, ClimbAgrees
<1> HIDE DEF h1
<1>2. Same(h2, Climb(h2, n), 2)
  BY <1>1, ClimbAgrees
<1> HIDE DEF h2
<1>3. Same(h3, Climb(h3, n), 3)
  BY <1>2, ClimbAgrees
<1> HIDE DEF h3
<1>4. Same(h4, Climb(h4, n), 4)
  BY <1>3, ClimbAgrees
<1> HIDE DEF h4
<1>5. Same(h5, Climb(h5, n), 5)
  BY <1>4, ClimbAgrees
<1> HIDE DEF h5
<1>6. Same(h6, Climb(h6, n), 6)
  BY <1>5, ClimbAgrees
<1> HIDE DEF h6
<1>7. Same(h7, Climb(h7, n), 7)
  BY <1>6, ClimbAgrees
<1>8. h7 = [x \in Element |-> h7[x]] /\ Climb(h7, n) = [x \in Element |-> Climb(h7, n)[x]]
  BY DEF Climb
<1> HIDE DEF h7
<1>9. \A x \in Element : h7[x] = Climb(h7, n)[x]
  BY <1>7, Levels
<1> QED BY <1>8, <1>9

\* NextHop is what its recursion says.
LEMMA NextHopStep ==
  ASSUME NEW n \in Element, NEW a \in Element
  PROVE  NextHop(n, a) = IF Upper[a] = n THEN a
                         ELSE IF Upper[a] = NONE THEN NONE ELSE NextHop(n, Upper[a])
<1> DEFINE f == CHOOSE f : f = Climb(f, n)
<1>1. f = Climb(f, n)
  BY ClimbEnds
<1>2. \A x : NextHop(n, x) = f[x]
  BY DEF NextHop, Climb
<1> HIDE DEF f
<1>3. f[a] = Climb(f, n)[a]
  BY <1>1
<1> QED BY <1>2, <1>3 DEF Climb

\* The next hop is directly below.
LEMMA NextHopBelow ==
  ASSUME NEW n \in Element, NEW a \in Element, NextHop(n, a) # NONE
  PROVE  NextHop(n, a) \in Element /\ Upper[NextHop(n, a)] = n
<1> DEFINE S == {x \in Element : NextHop(n, x) # NONE =>
                   NextHop(n, x) \in Element /\ Upper[NextHop(n, x)] = n}
<1>1. ASSUME NEW x \in Element, Upper[x] = NONE \/ Upper[x] \in S PROVE x \in S
  BY <1>1, NextHopStep
<1>2. a \in S
  <2> HIDE DEF S
  <2> QED BY <1>1, DownTheTree
<1> QED BY <1>2

\* From the next hop the way goes on, unless it is the destination.
LEMMA NextHopLeadsOn ==
  ASSUME NEW n \in Element, NEW a \in Element, NextHop(n, a) # NONE
  PROVE  NextHop(n, a) = a \/ NextHop(NextHop(n, a), a) # NONE
<1> DEFINE S == {x \in Element : NextHop(n, x) # NONE =>
                   NextHop(n, x) = x \/ NextHop(NextHop(n, x), x) # NONE}
<1>1. ASSUME NEW x \in Element, Upper[x] = NONE \/ Upper[x] \in S PROVE x \in S
  <2> SUFFICES ASSUME NextHop(n, x) # NONE, Upper[x] # n
               PROVE  NextHop(n, x) = x \/ NextHop(NextHop(n, x), x) # NONE
    BY NextHopStep
  <2> DEFINE h == NextHop(n, x)
             u == Upper[x]
  <2>1. u # NONE /\ u \in S /\ h = NextHop(n, u)
    BY <1>1, NextHopStep
  <2>2. h \in Element
    BY NextHopBelow
  <2>3. h = u \/ NextHop(h, u) # NONE
    BY <2>1
  <2>4. NextHop(h, x) = IF u = h THEN x ELSE NextHop(h, u)
    BY <2>1, <2>2, NextHopStep
  <2>5. x # NONE
    BY Levels
  <2> QED BY <2>3, <2>4, <2>5
<1>2. a \in S
  <2> HIDE DEF S
  <2> QED BY <1>1, DownTheTree
<1> QED BY <1>2

-----------------------------------------------------------------------------
(* Bags, and jobs in stations.                                             *)

LEMMA BagContents ==
  /\ BagToSet(EmptyBag) = {}
  /\ \A x : BagToSet(One(x)) = {x}
  /\ \A b, c : BagToSet(b (+) c) = BagToSet(b) \cup BagToSet(c)
  /\ \A b, c : BagToSet(b (-) c) \subseteq BagToSet(b)
<1>1. BagToSet(EmptyBag) = {} /\ \A x : BagToSet(One(x)) = {x}
  BY DEF BagToSet, EmptyBag, SetToBag, One
<1>2. ASSUME NEW b, NEW c PROVE BagToSet(b (+) c) = BagToSet(b) \cup BagToSet(c)
  BY DEF BagToSet, (+)
<1>3. ASSUME NEW b, NEW c PROVE BagToSet(b (-) c) \subseteq BagToSet(b)
  BY DEF BagToSet, (-)
<1> QED BY <1>1, <1>2, <1>3

HoldsJobs == station = [s \in Stations |-> station[s]]

\* What is inside a station after a job has entered it, or left it.
LEMMA StationEntered ==
  ASSUME HoldsJobs, NEW s \in Stations, NEW job,
         station' = [station EXCEPT ![s] = @ (+) One(job)]
  PROVE  /\ HoldsJobs'
         /\ Inside(s)' = Inside(s) \cup {job}
         /\ \A r \in Stations : r # s => Inside(r)' = Inside(r)
<1>1. \A r \in Stations : station'[r] = IF r = s THEN station[s] (+) One(job) ELSE station[r]
  BY DEF HoldsJobs
<1>2. HoldsJobs'
  BY DEF HoldsJobs
<1> QED BY <1>1, <1>2, BagContents DEF Inside

LEMMA StationLeft ==
  ASSUME HoldsJobs, NEW s \in Stations, NEW job, Leave(s, job)
  PROVE  /\ HoldsJobs'
         /\ \A r \in Stations : Inside(r)' \subseteq Inside(r)
<1>1. \A r \in Stations : station'[r] = IF r = s THEN station[s] (-) One(job) ELSE station[r]
  BY DEF HoldsJobs, Leave
<1>2. HoldsJobs'
  BY DEF HoldsJobs, Leave
<1> QED BY <1>1, <1>2, BagContents DEF Inside

LEMMA StationNames ==
  /\ \A e \in Nodes \cup Of(ACTUATOR) : Queue(e) \in Stations
  /\ \A l \in Of(LAN) : LanIn(l) \in Stations /\ LanOut(l) \in Stations
  /\ Disk \in Stations
  /\ \A e, l : /\ Queue(e) # LanIn(l) /\ Queue(e) # LanOut(l) /\ LanIn(e) # LanOut(l)
               /\ Disk # Queue(e) /\ Disk # LanIn(e) /\ Disk # LanOut(e)
               /\ Queue(e) = Queue(l) => e = l
               /\ LanIn(e) = LanIn(l) => e = l
               /\ LanOut(e) = LanOut(l) => e = l
<1>1. \A l \in Of(LAN) : {LanIn(l), LanOut(l)} \subseteq Stations
  BY DEF Stations
<1>2. \A e \in Nodes \cup Of(ACTUATOR) : Queue(e) \in Stations
  BY DEF Stations
<1>3. Disk \in Stations
  BY DEF Stations
<1>4. ASSUME NEW e, NEW l
      PROVE  /\ Queue(e) # LanIn(l) /\ Queue(e) # LanOut(l) /\ LanIn(e) # LanOut(l)
             /\ Queue(e) = Queue(l) => e = l
             /\ LanIn(e) = LanIn(l) => e = l
             /\ LanOut(e) = LanOut(l) => e = l
  <2>1. /\ Queue(e)[1] = e /\ Queue(e)[2] = "queue" /\ Queue(l)[1] = l
        /\ LanIn(e)[1] = e /\ LanIn(e)[2] = "in" /\ LanIn(l)[1] = l /\ LanIn(l)[2] = "in"
        /\ LanOut(e)[1] = e /\ LanOut(l)[1] = l /\ LanOut(l)[2] = "out"
    BY DEF Queue, LanIn, LanOut
  <2>2. "queue" # "in" /\ "queue" # "out" /\ "in" # "out"
    OBVIOUS
  <2> QED BY <2>1, <2>2, Zenon
<1>5. \A e : Disk # Queue(e) /\ Disk # LanIn(e) /\ Disk # LanOut(e)
  BY DEF Queue, LanIn, LanOut, Disk
<1> QED BY <1>1, <1>2, <1>3, <1>4, <1>5

-----------------------------------------------------------------------------
(* The invariant: every job is one that the element it is on its way to,   *)
(* or inside of, can handle.  A transition that a node has passed on names *)
(* a node that is not the central one.                                     *)

Sound(m) ==
  /\ m.to \in Element
  /\ m.job.type \in JobTypes
  /\ m.job.type = COMMAND    => m.job.device_destination \in Of(ACTUATOR) /\ OnPath(m)
  /\ m.job.type = REPLY      => AnswersBelow(m) /\ Type(m.job.device_sender) # CENTRAL
  /\ m.job.type = BATCH_DATA => Kind[m.to] \in {NODE, WAN}
  /\ m.job.type = TELEMETRY  => Kind[m.to] \in {NODE, WAN, LAN}
  /\ m.job.type = TRANSITION => \/ Kind[m.to] = LAN
                                \/ m.to \in Nodes /\ Type(m.to) = LOCAL_NODE
                                \/ AsksAbove(m) /\ Type(m.job.device_sender) # CENTRAL

SoundInside ==
  /\ \A n \in Nodes : \A job \in Inside(Queue(n)) : Sound([to |-> n, job |-> job])
  /\ \A l \in Of(LAN) : \A job \in Inside(LanIn(l)) :
       job.type = COMMAND /\ Sound([to |-> l, job |-> job])
  /\ \A l \in Of(LAN) : \A job \in Inside(LanOut(l)) : job.type \in {TELEMETRY, TRANSITION}

\* The program goes on, unless a node that reaches no actuator must choose one.
StaysUp == NodesReachActuators => ~exited

RoutingInv ==
  /\ StaysUp
  /\ HoldsJobs
  /\ \A m \in BagToSet(messages) : Sound(m)
  /\ SoundInside

\* The names of kinds, node types and jobs differ.
LEMMA NamesDiffer ==
  /\ NODE \notin {LAN, WAN, SENSOR, ACTUATOR} /\ LAN \notin {WAN, SENSOR, ACTUATOR}
  /\ WAN \notin {SENSOR, ACTUATOR} /\ SENSOR # ACTUATOR
  /\ CENTRAL \notin {REGIONAL, LOCAL_NODE} /\ REGIONAL # LOCAL_NODE
  /\ TELEMETRY \notin {TRANSITION, COMMAND, BATCH_DATA, REPLY}
  /\ TRANSITION \notin {COMMAND, BATCH_DATA, REPLY} /\ COMMAND \notin {BATCH_DATA, REPLY}
  /\ BATCH_DATA # REPLY
BY DEF NODE, LAN, WAN, SENSOR, ACTUATOR, CENTRAL, REGIONAL, LOCAL_NODE,
       TELEMETRY, TRANSITION, COMMAND, BATCH_DATA, REPLY

\* What is above and below an element, by its kind.
LEMMA Shape ==
  /\ \A e \in Element : e # NONE
  /\ \A n \in Nodes : n \in Element
  /\ \A n \in Nodes : \/ Type(n) = CENTRAL /\ Upper[n] = NONE
                      \/ Type(n) \in {REGIONAL, LOCAL_NODE} /\ Upper[n] \in Of(WAN)
  /\ \A w \in Of(WAN) : Upper[w] \in Nodes /\ Type(Upper[w]) # LOCAL_NODE
  /\ \A l \in Of(LAN) : Upper[l] \in Nodes /\ Type(Upper[l]) = LOCAL_NODE
  /\ \A d \in Of(SENSOR) \cup Of(ACTUATOR) : Upper[d] \in Of(LAN)
  /\ \A x \in Element : Upper[x] = NONE \/ Kind[Upper[x]] \in {NODE, WAN, LAN}
<1>1. \A e \in Element : e # NONE
  BY TopologyAssumption DEF NONE
<1>2. \A n \in Nodes : n \in Element /\ Kind[n] = NODE
  BY DEF Of, Nodes
<1>3. ASSUME NEW n \in Nodes
      PROVE  \/ Type(n) = CENTRAL /\ Upper[n] = NONE
             \/ Type(n) \in {REGIONAL, LOCAL_NODE} /\ Upper[n] \in Of(WAN)
  BY <1>2, TopologyAssumption, NamesDiffer
<1>4. ASSUME NEW w \in Of(WAN) PROVE Upper[w] \in Nodes /\ Type(Upper[w]) # LOCAL_NODE
  BY TopologyAssumption, NamesDiffer DEF Of
<1>5. ASSUME NEW l \in Of(LAN) PROVE Upper[l] \in Nodes /\ Type(Upper[l]) = LOCAL_NODE
  BY TopologyAssumption, NamesDiffer DEF Of
<1>6. ASSUME NEW d \in Of(SENSOR) \cup Of(ACTUATOR) PROVE Upper[d] \in Of(LAN)
  BY TopologyAssumption, NamesDiffer DEF Of
<1>7. ASSUME NEW x \in Element PROVE Upper[x] = NONE \/ Kind[Upper[x]] \in {NODE, WAN, LAN}
  BY TopologyAssumption DEF Of, Nodes
<1> QED BY <1>1, <1>2, <1>3, <1>4, <1>5, <1>6, <1>7

\* What a job is sent as.
LEMMA Sent ==
  /\ \A e, job : BagToSet(To(e, job)) = {[to |-> e, job |-> job]}
  /\ \A t, s, d : /\ Job(t, s, d).type = t
                  /\ Job(t, s, d).device_sender = s
                  /\ Job(t, s, d).device_destination = d
BY BagContents DEF To, Job

\* Commands, replies and what goes up are sound where they are sent to.
LEMMA CommandSent ==
  ASSUME NEW e \in Element, NEW a
  PROVE  /\ \A m \in BagToSet(SendCommand(e, a)) : Sound(m)
         /\ \A job : a \in Of(ACTUATOR) /\ job.type = COMMAND /\ job.device_destination = a /\ NextHop(e, a) # NONE =>
              Sound([to |-> NextHop(e, a), job |-> job])
<1>1. ASSUME NEW job, a \in Of(ACTUATOR), job.type = COMMAND, job.device_destination = a,
             NextHop(e, a) # NONE
      PROVE  Sound([to |-> NextHop(e, a), job |-> job])
  <2>1. a \in Element
    BY <1>1 DEF Of
  <2> QED BY <1>1, <2>1, NextHopBelow, NextHopLeadsOn, NamesDiffer DEF Sound, OnPath, JobTypes
<1>2. ASSUME NEW m \in BagToSet(SendCommand(e, a)) PROVE Sound(m)
  <2>1. a \in Below(e) /\ m = [to |-> NextHop(e, a), job |-> Job(COMMAND, NONE, a)]
    BY <1>2, Sent, BagContents DEF SendCommand
  <2> QED BY <1>1, <2>1, Sent DEF Below
<1> QED BY <1>1, <1>2

\* What a node sends up goes to a WAN.
LEMMA SentUp ==
  ASSUME NEW n \in Nodes
  PROVE  /\ \A t \in {TELEMETRY, BATCH_DATA} :
              \A m \in BagToSet(ToUpNode(n, Job(t, NONE, NONE))) : Sound(m)
         /\ \A m \in BagToSet(ToUpNode(n, Job(TRANSITION, n, NONE))) : Sound(m)
<1>1. ASSUME NEW job, NEW m \in BagToSet(ToUpNode(n, job))
      PROVE  /\ m = [to |-> Upper[n], job |-> job]
             /\ Upper[n] \in Of(WAN) /\ Upper[n] \in Element /\ Kind[Upper[n]] = WAN
             /\ Type(n) # CENTRAL
  BY <1>1, Sent, BagContents, Shape, NamesDiffer DEF ToUpNode, Of
<1>2. ASSUME NEW t \in {TELEMETRY, BATCH_DATA},
             NEW m \in BagToSet(ToUpNode(n, Job(t, NONE, NONE)))
      PROVE  Sound(m)
  BY <1>1, <1>2, Sent, NamesDiffer DEF Sound, JobTypes
<1>3. ASSUME NEW m \in BagToSet(ToUpNode(n, Job(TRANSITION, n, NONE))) PROVE Sound(m)
  BY <1>1, <1>3, Sent, NamesDiffer DEF Sound, JobTypes, AsksAbove
<1> QED BY <1>2, <1>3

\* There is one WAN below a node, so the reply takes the way the transition came.
LEMMA ReplySent ==
  ASSUME NEW n \in Nodes, NEW job, job.type = TRANSITION, Sound([to |-> n, job |-> job])
  PROVE  \A m \in BagToSet(Reply(n, job)) : Sound(m)
<1> SUFFICES ASSUME Type(n) # LOCAL_NODE, NEW m \in BagToSet(Reply(n, job))
             PROVE  Sound(m)
  BY BagContents DEF Reply
<1> DEFINE s == job.device_sender
<1>1. s \in Nodes /\ Type(s) # CENTRAL /\ n \in {Upper[s], Upper[Upper[s]]}
  BY NamesDiffer DEF Sound, AsksAbove, Nodes, Of
<1>2. Upper[s] \in Of(WAN) /\ Upper[Upper[s]] = n
  BY <1>1, Shape, NamesDiffer DEF Nodes, Of
<1>3. WanDown(n) = Upper[s]
  BY <1>2, TopologyAssumption DEF WanDown
<1>4. m = [to |-> Upper[s], job |-> Job(REPLY, s, NONE)]
  BY <1>3, Sent DEF Reply, SendReply
<1> QED BY <1>1, <1>2, <1>4, Sent, NamesDiffer DEF Sound, AnswersBelow, JobTypes, Of

LEMMA AggregateSent ==
  ASSUME NEW n \in Nodes, NEW t \in {TELEMETRY, BATCH_DATA}, NEW count, NEW max
  PROVE  \A m \in BagToSet(Aggregated(n, t, count, max)) : Sound(m)
BY SentUp, BagContents DEF Aggregated

-----------------------------------------------------------------------------
(* The invariant holds at first and every step keeps it.                   *)

LEMMA InitiallySound ==
  ASSUME Init
  PROVE  RoutingInv
<1>1. HoldsJobs /\ \A s \in Stations : Inside(s) = {}
  BY BagContents DEF Init, HoldsJobs, Inside
<1>2. SoundInside
  BY <1>1, StationNames DEF SoundInside
<1> QED BY <1>1, <1>2, BagContents DEF Init, RoutingInv, StaysUp

\* A job that leaves a station: what is left inside is still sound.
LEMMA SoundAfterLeaving ==
  ASSUME RoutingInv, NEW s \in Stations, NEW job, Leave(s, job)
  PROVE  HoldsJobs' /\ SoundInside'
<1>1. HoldsJobs' /\ \A r \in Stations : Inside(r)' \subseteq Inside(r)
  BY StationLeft DEF RoutingInv
<1>2. SoundInside'
  <2>1. ASSUME NEW n \in Nodes, NEW j \in Inside(Queue(n))' PROVE Sound([to |-> n, job |-> j])
    BY <1>1, <2>1, StationNames DEF RoutingInv, SoundInside
  <2>2. ASSUME NEW l \in Of(LAN), NEW j \in Inside(LanIn(l))'
        PROVE  j.type = COMMAND /\ Sound([to |-> l, job |-> j])
    BY <1>1, <2>2, StationNames DEF RoutingInv, SoundInside
  <2>3. ASSUME NEW l \in Of(LAN), NEW j \in Inside(LanOut(l))'
        PROVE  j.type \in {TELEMETRY, TRANSITION}
    BY <1>1, <2>3, StationNames DEF RoutingInv, SoundInside
  <2> QED BY <2>1, <2>2, <2>3 DEF SoundInside, Sound, OnPath, AnswersBelow, AsksAbove
<1> QED BY <1>1, <1>2

\* A sensor or actuator sends what it generates to its LAN.
LEMMA SoundAfterGenerate ==
  ASSUME RoutingInv, NEW d \in Of(SENSOR) \cup Of(ACTUATOR),
         NEW t \in {TELEMETRY, TRANSITION}, Generate(d, t)
  PROVE  RoutingInv'
<1>1. Upper[d] \in Element /\ Kind[Upper[d]] = LAN
  BY Shape DEF Of
<1>2. Sound([to |-> Upper[d], job |-> Job(t, NONE, NONE)])
  BY <1>1, Sent, NamesDiffer DEF Sound, JobTypes
<1>3. \A m \in BagToSet(messages') : Sound(m)
  BY <1>2, BagContents, Sent DEF RoutingInv, Generate
<1>4. StaysUp' /\ HoldsJobs' /\ SoundInside'
  BY DEF RoutingInv, StaysUp, Generate, HoldsJobs, SoundInside, Inside
<1> QED BY <1>3, <1>4 DEF RoutingInv

\* A node or an actuator takes a message; none is on its way to a sensor, which
\* has nothing below it.
\* Nothing is on its way to a sensor.
LEMMA DeviceTakes ==
  ASSUME RoutingInv, NEW m \in BagToSet(messages), ArriveDevice(m)
  PROVE  Sound(m) /\ Enter(Queue(m.to), m) /\ m.to \in Nodes \cup Of(ACTUATOR)
<1>1. Sound(m)
  BY DEF RoutingInv
<1>2. Kind[m.to] # SENSOR
  <2> SUFFICES ASSUME Kind[m.to] = SENSOR PROVE FALSE
    OBVIOUS
  <2>1. m.to \in Element /\ m.to # NONE
    BY <1>1, Shape DEF Sound
  <2>2. m.job.type # COMMAND
    <3> SUFFICES ASSUME m.job.type = COMMAND PROVE FALSE
      OBVIOUS
    <3> DEFINE a == m.job.device_destination
    <3>1. a \in Element /\ Kind[a] = ACTUATOR /\ OnPath(m)
      BY <1>1 DEF Sound, Of
    <3>2. NextHop(m.to, a) # NONE
      BY <3>1, NamesDiffer DEF OnPath
    <3> QED BY <2>1, <3>1, <3>2, NextHopBelow, Shape, NamesDiffer
  <2>3. m.job.type # REPLY
    BY <1>1, Shape, NamesDiffer DEF Sound, AnswersBelow, Nodes, Of
  <2>4. m.job.type # TRANSITION
    <3>1. ~AsksAbove(m) \/ Type(m.job.device_sender) = CENTRAL
      BY Shape, NamesDiffer DEF AsksAbove, Nodes, Of
    <3> QED BY <1>1, <3>1, NamesDiffer DEF Sound, Nodes, Of
  <2> QED BY <1>1, <2>2, <2>3, <2>4, NamesDiffer DEF Sound, JobTypes
<1>3. Enter(Queue(m.to), m) /\ m.to \in Nodes \cup Of(ACTUATOR)
  BY <1>1, <1>2 DEF ArriveDevice, Sound, Nodes, Of
<1> QED BY <1>1, <1>3

LEMMA SoundAfterArriveDevice ==
  ASSUME RoutingInv, NEW m \in BagToSet(messages), ArriveDevice(m)
  PROVE  RoutingInv'
<1>1. Sound(m)
  BY DeviceTakes
<1>2. Enter(Queue(m.to), m) /\ m.to \in Nodes \cup Of(ACTUATOR)
  BY DeviceTakes
<1>3. /\ HoldsJobs'
      /\ Inside(Queue(m.to))' = Inside(Queue(m.to)) \cup {m.job}
      /\ \A r \in Stations : r # Queue(m.to) => Inside(r)' = Inside(r)
  BY <1>2, StationNames, StationEntered DEF RoutingInv, Enter
<1>4. SoundInside'
  <2>1. ASSUME NEW n \in Nodes, NEW j \in Inside(Queue(n))' PROVE Sound([to |-> n, job |-> j])
    <3>1. CASE n = m.to
      BY <1>1, <1>3, <2>1, <3>1 DEF RoutingInv, SoundInside, Sound, OnPath, AnswersBelow, AsksAbove
    <3>2. CASE n # m.to
      BY <1>3, <2>1, <3>2, StationNames DEF RoutingInv, SoundInside
    <3> QED BY <3>1, <3>2
  <2>2. ASSUME NEW l \in Of(LAN), NEW j \in Inside(LanIn(l))'
        PROVE  j.type = COMMAND /\ Sound([to |-> l, job |-> j])
    BY <1>3, <2>2, StationNames DEF RoutingInv, SoundInside
  <2>3. ASSUME NEW l \in Of(LAN), NEW j \in Inside(LanOut(l))'
        PROVE  j.type \in {TELEMETRY, TRANSITION}
    BY <1>3, <2>3, StationNames DEF RoutingInv, SoundInside
  <2> QED BY <2>1, <2>2, <2>3 DEF SoundInside, Sound, OnPath, AnswersBelow, AsksAbove
<1>5. StaysUp' /\ \A x \in BagToSet(messages') : Sound(x)
  BY <1>2, BagContents DEF RoutingInv, StaysUp, Enter, Received
<1> QED BY <1>3, <1>4, <1>5 DEF RoutingInv

\* A LAN is sent neither replies nor batch data, so it does not exit.
LEMMA LanTakes ==
  ASSUME RoutingInv, NEW m \in BagToSet(messages), ArriveLan(m)
  PROVE  /\ Sound(m) /\ m.to \in Of(LAN)
         /\ \E s \in {LanIn(m.to), LanOut(m.to)} :
              /\ Enter(s, m)
              /\ IF s = LanIn(m.to) THEN m.job.type = COMMAND
                                    ELSE m.job.type \in {TELEMETRY, TRANSITION}
<1>1. Sound(m) /\ m.to \in Of(LAN)
  BY DEF RoutingInv, ArriveLan, Sound, Of
<1>2. m.job.type # BATCH_DATA /\ m.job.type # REPLY
  BY <1>1, Shape, NamesDiffer DEF Sound, AnswersBelow, Nodes, Of
<1> QED BY <1>1, <1>2, StationNames DEF ArriveLan, Sound, JobTypes

LEMMA SoundAfterArriveLan ==
  ASSUME RoutingInv, NEW m \in BagToSet(messages), ArriveLan(m)
  PROVE  RoutingInv'
<1>1. Sound(m) /\ m.to \in Of(LAN)
  BY LanTakes
<1>2. PICK s \in {LanIn(m.to), LanOut(m.to)} :
        /\ Enter(s, m)
        /\ IF s = LanIn(m.to) THEN m.job.type = COMMAND
                              ELSE m.job.type \in {TELEMETRY, TRANSITION}
  BY LanTakes
<1>3. /\ HoldsJobs' /\ s \in Stations
      /\ Inside(s)' = Inside(s) \cup {m.job}
      /\ \A r \in Stations : r # s => Inside(r)' = Inside(r)
  BY <1>1, <1>2, StationNames, StationEntered DEF RoutingInv, Enter
<1>4. SoundInside'
  <2>1. ASSUME NEW n \in Nodes, NEW j \in Inside(Queue(n))' PROVE Sound([to |-> n, job |-> j])
    <3>1. Queue(n) # s /\ Queue(n) \in Stations
      BY <1>2, StationNames
    <3> QED BY <1>3, <2>1, <3>1 DEF RoutingInv, SoundInside
  <2>2. ASSUME NEW l \in Of(LAN), NEW j \in Inside(LanIn(l))'
        PROVE  j.type = COMMAND /\ Sound([to |-> l, job |-> j])
    <3>1. CASE LanIn(l) = s
      <4>1. l = m.to /\ m.job.type = COMMAND
        BY <1>2, <3>1, StationNames
      <4> QED BY <1>1, <1>3, <2>2, <3>1, <4>1
            DEF RoutingInv, SoundInside, Sound, OnPath, AnswersBelow, AsksAbove
    <3>2. CASE LanIn(l) # s
      BY <1>3, <2>2, <3>2, StationNames DEF RoutingInv, SoundInside
    <3> QED BY <3>1, <3>2
  <2>3. ASSUME NEW l \in Of(LAN), NEW j \in Inside(LanOut(l))'
        PROVE  j.type \in {TELEMETRY, TRANSITION}
    <3>1. CASE LanOut(l) = s
      <4>1. m.job.type \in {TELEMETRY, TRANSITION}
        BY <1>2, <3>1, StationNames
      <4> QED BY <1>3, <2>3, <3>1, <4>1 DEF RoutingInv, SoundInside
    <3>2. CASE LanOut(l) # s
      BY <1>3, <2>3, <3>2, StationNames DEF RoutingInv, SoundInside
    <3> QED BY <3>1, <3>2
  <2> QED BY <2>1, <2>2, <2>3 DEF SoundInside, Sound, OnPath, AnswersBelow, AsksAbove
<1>5. StaysUp' /\ \A x \in BagToSet(messages') : Sound(x)
  BY <1>2, BagContents DEF RoutingInv, StaysUp, Enter, Received
<1> QED BY <1>3, <1>4, <1>5 DEF RoutingInv

\* A WAN passes a job on: a command down, a reply to who waits for it, the rest
\* up.
LEMMA SoundAfterArriveWan ==
  ASSUME RoutingInv, NEW m \in BagToSet(messages), ArriveWan(m)
  PROVE  RoutingInv'
<1> DEFINE w    == m.to
           next == [to |-> WanNext(w, m.job), job |-> m.job]
<1>1. Sound(m) /\ w \in Of(WAN) /\ w \in Element /\ Kind[w] = WAN
  BY DEF RoutingInv, ArriveWan, Sound, Of
<1>2. Sound(next)
  <2>1. CASE m.job.type = COMMAND
    <3>1. m.job.device_destination \in Of(ACTUATOR) /\ OnPath(m)
      BY <1>1, <2>1 DEF Sound
    <3>2. NextHop(w, m.job.device_destination) # NONE
      BY <1>1, <3>1, NamesDiffer DEF OnPath, Of
    <3>3. WanNext(w, m.job) = NextHop(w, m.job.device_destination)
      BY <2>1, NamesDiffer DEF WanNext
    <3> QED BY <1>1, <2>1, <3>1, <3>2, <3>3, CommandSent
  <2>2. CASE m.job.type = REPLY
    <3> DEFINE s == m.job.device_sender
    <3>1. s \in Nodes /\ s \in Element /\ Type(s) # CENTRAL
      BY <1>1, <2>2 DEF Sound, AnswersBelow, Nodes, Of
    <3>2. WanNext(w, m.job) = s
      BY <2>2, NamesDiffer DEF WanNext
    <3>3. AnswersBelow(next)
      BY <3>1, <3>2 DEF AnswersBelow
    <3> QED BY <2>2, <3>1, <3>2, <3>3, NamesDiffer DEF Sound, JobTypes
  <2>3. CASE m.job.type \in {TELEMETRY, TRANSITION, BATCH_DATA}
    <3>1. WanNext(w, m.job) = Upper[w]
      BY <2>3, NamesDiffer DEF WanNext
    <3>2. Upper[w] \in Nodes /\ Upper[w] \in Element /\ Kind[Upper[w]] = NODE
      BY <1>1, Shape DEF Nodes, Of
    <3>3. m.job.type = TRANSITION => AsksAbove(next) /\ Type(m.job.device_sender) # CENTRAL
      <4> SUFFICES ASSUME m.job.type = TRANSITION
                   PROVE  AsksAbove(next) /\ Type(m.job.device_sender) # CENTRAL
        OBVIOUS
      <4> DEFINE s == m.job.device_sender
      <4>1. s \in Nodes /\ Type(s) # CENTRAL /\ w \in {Upper[s], Upper[Upper[s]]}
        BY <1>1, NamesDiffer DEF Sound, AsksAbove, Nodes, Of
      <4>2. Upper[s] \in Of(WAN)
        BY <4>1, Shape
      <4>3. w = Upper[s]
        BY <1>1, <4>1, <4>2, Shape, NamesDiffer DEF Nodes, Of
      <4> QED BY <3>1, <4>1, <4>3 DEF AsksAbove
    <3> QED BY <2>3, <3>1, <3>2, <3>3, NamesDiffer DEF Sound, JobTypes
  <2> QED BY <1>1, <2>1, <2>2, <2>3 DEF Sound, JobTypes
<1>3. \A x \in BagToSet(messages') : Sound(x)
  <2>1. BagToSet(messages') \subseteq BagToSet(messages) \cup {next}
    BY BagContents, Sent DEF ArriveWan, Received
  <2> QED BY <1>2, <2>1 DEF RoutingInv
<1>4. StaysUp' /\ HoldsJobs' /\ SoundInside'
  BY DEF RoutingInv, StaysUp, ArriveWan, HoldsJobs, SoundInside, Inside
<1> QED BY <1>3, <1>4 DEF RoutingInv

LEMMA SoundAfterArrive ==
  ASSUME RoutingInv, NEW m \in BagToSet(messages), Arrive(m)
  PROVE  RoutingInv'
BY SoundAfterArriveDevice, SoundAfterArriveLan, SoundAfterArriveWan DEF Arrive

\* The disk is no device of the tree.
LEMMA SoundAfterArriveDisk ==
  ASSUME RoutingInv, NEW job, ArriveDisk(job)
  PROVE  RoutingInv'
<1>1. HoldsJobs' /\ \A r \in Stations : r # Disk => Inside(r)' = Inside(r)
  BY StationNames, StationEntered DEF RoutingInv, ArriveDisk
<1>2. SoundInside'
  <2>1. ASSUME NEW n \in Nodes, NEW j \in Inside(Queue(n))' PROVE Sound([to |-> n, job |-> j])
    BY <1>1, <2>1, StationNames DEF RoutingInv, SoundInside
  <2>2. ASSUME NEW l \in Of(LAN), NEW j \in Inside(LanIn(l))'
        PROVE  j.type = COMMAND /\ Sound([to |-> l, job |-> j])
    BY <1>1, <2>2, StationNames DEF RoutingInv, SoundInside
  <2>3. ASSUME NEW l \in Of(LAN), NEW j \in Inside(LanOut(l))'
        PROVE  j.type \in {TELEMETRY, TRANSITION}
    BY <1>1, <2>3, StationNames DEF RoutingInv, SoundInside
  <2> QED BY <2>1, <2>2, <2>3 DEF SoundInside, Sound, OnPath, AnswersBelow, AsksAbove
<1> QED BY <1>1, <1>2 DEF RoutingInv, StaysUp, ArriveDisk

\* A job that leaves a station where nothing but what is sent is new.
LEMMA SoundAfterFinish ==
  ASSUME RoutingInv, NEW s \in Stations, NEW job, Leave(s, job), UNCHANGED exited,
         \A m \in BagToSet(messages') : m \in BagToSet(messages) \/ Sound(m)
  PROVE  RoutingInv'
BY SoundAfterLeaving DEF RoutingInv, StaysUp

\* Whatever a node does with a job, what it sends is sound where it goes.
LEMMA SoundAfterFinishNode ==
  ASSUME RoutingInv, NEW n \in Nodes, NEW job \in Inside(Queue(n)), FinishNode(n, job)
  PROVE  RoutingInv'
<1>1. Sound([to |-> n, job |-> job]) /\ n \in Element /\ Queue(n) \in Stations
  BY StationNames, Shape DEF RoutingInv, SoundInside
<1>2. SUFFICES \A m \in BagToSet(messages') : m \in BagToSet(messages) \/ Sound(m)
  BY <1>1, SoundAfterFinish DEF FinishNode
<1>3. CASE FinishTelemetry(n, job)
  BY <1>3, AggregateSent, BagContents DEF FinishTelemetry
<1>4. CASE CommandFromTransition(n, job)
  <2>1. PICK a \in Selected(n) :
          messages' = messages (+) Reply(n, job) (+) SendCommand(n, a)
            (+) Aggregated(n, BATCH_DATA, num_batch_aggregated[n], BatchAggregation[Type(n)])
    BY <1>4 DEF CommandFromTransition
  <2>2. \A m \in BagToSet(Reply(n, job)) : Sound(m)
    BY <1>1, <1>4, ReplySent DEF CommandFromTransition
  <2>3. \A m \in BagToSet(SendCommand(n, a)) : Sound(m)
    BY <1>1, CommandSent
  <2>4. \A m \in BagToSet(Aggregated(n, BATCH_DATA, num_batch_aggregated[n],
                                     BatchAggregation[Type(n)])) : Sound(m)
    BY AggregateSent
  <2> QED BY <2>1, <2>2, <2>3, <2>4, BagContents
<1>5. CASE ForwardTransition(n, job)
  <2>1. \A m \in BagToSet(Reply(n, job)) : Sound(m)
    BY <1>1, <1>5, ReplySent DEF ForwardTransition
  <2>2. \A m \in BagToSet(ToUpNode(n, Job(TRANSITION, n, NONE))) : Sound(m)
    BY SentUp
  <2> QED BY <1>5, <2>1, <2>2, BagContents DEF ForwardTransition
<1>6. CASE FinishCommand(n, job)
  BY <1>1, <1>6, CommandSent, BagContents DEF FinishCommand
<1>7. CASE FinishBatchData(n, job)
  BY <1>7, AggregateSent, BagContents DEF FinishBatchData
<1>8. CASE FinishReply(n, job)
  BY <1>8 DEF FinishReply
<1> QED BY <1>3, <1>4, <1>5, <1>6, <1>7, <1>8 DEF FinishNode

LEMMA SoundAfterFinishActuator ==
  ASSUME RoutingInv, NEW a \in Of(ACTUATOR), NEW job, FinishActuator(a, job)
  PROVE  RoutingInv'
BY StationNames, SoundAfterFinish DEF FinishActuator, UnchangedByFinish

\* Above a LAN is a local node.
LEMMA SoundAfterFinishLanOut ==
  ASSUME RoutingInv, NEW l \in Of(LAN), NEW job \in Inside(LanOut(l)), FinishLanOut(l, job)
  PROVE  RoutingInv'
<1>1. Upper[l] \in Nodes /\ Upper[l] \in Element /\ Kind[Upper[l]] = NODE
        /\ Type(Upper[l]) = LOCAL_NODE
  BY Shape DEF Nodes, Of
<1>2. job.type \in {TELEMETRY, TRANSITION}
  BY DEF RoutingInv, SoundInside
<1>3. Sound([to |-> Upper[l], job |-> job])
  BY <1>1, <1>2, NamesDiffer DEF Sound, JobTypes
<1>4. \A m \in BagToSet(messages') : m \in BagToSet(messages) \/ Sound(m)
  BY <1>3, BagContents, Sent DEF FinishLanOut, ToUpNode
<1> QED BY <1>4, StationNames, SoundAfterFinish DEF FinishLanOut, UnchangedByFinish

\* A LAN delivers a command to the actuator it is for.
LEMMA SoundAfterFinishLanIn ==
  ASSUME RoutingInv, NEW l \in Of(LAN), NEW job \in Inside(LanIn(l)), FinishLanIn(l, job)
  PROVE  RoutingInv'
<1>1. job.type = COMMAND /\ job.device_destination \in Of(ACTUATOR)
  BY DEF RoutingInv, SoundInside, Sound
<1>2. Sound([to |-> job.device_destination, job |-> job])
  BY <1>1, NamesDiffer DEF Sound, OnPath, JobTypes, Of
<1>3. \A m \in BagToSet(messages') : m \in BagToSet(messages) \/ Sound(m)
  BY <1>2, BagContents, Sent DEF FinishLanIn
<1> QED BY <1>3, StationNames, SoundAfterFinish DEF FinishLanIn, UnchangedByFinish

LEMMA SoundAfterFinishDisk ==
  ASSUME RoutingInv, NEW job, FinishDisk(job)
  PROVE  RoutingInv'
BY StationNames, SoundAfterFinish DEF FinishDisk, UnchangedByFinish

\* A node that reaches no actuator may be the end of the program.
LEMMA SoundAfterOutOfBounds ==
  ASSUME RoutingInv, NEW n \in Nodes, NEW job, SelectOutOfBounds(n, job)
  PROVE  RoutingInv'
<1>1. ~NodesReachActuators
  BY ActuatorTypesAssumption DEF SelectOutOfBounds, NodesReachActuators
<1>2. StaysUp'
  BY <1>1 DEF StaysUp
<1>3. HoldsJobs' /\ SoundInside' /\ \A m \in BagToSet(messages') : Sound(m)
  BY DEF RoutingInv, SelectOutOfBounds, HoldsJobs, SoundInside, Inside
<1> QED BY <1>2, <1>3 DEF RoutingInv

LEMMA SoundAlways ==
  ASSUME RoutingInv, [Next]_vars
  PROVE  RoutingInv'
<1>1. CASE GenerateStep
  <2>1. PICK d \in Of(SENSOR) \cup Of(ACTUATOR), t \in {TELEMETRY, TRANSITION} : Generate(d, t)
    BY <1>1 DEF GenerateStep, GenerateTransition, GenerateTelemetry
  <2> QED BY <2>1, SoundAfterGenerate
<1>2. CASE ArriveStep
  BY <1>2, SoundAfterArrive, SoundAfterArriveDisk DEF ArriveStep
<1>3. CASE FinishStep
  BY <1>3, SoundAfterFinishNode, SoundAfterFinishActuator, SoundAfterFinishLanOut,
     SoundAfterFinishLanIn, SoundAfterFinishDisk, SoundAfterOutOfBounds DEF FinishStep
<1>4. CASE UNCHANGED vars
  BY <1>4 DEF vars, RoutingInv, StaysUp, HoldsJobs, SoundInside, Inside
<1> QED BY <1>1, <1>2, <1>3, <1>4 DEF Next, Quiet

LEMMA SoundMeansRouted ==
  ASSUME RoutingInv, NodesReachActuators
  PROVE  SoundRouting
BY NamesDiffer DEF RoutingInv, StaysUp, SoundRouting, Sound, JobTypes

\* No device ever gets a job it cannot handle, in any tree whose nodes all reach an
\* actuator, and in a network without actuators: commands move down to their
\* actuator, replies to the node that asked, a LAN sees neither replies nor batch
\* data, and the program does not exit.
THEOREM AlwaysSoundRouting ==
  ASSUME NodesReachActuators
  PROVE  Spec => []SoundRouting
<1>1. Init => RoutingInv
  BY InitiallySound
<1>2. RoutingInv /\ [Next]_vars => RoutingInv'
  BY SoundAlways
<1>3. RoutingInv => SoundRouting
  BY SoundMeansRouted
<1> QED BY <1>1, <1>2, <1>3, PTL DEF Spec

-----------------------------------------------------------------------------
(* The weight of a bag.                                                    *)

Copies(x, b) == IF x \in BagToSet(b) THEN b[x] ELSE 0

BagOver(b, S) == BagToSet(b) \in SUBSET S /\ \A x \in BagToSet(b) : b[x] \in Nat \ {0}

Weighs(w, S) == IsFiniteSet(S) /\ \A x \in S : w[x] \in Int

\* The terms of a weight, over the whole set that the bag takes from.
Terms(b, w, S) == [x \in S |-> w[x] * Copies(x, b)]

LEMMA CopiesType ==
  ASSUME NEW S, NEW b, BagOver(b, S), NEW x
  PROVE  Copies(x, b) \in Nat
BY DEF Copies, BagOver

LEMMA TermsType ==
  ASSUME NEW S, NEW w, Weighs(w, S), NEW b, BagOver(b, S)
  PROVE  \A x \in S : Terms(b, w, S)[x] \in Int
<1> TAKE x \in S
<1>1. Copies(x, b) \in Nat /\ w[x] \in Int
  BY CopiesType DEF Weighs
<1>2. Terms(b, w, S)[x] = w[x] * Copies(x, b)
  BY DEF Terms
<1> HIDE DEF Copies
<1> QED BY <1>1, <1>2

LEMMA WeightPadded ==
  ASSUME NEW S, NEW w, Weighs(w, S), NEW b, BagOver(b, S)
  PROVE  Weight(b, w) = SumFunctionOnSet(Terms(b, w, S), S)
<1> DEFINE g == [x \in BagToSet(b) |-> w[x] * b[x]]
           f == Terms(b, w, S)
           R == BagToSet(b)
<1>1. R \in SUBSET S /\ IsFiniteSet(S) /\ \A x \in R : w[x] \in Int /\ b[x] \in Int
  BY DEF Weighs, BagOver
<1>2. \A x \in R : g[x] \in Int /\ f[x] = g[x]
  BY <1>1 DEF Terms, Copies
<1>3. \A x \in S \ R : f[x] = 0
  BY DEF Terms, Copies, Weighs
<1>4. Weight(b, w) = SumFunctionOnSet(g, R)
  BY DEF Weight, SumFunction
<1> HIDE DEF f, g, R
<1>5. SumFunctionOnSet(f, S) = SumFunctionOnSet(g, R)
  BY <1>1, <1>2, <1>3, SumPadded
<1> QED BY <1>4, <1>5 DEF f

LEMMA WeightType ==
  ASSUME NEW S, NEW w, Weighs(w, S), NEW b, BagOver(b, S)
  PROVE  Weight(b, w) \in Int
<1>1. IsFiniteSet(S)
  BY DEF Weighs
<1>2. SumFunctionOnSet(Terms(b, w, S), S) \in Int
  BY <1>1, TermsType, SumType
<1> QED BY <1>2, WeightPadded

LEMMA Distributes ==
  ASSUME NEW a \in Int, NEW x \in Int, NEW y \in Int
  PROVE  a * (x + y) = a * x + a * y
OBVIOUS

LEMMA BagPlus ==
  ASSUME NEW S, NEW b, NEW c, BagOver(b, S), BagOver(c, S)
  PROVE  BagOver(b (+) c, S)
BY DEF BagOver, BagToSet, (+)

LEMMA CopiesPlus ==
  ASSUME NEW S, NEW b, NEW c, BagOver(b, S), BagOver(c, S), NEW x
  PROVE  Copies(x, b (+) c) = Copies(x, b) + Copies(x, c)
BY DEF BagOver, BagToSet, (+), Copies

LEMMA WeightPlus ==
  ASSUME NEW S, NEW w, Weighs(w, S), NEW b, NEW c, BagOver(b, S), BagOver(c, S)
  PROVE  Weight(b (+) c, w) = Weight(b, w) + Weight(c, w)
<1> DEFINE f == Terms(b, w, S)
           g == Terms(c, w, S)
           h == Terms(b (+) c, w, S)
<1>1. IsFiniteSet(S) /\ BagOver(b (+) c, S)
  BY BagPlus DEF Weighs
<1>2. \A x \in S : f[x] \in Int /\ g[x] \in Int
  BY TermsType
<1>3. ASSUME NEW x \in S PROVE h[x] = f[x] + g[x]
  <2>1. w[x] \in Int /\ Copies(x, b) \in Int /\ Copies(x, c) \in Int
    BY CopiesType DEF Weighs
  <2>2. h[x] = w[x] * Copies(x, b (+) c) /\ f[x] = w[x] * Copies(x, b) /\ g[x] = w[x] * Copies(x, c)
    BY DEF Terms
  <2>3. Copies(x, b (+) c) = Copies(x, b) + Copies(x, c)
    BY CopiesPlus
  <2>4. w[x] * (Copies(x, b) + Copies(x, c)) = w[x] * Copies(x, b) + w[x] * Copies(x, c)
    BY <2>1, Distributes
  <2> HIDE DEF f, g, h
  <2> QED BY ONLY <2>2, <2>3, <2>4
<1> HIDE DEF f, g, h
<1>4. SumFunctionOnSet(h, S) = SumFunctionOnSet(f, S) + SumFunctionOnSet(g, S)
  BY <1>1, <1>2, <1>3, SumPlus
<1>5. Weight(b, w) = SumFunctionOnSet(f, S) /\ Weight(c, w) = SumFunctionOnSet(g, S)
  BY WeightPadded DEF f, g
<1>6. Weight(b (+) c, w) = SumFunctionOnSet(h, S)
  BY <1>1, WeightPadded DEF h
<1> QED BY <1>4, <1>5, <1>6

LEMMA WeightOne ==
  ASSUME NEW S, NEW w, Weighs(w, S), NEW x \in S
  PROVE  BagOver(One(x), S) /\ Weight(One(x), w) = w[x]
<1> DEFINE g == [y \in {x} |-> w[y] * 1]
<1>1. One(x) = [y \in {x} |-> 1] /\ BagToSet(One(x)) = {x}
  BY DEF One, SetToBag, BagToSet
<1>2. Weight(One(x), w) = SumFunctionOnSet(g, {x})
  BY <1>1 DEF Weight, SumFunction
<1>3. g[x] = w[x] /\ w[x] \in Int /\ {x} \ {x} = {} /\ \A y \in {x} : g[y] \in Int
  BY DEF Weighs
<1>4. IsFiniteSet({x})
  BY FS_Singleton
<1> HIDE DEF g
<1>5. SumFunctionOnSet(g, {x}) = g[x] + SumFunctionOnSet(g, {x} \ {x})
  BY <1>3, <1>4, SumRemove
<1>6. SumFunctionOnSet(g, {x}) = w[x]
  BY <1>3, <1>5, SumEmpty
<1> QED BY <1>1, <1>2, <1>6 DEF BagOver

LEMMA WeightEmpty ==
  ASSUME NEW S, NEW w
  PROVE  BagOver(EmptyBag, S) /\ Weight(EmptyBag, w) = 0
BY SumEmpty, BagContents DEF BagOver, Weight, SumFunction

LEMMA BagMinus ==
  ASSUME NEW S, NEW b, BagOver(b, S), NEW x \in BagToSet(b)
  PROVE  /\ BagOver(b (-) One(x), S)
         /\ Copies(x, b (-) One(x)) = Copies(x, b) - 1
         /\ \A y : y # x => Copies(y, b (-) One(x)) = Copies(y, b)
BY DEF BagOver, BagToSet, (-), Copies, One, SetToBag

LEMMA WeightMinus ==
  ASSUME NEW S, NEW w, Weighs(w, S), NEW b, BagOver(b, S), NEW x \in BagToSet(b)
  PROVE  Weight(b (-) One(x), w) = Weight(b, w) - w[x]
<1> DEFINE f == Terms(b, w, S)
           g == Terms(b (-) One(x), w, S)
<1>1. IsFiniteSet(S) /\ BagOver(b (-) One(x), S) /\ x \in S
  BY BagMinus DEF Weighs, BagOver
<1>2. \A y \in S : f[y] \in Int
  BY TermsType
<1>3. \A y \in S : y # x => g[y] = f[y]
  BY BagMinus DEF Terms
<1>4. g[x] = f[x] - w[x] /\ g[x] \in Int /\ w[x] \in Int
  <2>1. w[x] \in Int /\ Copies(x, b) \in Int
    BY <1>1, CopiesType DEF Weighs
  <2>2. f[x] = w[x] * Copies(x, b) /\ g[x] = w[x] * Copies(x, b (-) One(x))
    BY <1>1 DEF Terms
  <2>3. Copies(x, b (-) One(x)) = Copies(x, b) - 1
    BY BagMinus
  <2>4. w[x] * (Copies(x, b) - 1) = w[x] * Copies(x, b) - w[x]
    BY <2>1
  <2>5. w[x] * Copies(x, b) \in Int
    BY <2>1
  <2> HIDE DEF f, g
  <2> QED BY <2>1, <2>2, <2>3, <2>4, <2>5
<1> HIDE DEF f, g
<1>5. SumFunctionOnSet(g, S) = SumFunctionOnSet(f, S) - f[x] + g[x]
  BY <1>1, <1>2, <1>3, <1>4, SumChanged
<1>6. SumFunctionOnSet(f, S) \in Int /\ f[x] \in Int
  BY <1>1, <1>2, SumType
<1>7. SumFunctionOnSet(g, S) = SumFunctionOnSet(f, S) - w[x]
  BY <1>4, <1>5, <1>6
<1> QED BY <1>1, <1>7, WeightPadded DEF f, g

-----------------------------------------------------------------------------
(* The places of jobs, and the stations, are finitely many.                *)

LEMMA CentralNode ==
  /\ Central \in Nodes /\ Type(Central) = CENTRAL
  /\ \A n \in Nodes : Type(n) = CENTRAL => n = Central
<1>1. PICK c \in Nodes : \A n \in Nodes : Type(n) = CENTRAL <=> n = c
  BY OneCentralAssumption
<1>2. Central \in Nodes /\ Type(Central) = CENTRAL
  BY <1>1 DEF Central
<1> QED BY <1>1, <1>2

LEMMA FinitelyManyPlaces ==
  IsFiniteSet(JobInfo) /\ IsFiniteSet(Place)
<1>1. IsFiniteSet(Ends) /\ IsFiniteSet(Element)
  BY OneCentralAssumption, FS_AddElement DEF Ends
<1>2. IsFiniteSet(JobTypes)
  <2>1. IsFiniteSet({TELEMETRY})
    BY FS_Singleton
  <2>2. IsFiniteSet({TELEMETRY} \cup {TRANSITION})
    BY <2>1, FS_AddElement
  <2>3. IsFiniteSet(({TELEMETRY} \cup {TRANSITION}) \cup {COMMAND})
    BY <2>2, FS_AddElement
  <2>4. IsFiniteSet((({TELEMETRY} \cup {TRANSITION}) \cup {COMMAND}) \cup {BATCH_DATA})
    BY <2>3, FS_AddElement
  <2>5. IsFiniteSet(((({TELEMETRY} \cup {TRANSITION}) \cup {COMMAND}) \cup {BATCH_DATA}) \cup {REPLY})
    BY <2>4, FS_AddElement
  <2>6. JobTypes = ((({TELEMETRY} \cup {TRANSITION}) \cup {COMMAND}) \cup {BATCH_DATA}) \cup {REPLY}
    BY DEF JobTypes
  <2> QED BY <2>5, <2>6
<1>3. IsFiniteSet(JobTypes \X (Ends \X Ends))
  <2>1. IsFiniteSet(Ends \X Ends)
    BY <1>1, FS_Product
  <2> QED BY <1>2, <2>1, FS_Product
<1>4. IsFiniteSet(JobInfo)
  <2> DEFINE P == JobTypes \X (Ends \X Ends)
             f == [p \in P |-> Job(p[1], p[2][1], p[2][2])]
  <2>1. \A p \in P : f[p] \in JobInfo
    BY DEF Job, JobInfo
  <2>2. ASSUME NEW j \in JobInfo PROVE \E p \in P : f[p] = j
    <3> DEFINE p == <<j.type, <<j.device_sender, j.device_destination>>>>
    <3>1. p \in P
      BY DEF JobInfo
    <3>2. f[p] = j
      BY <3>1 DEF Job, JobInfo
    <3> QED BY <3>1, <3>2
  <2>3. f \in Surjection(P, JobInfo)
    BY <2>1, <2>2 DEF Surjection
  <2> HIDE DEF f
  <2> QED BY <1>3, <2>3, FS_Surjection
<1>5. IsFiniteSet(Place)
  <2> DEFINE P == Element \X JobInfo
             f == [p \in P |-> [to |-> p[1], job |-> p[2]]]
  <2>1. IsFiniteSet(P)
    BY <1>1, <1>4, FS_Product
  <2>2. \A p \in P : f[p] \in Place
    BY DEF Place
  <2>3. ASSUME NEW m \in Place PROVE \E p \in P : f[p] = m
    <3> DEFINE p == <<m.to, m.job>>
    <3>1. p \in P
      BY DEF Place
    <3>2. f[p] = m
      BY <3>1 DEF Place
    <3> QED BY <3>1, <3>2
  <2>4. f \in Surjection(P, Place)
    BY <2>2, <2>3 DEF Surjection
  <2> HIDE DEF f
  <2> QED BY <2>1, <2>4, FS_Surjection
<1> QED BY <1>4, <1>5

\* The stations of the tree, where the jobs under way are.
OnWay == Stations \ {Disk}

LEMMA StationsOnWay ==
  /\ \A s \in OnWay : s[1] \in Element
  /\ \A e \in Nodes \cup Of(ACTUATOR) : Queue(e) \in OnWay /\ Queue(e)[1] = e
  /\ \A l \in Of(LAN) : /\ LanIn(l) \in OnWay /\ LanIn(l)[1] = l
                        /\ LanOut(l) \in OnWay /\ LanOut(l)[1] = l
  /\ Disk \in Stations /\ Disk \notin OnWay
<1>1. \A s \in OnWay : s[1] \in Element
  BY DEF OnWay, Stations, Queue, LanIn, LanOut, Nodes, Of
<1>2. /\ \A e \in Nodes \cup Of(ACTUATOR) : Queue(e) \in OnWay
      /\ \A l \in Of(LAN) : LanIn(l) \in OnWay /\ LanOut(l) \in OnWay
      /\ Disk \in Stations /\ Disk \notin OnWay
  BY StationNames DEF OnWay
<1>3. \A e : Queue(e)[1] = e /\ LanIn(e)[1] = e /\ LanOut(e)[1] = e
  BY DEF Queue, LanIn, LanOut
<1> QED BY <1>1, <1>2, <1>3

LEMMA FinitelyManyStations == IsFiniteSet(OnWay)
<1> DEFINE T == {"queue", "in", "out"}
<1>1. IsFiniteSet({"queue"} \cup {"in"} \cup {"out"})
  BY FS_Singleton, FS_AddElement
<1>2. T = {"queue"} \cup {"in"} \cup {"out"}
  OBVIOUS
<1>3. IsFiniteSet(Element \X T)
  BY <1>1, <1>2, OneCentralAssumption, FS_Product
<1>4. OnWay \subseteq Element \X T
  BY DEF OnWay, Stations, Queue, LanIn, LanOut, Nodes, Of
<1> QED BY <1>3, <1>4, FS_Subset

-----------------------------------------------------------------------------
(* How what is under way changes with a message or a station.              *)

Held(w) == SumFunctionOnSet([s \in OnWay |-> Weight(station[s], At(s[1], w))], OnWay)

JobBags ==
  /\ BagOver(messages, Place)
  /\ BagOver(disk_messages, JobInfo)
  /\ \A s \in Stations : BagOver(station[s], JobInfo)

LEMMA UnderWayIs ==
  ASSUME NEW w
  PROVE  /\ UnderWay(w) = Weight(messages, w) + Held(w)
         /\ UnderWay(w)' = Weight(messages', w) + Held(w)'
BY DEF UnderWay, Held, SumFunction, OnWay

LEMMA AtWeighs ==
  ASSUME NEW w, Weighs(w, Place), NEW e \in Element
  PROVE  Weighs(At(e, w), JobInfo) /\ \A j \in JobInfo : At(e, w)[j] = w[[to |-> e, job |-> j]]
BY FinitelyManyPlaces DEF Weighs, At, Place

LEMMA HeldType ==
  ASSUME NEW w, Weighs(w, Place), JobBags
  PROVE  Held(w) \in Int
<1> DEFINE f == [s \in OnWay |-> Weight(station[s], At(s[1], w))]
<1>1. ASSUME NEW s \in OnWay PROVE f[s] \in Int
  <2>1. s \in Stations /\ s[1] \in Element
    BY StationsOnWay DEF OnWay
  <2>2. Weighs(At(s[1], w), JobInfo) /\ BagOver(station[s], JobInfo)
    BY <2>1, AtWeighs DEF JobBags
  <2> QED BY <2>2, WeightType
<1> HIDE DEF f
<1>2. SumFunctionOnSet(f, OnWay) \in Int
  BY <1>1, FinitelyManyStations, SumType
<1> QED BY <1>2 DEF Held, f

\* Only station s changes.
LEMMA HeldChanged ==
  ASSUME NEW w, Weighs(w, Place), JobBags, NEW s \in OnWay, BagOver(station'[s], JobInfo),
         \A r \in OnWay : r # s => station'[r] = station[r]
  PROVE  Held(w)' = Held(w) - Weight(station[s], At(s[1], w)) + Weight(station'[s], At(s[1], w))
<1> DEFINE f == [r \in OnWay |-> Weight(station[r], At(r[1], w))]
           g == [r \in OnWay |-> Weight(station'[r], At(r[1], w))]
<1>1. ASSUME NEW r \in OnWay PROVE f[r] \in Int
  <2>1. r \in Stations /\ r[1] \in Element
    BY StationsOnWay DEF OnWay
  <2>2. Weighs(At(r[1], w), JobInfo) /\ BagOver(station[r], JobInfo)
    BY <2>1, AtWeighs DEF JobBags
  <2> QED BY <2>2, WeightType
<1>2. \A r \in OnWay : r # s => g[r] = f[r]
  OBVIOUS
<1>3. g[s] \in Int
  <2>1. Weighs(At(s[1], w), JobInfo)
    BY StationsOnWay, AtWeighs
  <2> QED BY <2>1, WeightType
<1>4. f[s] = Weight(station[s], At(s[1], w)) /\ g[s] = Weight(station'[s], At(s[1], w))
  OBVIOUS
<1>5. Held(w) = SumFunctionOnSet(f, OnWay) /\ Held(w)' = SumFunctionOnSet(g, OnWay)
  BY DEF Held
<1> HIDE DEF f, g
<1>6. SumFunctionOnSet(g, OnWay) = SumFunctionOnSet(f, OnWay) - f[s] + g[s]
  BY <1>1, <1>2, <1>3, FinitelyManyStations, SumChanged
<1> QED BY <1>4, <1>5, <1>6

LEMMA HeldEntered ==
  ASSUME NEW w, Weighs(w, Place), JobBags, HoldsJobs, NEW s \in OnWay, NEW job \in JobInfo,
         station' = [station EXCEPT ![s] = @ (+) One(job)]
  PROVE  /\ \A r \in Stations : BagOver(station'[r], JobInfo)
         /\ Held(w)' = Held(w) + w[[to |-> s[1], job |-> job]]
<1>1. s \in Stations /\ s[1] \in Element /\ BagOver(station[s], JobInfo)
  BY StationsOnWay DEF OnWay, JobBags
<1>2. \A r \in Stations : station'[r] = IF r = s THEN station[s] (+) One(job) ELSE station[r]
  BY <1>1 DEF HoldsJobs
<1>3. Weighs(At(s[1], w), JobInfo) /\ At(s[1], w)[job] = w[[to |-> s[1], job |-> job]]
  BY <1>1, AtWeighs
<1>4. BagOver(One(job), JobInfo) /\ Weight(One(job), At(s[1], w)) = w[[to |-> s[1], job |-> job]]
  BY <1>3, WeightOne
<1>5. BagOver(station'[s], JobInfo)
  BY <1>1, <1>2, <1>4, BagPlus
<1>6. Weight(station'[s], At(s[1], w)) = Weight(station[s], At(s[1], w)) + w[[to |-> s[1], job |-> job]]
  <2>1. Weight(station[s] (+) One(job), At(s[1], w))
          = Weight(station[s], At(s[1], w)) + Weight(One(job), At(s[1], w))
    BY <1>1, <1>3, <1>4, WeightPlus
  <2> QED BY <1>1, <1>2, <1>4, <2>1
<1>7. \A r \in Stations : BagOver(station'[r], JobInfo)
  BY <1>2, <1>5 DEF JobBags
<1>8. Held(w)' = Held(w) - Weight(station[s], At(s[1], w)) + Weight(station'[s], At(s[1], w))
  BY <1>2, <1>5, HeldChanged DEF OnWay
<1>9. Held(w) \in Int /\ Weight(station[s], At(s[1], w)) \in Int /\ w[[to |-> s[1], job |-> job]] \in Int
  BY <1>1, <1>3, HeldType, WeightType DEF Weighs
<1> QED BY <1>6, <1>7, <1>8, <1>9

LEMMA HeldLeft ==
  ASSUME NEW w, Weighs(w, Place), JobBags, HoldsJobs, NEW s \in OnWay, NEW job \in Inside(s),
         Leave(s, job)
  PROVE  /\ \A r \in Stations : BagOver(station'[r], JobInfo)
         /\ Held(w)' = Held(w) - w[[to |-> s[1], job |-> job]]
<1>1. s \in Stations /\ s[1] \in Element /\ BagOver(station[s], JobInfo)
  BY StationsOnWay DEF OnWay, JobBags
<1>2. \A r \in Stations : station'[r] = IF r = s THEN station[s] (-) One(job) ELSE station[r]
  BY <1>1 DEF HoldsJobs, Leave
<1>3. job \in BagToSet(station[s]) /\ job \in JobInfo
  BY <1>1 DEF Inside, BagOver
<1>4. Weighs(At(s[1], w), JobInfo) /\ At(s[1], w)[job] = w[[to |-> s[1], job |-> job]]
  BY <1>1, <1>3, AtWeighs
<1>5. BagOver(station'[s], JobInfo)
  BY <1>1, <1>2, <1>3, BagMinus
<1>6. Weight(station'[s], At(s[1], w)) = Weight(station[s], At(s[1], w)) - w[[to |-> s[1], job |-> job]]
  <2>1. Weight(station[s] (-) One(job), At(s[1], w))
          = Weight(station[s], At(s[1], w)) - At(s[1], w)[job]
    BY <1>1, <1>3, <1>4, WeightMinus
  <2> QED BY <1>1, <1>2, <1>4, <2>1
<1>7. \A r \in Stations : BagOver(station'[r], JobInfo)
  BY <1>2, <1>5 DEF JobBags
<1>8. Held(w)' = Held(w) - Weight(station[s], At(s[1], w)) + Weight(station'[s], At(s[1], w))
  BY <1>2, <1>5, HeldChanged DEF OnWay
<1>9. Held(w) \in Int /\ Weight(station[s], At(s[1], w)) \in Int /\ w[[to |-> s[1], job |-> job]] \in Int
  BY <1>1, <1>3, <1>4, HeldType, WeightType DEF Weighs
<1> QED BY <1>6, <1>7, <1>8, <1>9

LEMMA HeldSame ==
  ASSUME NEW w, \A s \in OnWay : station'[s] = station[s]
  PROVE  Held(w)' = Held(w)
<1>1. [s \in OnWay |-> Weight(station'[s], At(s[1], w))] = [s \in OnWay |-> Weight(station[s], At(s[1], w))]
  OBVIOUS
<1> QED BY <1>1 DEF Held

-----------------------------------------------------------------------------
(* The jobs under way: a transition below a regional node is in nobody's   *)
(* name, and nothing but commands reaches an actuator.                     *)

Named(m) ==
  /\ m.job.type = TRANSITION /\ (Kind[m.to] = LAN \/ (m.to \in Nodes /\ Type(m.to) = LOCAL_NODE)) =>
       m.job.device_sender = NONE
  /\ Kind[m.to] = ACTUATOR => m.job.type = COMMAND

Posted(b)   == BagOver(b, Place) /\ \A m \in BagToSet(b) : Named(m)
Filed(b)    == BagOver(b, JobInfo)
StationsIn  == /\ \A s \in Stations : Filed(station[s])
               /\ \A s \in OnWay : \A job \in Inside(s) : Named([to |-> s[1], job |-> job])
UnderWayInv == Posted(messages) /\ Filed(disk_messages) /\ StationsIn

LEMMA BagsUnderWay ==
  ASSUME UnderWayInv
  PROVE  JobBags
BY DEF UnderWayInv, JobBags, Posted, Filed, StationsIn

LEMMA PostedPlus ==
  ASSUME NEW b, NEW c, Posted(b), Posted(c)
  PROVE  Posted(b (+) c)
<1>1. BagOver(b (+) c, Place)
  BY BagPlus DEF Posted
<1>2. BagToSet(b (+) c) = BagToSet(b) \cup BagToSet(c)
  BY BagContents
<1> QED BY <1>1, <1>2 DEF Posted

LEMMA PostedEmpty ==
  ASSUME NEW w
  PROVE  Posted(EmptyBag) /\ Weight(EmptyBag, w) = 0
BY WeightEmpty, BagContents DEF Posted

LEMMA PostedTo ==
  ASSUME NEW w, Weighs(w, Place), NEW e \in Element, NEW job \in JobInfo,
         Named([to |-> e, job |-> job])
  PROVE  Posted(To(e, job)) /\ Weight(To(e, job), w) = w[[to |-> e, job |-> job]]
<1>1. [to |-> e, job |-> job] \in Place
  BY DEF Place
<1>2. BagOver(To(e, job), Place) /\ Weight(To(e, job), w) = w[[to |-> e, job |-> job]]
  BY <1>1, WeightOne DEF To
<1> QED BY <1>2, Sent DEF Posted

LEMMA PostedType ==
  ASSUME NEW w, Weighs(w, Place), NEW b, Posted(b)
  PROVE  Weight(b, w) \in Int
BY WeightType DEF Posted

\* The weight of three parts of what a node sends.
LEMMA PostedThree ==
  ASSUME NEW w, Weighs(w, Place), NEW a, NEW b, NEW c, NEW d,
         Posted(a), Posted(b), Posted(c), Posted(d)
  PROVE  /\ Posted(a (+) b) /\ Posted(a (+) b (+) c) /\ Posted(a (+) b (+) c (+) d)
         /\ Weight(a (+) b, w) = Weight(a, w) + Weight(b, w)
         /\ Weight(a (+) b (+) c, w) = Weight(a, w) + Weight(b, w) + Weight(c, w)
         /\ Weight(a (+) b (+) c (+) d, w) = Weight(a, w) + Weight(b, w) + Weight(c, w) + Weight(d, w)
<1>1. Posted(a (+) b)
  BY PostedPlus
<1>2. Posted(a (+) b (+) c)
  BY <1>1, PostedPlus
<1>3. Posted(a (+) b (+) c (+) d)
  BY <1>2, PostedPlus
<1>4. Weight(a (+) b, w) = Weight(a, w) + Weight(b, w)
  BY WeightPlus DEF Posted
<1>5. Weight(a (+) b (+) c, w) = Weight(a (+) b, w) + Weight(c, w)
  BY <1>1, WeightPlus DEF Posted
<1>6. Weight(a (+) b (+) c (+) d, w) = Weight(a (+) b (+) c, w) + Weight(d, w)
  BY <1>2, WeightPlus DEF Posted
<1> QED BY <1>1, <1>2, <1>3, <1>4, <1>5, <1>6

LEMMA JobType ==
  ASSUME NEW t \in JobTypes, NEW s \in Ends, NEW d \in Ends
  PROVE  Job(t, s, d) \in JobInfo
BY DEF Job, JobInfo

\* Above a node is a WAN, which takes everything.
LEMMA UpPosted ==
  ASSUME NEW w, Weighs(w, Place), NEW n \in Nodes, NEW job \in JobInfo
  PROVE  /\ Posted(ToUpNode(n, job))
         /\ Weight(ToUpNode(n, job), w) =
              IF Type(n) = CENTRAL THEN 0 ELSE w[[to |-> Upper[n], job |-> job]]
<1>1. CASE Type(n) = CENTRAL
  <2>1. Upper[n] = NONE
    BY <1>1, Shape, NamesDiffer
  <2> QED BY <1>1, <2>1, PostedEmpty DEF ToUpNode
<1>2. CASE Type(n) # CENTRAL
  <2>1. Upper[n] \in Element /\ Kind[Upper[n]] = WAN /\ Upper[n] # NONE
    BY <1>2, Shape DEF Of
  <2>2. Named([to |-> Upper[n], job |-> job])
    BY <2>1, NamesDiffer DEF Named, Nodes, Of
  <2> QED BY <1>2, <2>1, <2>2, PostedTo DEF ToUpNode
<1> QED BY <1>1, <1>2

LEMMA AggregatePosted ==
  ASSUME NEW w, Weighs(w, Place), NEW n \in Nodes, NEW t \in {TELEMETRY, BATCH_DATA},
         NEW count, NEW max
  PROVE  /\ Posted(Aggregated(n, t, count, max))
         /\ Weight(Aggregated(n, t, count, max), w) =
              IF Full(count, max) /\ Type(n) # CENTRAL
              THEN w[[to |-> Upper[n], job |-> Job(t, NONE, NONE)]] ELSE 0
<1>1. Job(t, NONE, NONE) \in JobInfo
  BY JobType DEF Ends, JobTypes
<1>2. /\ Posted(ToUpNode(n, Job(t, NONE, NONE)))
      /\ Weight(ToUpNode(n, Job(t, NONE, NONE)), w) =
           IF Type(n) = CENTRAL THEN 0 ELSE w[[to |-> Upper[n], job |-> Job(t, NONE, NONE)]]
  BY <1>1, UpPosted
<1> QED BY <1>2, PostedEmpty DEF Aggregated

LEMMA ReplyPosted ==
  ASSUME NEW w, Weighs(w, Place), NEW n \in Nodes, NEW job \in JobInfo, job.type = TRANSITION,
         Sound([to |-> n, job |-> job])
  PROVE  /\ Posted(Reply(n, job))
         /\ Type(n) = LOCAL_NODE => Weight(Reply(n, job), w) = 0
         /\ Type(n) # LOCAL_NODE =>
              Weight(Reply(n, job), w) =
                w[[to |-> WanDown(n), job |-> Job(REPLY, job.device_sender, NONE)]]
         /\ Type(n) # LOCAL_NODE =>
              [to |-> WanDown(n), job |-> Job(REPLY, job.device_sender, NONE)] \in Place
<1>1. CASE Type(n) = LOCAL_NODE
  BY <1>1, PostedEmpty DEF Reply
<1>2. CASE Type(n) # LOCAL_NODE
  <2> DEFINE s == job.device_sender
             j == Job(REPLY, s, NONE)
  <2>1. s \in Nodes /\ Type(s) # CENTRAL /\ n \in {Upper[s], Upper[Upper[s]]}
    BY <1>2, NamesDiffer DEF Sound, AsksAbove, Nodes, Of
  <2>2. Upper[s] \in Of(WAN) /\ Upper[Upper[s]] = n
    BY <2>1, Shape, NamesDiffer DEF Nodes, Of
  <2>3. WanDown(n) = Upper[s]
    BY <2>2, TopologyAssumption DEF WanDown
  <2>4. WanDown(n) \in Element /\ Kind[WanDown(n)] = WAN
    BY <2>2, <2>3 DEF Of
  <2>5. j \in JobInfo
    BY JobType DEF Ends, JobTypes, JobInfo
  <2>6. Named([to |-> WanDown(n), job |-> j])
    BY <2>4, NamesDiffer DEF Named, Nodes, Of
  <2>7. Reply(n, job) = To(WanDown(n), j)
    BY <1>2 DEF Reply, SendReply
  <2>8. [to |-> WanDown(n), job |-> j] \in Place
    BY <2>4, <2>5 DEF Place
  <2> QED BY <1>2, <2>4, <2>5, <2>6, <2>7, <2>8, PostedTo
<1> QED BY <1>1, <1>2

LEMMA CommandPosted ==
  ASSUME NEW w, Weighs(w, Place), NEW n \in Element, NEW a
  PROVE  /\ Posted(SendCommand(n, a))
         /\ a \in Below(n) =>
              Weight(SendCommand(n, a), w) = w[[to |-> NextHop(n, a), job |-> Job(COMMAND, NONE, a)]]
         /\ a \notin Below(n) => Weight(SendCommand(n, a), w) = 0
<1>1. CASE a \in Below(n)
  <2>1. a \in Element /\ NextHop(n, a) # NONE
    BY <1>1 DEF Below, Of
  <2>2. NextHop(n, a) \in Element
    BY <2>1, NextHopBelow
  <2>3. Job(COMMAND, NONE, a) \in JobInfo
    BY <2>1, JobType DEF Ends, JobTypes
  <2>4. Named([to |-> NextHop(n, a), job |-> Job(COMMAND, NONE, a)])
    BY Sent, NamesDiffer DEF Named
  <2>5. SendCommand(n, a) = To(NextHop(n, a), Job(COMMAND, NONE, a))
    BY <1>1 DEF SendCommand
  <2> QED BY <1>1, <2>2, <2>3, <2>4, <2>5, PostedTo
<1>2. CASE a \notin Below(n)
  BY <1>2, PostedEmpty DEF SendCommand
<1> QED BY <1>1, <1>2

-----------------------------------------------------------------------------
(* What each action does to the jobs under way, for any weight.            *)

JobsInv == RoutingInv /\ UnderWayInv

\* A place is what it is made of.
LEMMA PlaceParts ==
  ASSUME NEW m \in Place
  PROVE  m.to \in Element /\ m.job \in JobInfo /\ m = [to |-> m.to, job |-> m.job]
BY DEF Place

LEMMA StationsEntered ==
  ASSUME JobsInv, NEW s \in OnWay, NEW job \in JobInfo, Named([to |-> s[1], job |-> job]),
         station' = [station EXCEPT ![s] = @ (+) One(job)]
  PROVE  StationsIn'
<1>1. HoldsJobs /\ JobBags /\ s \in Stations
  BY BagsUnderWay DEF JobsInv, RoutingInv, OnWay
<1>2. Weighs(Commands, Place)
  BY FinitelyManyPlaces DEF Weighs, Commands
<1>3. \A r \in Stations : BagOver(station'[r], JobInfo)
  BY <1>1, <1>2, HeldEntered
<1>4. /\ Inside(s)' = Inside(s) \cup {job}
      /\ \A r \in Stations : r # s => Inside(r)' = Inside(r)
  BY <1>1, StationEntered
<1>5. ASSUME NEW r \in OnWay, NEW j \in Inside(r)' PROVE Named([to |-> r[1], job |-> j])
  BY <1>4, <1>5 DEF JobsInv, UnderWayInv, StationsIn, OnWay
<1> QED BY <1>3, <1>5 DEF StationsIn, Filed, Named

LEMMA StationsLeft ==
  ASSUME JobsInv, NEW s \in OnWay, NEW job \in Inside(s), Leave(s, job)
  PROVE  StationsIn'
<1>1. HoldsJobs /\ JobBags /\ s \in Stations
  BY BagsUnderWay DEF JobsInv, RoutingInv, OnWay
<1>2. Weighs(Commands, Place)
  BY FinitelyManyPlaces DEF Weighs, Commands
<1>3. \A r \in Stations : BagOver(station'[r], JobInfo)
  BY <1>1, <1>2, HeldLeft
<1>4. \A r \in Stations : Inside(r)' \subseteq Inside(r)
  BY <1>1, StationLeft
<1>5. ASSUME NEW r \in OnWay, NEW j \in Inside(r)' PROVE Named([to |-> r[1], job |-> j])
  BY <1>4, <1>5 DEF JobsInv, UnderWayInv, StationsIn, OnWay
<1> QED BY <1>3, <1>5 DEF StationsIn, Filed, Named

LEMMA StationsSame ==
  ASSUME UnderWayInv, UNCHANGED station
  PROVE  StationsIn'
BY DEF UnderWayInv, StationsIn, Inside, Filed, Named

LEMMA Delivered ==
  ASSUME JobsInv, NEW m \in BagToSet(messages), NEW w, Weighs(w, Place)
  PROVE  /\ m \in Place /\ Posted(Received(m))
         /\ Weight(Received(m), w) = Weight(messages, w) - w[m]
         /\ Weight(messages, w) \in Int /\ w[m] \in Int
<1>1. BagOver(messages, Place) /\ m \in Place
  BY DEF JobsInv, UnderWayInv, Posted, BagOver
<1>2. BagOver(messages (-) One(m), Place)
  BY <1>1, BagMinus
<1>3. Weight(messages (-) One(m), w) = Weight(messages, w) - w[m]
  BY <1>1, WeightMinus
<1>4. Weight(messages, w) \in Int /\ w[m] \in Int
  BY <1>1, WeightType DEF Weighs
<1> QED BY <1>1, <1>2, <1>3, <1>4, BagContents DEF Received, Posted, JobsInv, UnderWayInv

LEMMA UnderWayType ==
  ASSUME UnderWayInv, NEW w, Weighs(w, Place)
  PROVE  UnderWay(w) \in Int /\ Weight(messages, w) \in Int /\ Held(w) \in Int
BY UnderWayIs, BagsUnderWay, HeldType, PostedType DEF UnderWayInv

LEMMA GenerateEffect ==
  ASSUME JobsInv, NEW d \in Of(SENSOR) \cup Of(ACTUATOR), NEW t \in {TELEMETRY, TRANSITION},
         Generate(d, t), NEW w, Weighs(w, Place)
  PROVE  /\ UnderWayInv'
         /\ UnderWay(w)' = UnderWay(w) + w[[to |-> Upper[d], job |-> Job(t, NONE, NONE)]]
<1> DEFINE job == Job(t, NONE, NONE)
<1>1. Upper[d] \in Element /\ Kind[Upper[d]] = LAN
  BY Shape DEF Of
<1>2. job \in JobInfo /\ Named([to |-> Upper[d], job |-> job])
  <2>1. job \in JobInfo
    BY JobType DEF Ends, JobTypes
  <2>2. job.device_sender = NONE
    BY Sent
  <2> QED BY <1>1, <2>1, <2>2, NamesDiffer DEF Named
<1> HIDE DEF job
<1>3. Posted(To(Upper[d], job)) /\ Weight(To(Upper[d], job), w) = w[[to |-> Upper[d], job |-> job]]
  BY <1>1, <1>2, PostedTo
<1>4. messages' = messages (+) To(Upper[d], job) /\ Posted(messages)
  BY DEF Generate, job, JobsInv, UnderWayInv
<1>5. Posted(messages') /\ Weight(messages', w) = Weight(messages, w) + Weight(To(Upper[d], job), w)
  BY <1>3, <1>4, PostedThree
<1>6. StationsIn' /\ Filed(disk_messages')
  BY StationsSame DEF Generate, JobsInv, UnderWayInv, Filed
<1>7. Held(w)' = Held(w)
  BY HeldSame DEF Generate
<1>8. Weight(messages, w) \in Int /\ Held(w) \in Int
  BY UnderWayType DEF JobsInv
<1>9. w[[to |-> Upper[d], job |-> job]] \in Int
  BY <1>1, <1>2 DEF Weighs, Place
<1> QED BY <1>3, <1>5, <1>6, <1>7, <1>8, <1>9, UnderWayIs DEF UnderWayInv, job

\* A job that enters a station stays where it was on its way to.
LEMMA EnterEffect ==
  ASSUME JobsInv, NEW m \in BagToSet(messages), NEW s \in OnWay, s[1] = m.to, Enter(s, m),
         NEW w, Weighs(w, Place)
  PROVE  UnderWayInv' /\ UnderWay(w)' = UnderWay(w)
<1>1. /\ m \in Place /\ Posted(Received(m))
      /\ Weight(Received(m), w) = Weight(messages, w) - w[m]
      /\ Weight(messages, w) \in Int /\ w[m] \in Int
  BY Delivered
<1>2. m.job \in JobInfo /\ m = [to |-> s[1], job |-> m.job]
  BY <1>1, PlaceParts
<1>3. Named([to |-> s[1], job |-> m.job])
  BY <1>2 DEF JobsInv, UnderWayInv, Posted
<1>4. HoldsJobs /\ JobBags
  BY BagsUnderWay DEF JobsInv, RoutingInv
<1>5. StationsIn'
  BY <1>2, <1>3, StationsEntered DEF Enter
<1>6. Held(w)' = Held(w) + w[m]
  BY <1>2, <1>4, HeldEntered DEF Enter
<1>7. Held(w) \in Int
  BY <1>4, HeldType
<1> QED BY <1>1, <1>5, <1>6, <1>7, UnderWayIs DEF Enter, UnderWayInv, JobsInv, Filed

LEMMA WanEffect ==
  ASSUME JobsInv, RoutingInv', NEW m \in BagToSet(messages), ArriveWan(m),
         NEW w, Weighs(w, Place)
  PROVE  /\ UnderWayInv'
         /\ UnderWay(w)' = UnderWay(w) - w[m] + w[[to |-> WanNext(m.to, m.job), job |-> m.job]]
<1> DEFINE e == WanNext(m.to, m.job)
<1>1. /\ m \in Place /\ Posted(Received(m))
      /\ Weight(Received(m), w) = Weight(messages, w) - w[m]
      /\ Weight(messages, w) \in Int /\ w[m] \in Int
  BY Delivered
<1>2. messages' = Received(m) (+) To(e, m.job)
  BY DEF ArriveWan
<1>3. m.job \in JobInfo /\ m.job.type \in JobTypes /\ m.to \in Of(WAN)
  BY <1>1, PlaceParts DEF JobInfo, ArriveWan, Of
<1>4. Sound([to |-> e, job |-> m.job])
  BY <1>2, BagContents, Sent DEF JobsInv, RoutingInv
<1>5. e \in Element
  BY <1>4 DEF Sound
<1>6. Named([to |-> e, job |-> m.job])
  <2>1. Kind[e] = ACTUATOR => m.job.type = COMMAND
    <3> SUFFICES ASSUME Kind[e] = ACTUATOR, m.job.type # COMMAND PROVE FALSE
      OBVIOUS
    <3>1. CASE m.job.type = REPLY
      <4>1. e = m.job.device_sender /\ e \in Nodes
        BY <1>4, <3>1, NamesDiffer DEF WanNext, Sound, AnswersBelow
      <4> QED BY <4>1, NamesDiffer DEF Nodes, Of
    <3>2. CASE m.job.type # REPLY
      <4>1. e = Upper[m.to]
        BY <3>2 DEF WanNext
      <4> QED BY <1>3, <4>1, Shape, NamesDiffer DEF Nodes, Of
    <3> QED BY <3>1, <3>2
  <2>2. ASSUME m.job.type = TRANSITION
        PROVE  ~(Kind[e] = LAN \/ (e \in Nodes /\ Type(e) = LOCAL_NODE))
    <3>1. e = Upper[m.to]
      BY <2>2, NamesDiffer DEF WanNext
    <3> QED BY <1>3, <3>1, Shape, NamesDiffer DEF Nodes, Of
  <2> QED BY <2>1, <2>2 DEF Named
<1> HIDE DEF e
<1>7. Posted(To(e, m.job)) /\ Weight(To(e, m.job), w) = w[[to |-> e, job |-> m.job]]
  BY <1>3, <1>5, <1>6, PostedTo
<1>8. Posted(messages') /\ Weight(messages', w) = Weight(Received(m), w) + Weight(To(e, m.job), w)
  BY <1>1, <1>2, <1>7, PostedThree
<1>9. StationsIn' /\ Filed(disk_messages')
  BY StationsSame DEF ArriveWan, JobsInv, UnderWayInv, Filed
<1>10. Held(w)' = Held(w)
  BY HeldSame DEF ArriveWan
<1>11. Held(w) \in Int
  BY UnderWayType DEF JobsInv
<1>12. w[[to |-> e, job |-> m.job]] \in Int
  BY <1>3, <1>5 DEF Weighs, Place
<1> QED BY <1>1, <1>7, <1>8, <1>9, <1>10, <1>11, <1>12, UnderWayIs DEF UnderWayInv, e

\* A job in a station.
LEMMA InsideJob ==
  ASSUME JobsInv, NEW s \in OnWay, NEW job \in Inside(s)
  PROVE  /\ job \in JobInfo /\ Named([to |-> s[1], job |-> job]) /\ s[1] \in Element
         /\ [to |-> s[1], job |-> job] \in Place
         /\ \A w : Weighs(w, Place) => w[[to |-> s[1], job |-> job]] \in Int
<1>1. s \in Stations /\ s[1] \in Element
  BY StationsOnWay DEF OnWay
<1>2. job \in JobInfo /\ Named([to |-> s[1], job |-> job])
  BY <1>1 DEF JobsInv, UnderWayInv, StationsIn, Filed, BagOver, Inside
<1>3. [to |-> s[1], job |-> job] \in Place
  BY <1>1, <1>2 DEF Place
<1> QED BY <1>1, <1>2, <1>3 DEF Weighs

\* A job leaves a station, and the messages of b are sent.
LEMMA LeaveEffect ==
  ASSUME JobsInv, NEW s \in OnWay, NEW job \in Inside(s), Leave(s, job), Filed(disk_messages'),
         NEW b, Posted(b), messages' = messages (+) b, NEW w, Weighs(w, Place)
  PROVE  /\ UnderWayInv'
         /\ UnderWay(w)' = UnderWay(w) - w[[to |-> s[1], job |-> job]] + Weight(b, w)
<1>1. HoldsJobs /\ JobBags /\ Posted(messages)
  BY BagsUnderWay DEF JobsInv, RoutingInv, UnderWayInv
<1>2. Posted(messages') /\ Weight(messages', w) = Weight(messages, w) + Weight(b, w)
  BY <1>1, PostedThree
<1>3. Held(w)' = Held(w) - w[[to |-> s[1], job |-> job]]
  BY <1>1, HeldLeft
<1>4. Weight(messages, w) \in Int /\ Held(w) \in Int /\ Weight(b, w) \in Int
  BY UnderWayType, PostedType DEF JobsInv
<1>5. w[[to |-> s[1], job |-> job]] \in Int
  BY InsideJob
<1>6. UnderWay(w)' = UnderWay(w) - w[[to |-> s[1], job |-> job]] + Weight(b, w)
  BY <1>2, <1>3, <1>4, <1>5, UnderWayIs
<1> QED BY <1>2, <1>6, StationsLeft DEF UnderWayInv, Filed

\* A job leaves a station, and nothing is sent.
LEMMA LeaveQuietly ==
  ASSUME JobsInv, NEW s \in OnWay, NEW job \in Inside(s), Leave(s, job),
         UNCHANGED <<messages, disk_messages>>, NEW w, Weighs(w, Place)
  PROVE  UnderWayInv' /\ UnderWay(w)' = UnderWay(w) - w[[to |-> s[1], job |-> job]]
<1>1. HoldsJobs /\ JobBags
  BY BagsUnderWay DEF JobsInv, RoutingInv
<1>2. Held(w)' = Held(w) - w[[to |-> s[1], job |-> job]]
  BY <1>1, HeldLeft
<1>3. Weight(messages, w) \in Int /\ Held(w) \in Int
  BY UnderWayType DEF JobsInv
<1>4. w[[to |-> s[1], job |-> job]] \in Int
  BY InsideJob
<1>5. UnderWay(w)' = UnderWay(w) - w[[to |-> s[1], job |-> job]]
  BY <1>2, <1>3, <1>4, UnderWayIs
<1>6. Posted(messages') /\ Filed(disk_messages')
  BY DEF JobsInv, UnderWayInv, Filed, Posted, Named
<1> QED BY <1>5, <1>6, StationsLeft DEF UnderWayInv

-----------------------------------------------------------------------------
(* The disk.                                                               *)

OnDisk(type) == Weight(disk_messages, OfType(type)) + Weight(station[Disk], OfType(type))

LEMMA OfTypeWeighs ==
  ASSUME NEW t
  PROVE  Weighs(OfType(t), JobInfo) /\ \A j \in JobInfo : OfType(t)[j] = IF j.type = t THEN 1 ELSE 0
BY FinitelyManyPlaces DEF Weighs, OfType

LEMMA OnDiskType ==
  ASSUME UnderWayInv, NEW t
  PROVE  /\ OnDisk(t) \in Int
         /\ Weight(disk_messages, OfType(t)) \in Int /\ Weight(station[Disk], OfType(t)) \in Int
BY OfTypeWeighs, WeightType, StationsOnWay DEF UnderWayInv, StationsIn, Filed, OnDisk

\* Only the central node saves.
LEMMA Saved ==
  ASSUME UnderWayInv, NEW n, NEW type \in JobTypes, SaveOnDisk(n, type), NEW t
  PROVE  /\ Filed(disk_messages')
         /\ Weight(disk_messages', OfType(t)) =
              Weight(disk_messages, OfType(t)) + IF Type(n) = CENTRAL /\ type = t THEN 1 ELSE 0
<1> DEFINE job == Job(type, NONE, NONE)
<1>1. job \in JobInfo /\ job.type = type
  BY JobType, Sent DEF Ends
<1>2. Weighs(OfType(t), JobInfo) /\ OfType(t)[job] = IF type = t THEN 1 ELSE 0
  BY <1>1, OfTypeWeighs
<1>3. Filed(disk_messages) /\ Weight(disk_messages, OfType(t)) \in Int
  BY OnDiskType DEF UnderWayInv
<1> HIDE DEF job
<1>4. BagOver(One(job), JobInfo) /\ Weight(One(job), OfType(t)) = OfType(t)[job]
  BY <1>1, <1>2, WeightOne
<1>5. CASE Type(n) = CENTRAL
  <2>1. disk_messages' = disk_messages (+) One(job)
    BY <1>5 DEF SaveOnDisk, job
  <2>2. BagOver(disk_messages', JobInfo)
    BY <1>3, <1>4, <2>1, BagPlus DEF Filed
  <2>3. Weight(disk_messages', OfType(t)) = Weight(disk_messages, OfType(t)) + Weight(One(job), OfType(t))
    BY <1>2, <1>3, <1>4, <2>1, WeightPlus DEF Filed
  <2> QED BY <1>2, <1>4, <1>5, <2>2, <2>3 DEF Filed
<1>6. CASE Type(n) # CENTRAL
  BY <1>3, <1>6 DEF SaveOnDisk, Filed
<1> QED BY <1>5, <1>6

\* A job arrives at the disk.
LEMMA ArriveDiskEffect ==
  ASSUME JobsInv, NEW job \in BagToSet(disk_messages), ArriveDisk(job), NEW w, Weighs(w, Place)
  PROVE  UnderWayInv' /\ UnderWay(w)' = UnderWay(w) /\ \A t : OnDisk(t)' = OnDisk(t)
<1>1. /\ HoldsJobs /\ Filed(disk_messages) /\ Filed(station[Disk]) /\ job \in JobInfo
      /\ Disk \in Stations
  BY StationsOnWay DEF JobsInv, RoutingInv, UnderWayInv, StationsIn, Filed, BagOver
<1>2. \A r \in Stations : station'[r] = IF r = Disk THEN station[Disk] (+) One(job) ELSE station[r]
  BY <1>1 DEF ArriveDisk, HoldsJobs
<1>3. \A r \in OnWay : r \in Stations /\ station'[r] = station[r]
  BY <1>2 DEF OnWay
<1>4. Weighs(OfType(TELEMETRY), JobInfo)
  BY OfTypeWeighs
<1>5. BagOver(One(job), JobInfo)
  BY <1>1, <1>4, WeightOne
<1>6. Filed(station'[Disk]) /\ Filed(disk_messages')
  BY <1>1, <1>2, <1>5, BagPlus, BagMinus DEF Filed, ArriveDisk
<1>7. StationsIn'
  BY <1>2, <1>3, <1>6 DEF JobsInv, UnderWayInv, StationsIn, Inside, Filed, Named
<1>8. Held(w)' = Held(w)
  BY <1>3, HeldSame
<1>9. UnderWay(w)' = UnderWay(w)
  BY <1>8, UnderWayIs DEF ArriveDisk
<1>10. ASSUME NEW t PROVE OnDisk(t)' = OnDisk(t)
  <2>1. Weighs(OfType(t), JobInfo) /\ OfType(t)[job] \in Int
    BY <1>1, OfTypeWeighs DEF Weighs
  <2>2. Weight(disk_messages', OfType(t)) = Weight(disk_messages, OfType(t)) - OfType(t)[job]
    BY <1>1, <2>1, WeightMinus DEF ArriveDisk, Filed
  <2>3. Weight(One(job), OfType(t)) = OfType(t)[job]
    BY <1>1, <2>1, WeightOne
  <2>4. Weight(station[Disk] (+) One(job), OfType(t)) = Weight(station[Disk], OfType(t)) + Weight(One(job), OfType(t))
    BY <1>1, <1>5, <2>1, WeightPlus DEF Filed
  <2>5. Weight(station'[Disk], OfType(t)) = Weight(station[Disk], OfType(t)) + OfType(t)[job]
    BY <1>1, <1>2, <2>3, <2>4
  <2>6. Weight(disk_messages, OfType(t)) \in Int /\ Weight(station[Disk], OfType(t)) \in Int
    BY OnDiskType DEF JobsInv
  <2> QED BY <2>1, <2>2, <2>5, <2>6 DEF OnDisk
<1>11. Posted(messages')
  BY DEF ArriveDisk, JobsInv, UnderWayInv, Posted, Named
<1> QED BY <1>6, <1>7, <1>9, <1>10, <1>11 DEF UnderWayInv

\* The disk has written a job.
LEMMA FinishDiskEffect ==
  ASSUME JobsInv, NEW job \in Inside(Disk), FinishDisk(job), NEW w, Weighs(w, Place)
  PROVE  /\ UnderWayInv' /\ UnderWay(w)' = UnderWay(w) /\ job.type \in JobTypes
         /\ \A t : OnDisk(t)' = OnDisk(t) - IF job.type = t THEN 1 ELSE 0
<1>1. /\ HoldsJobs /\ Filed(station[Disk]) /\ job \in JobInfo /\ job \in BagToSet(station[Disk])
      /\ Disk \in Stations
  BY StationsOnWay DEF JobsInv, RoutingInv, UnderWayInv, StationsIn, Filed, BagOver, Inside
<1>2. \A r \in Stations : station'[r] = IF r = Disk THEN station[Disk] (-) One(job) ELSE station[r]
  BY <1>1 DEF FinishDisk, Leave, HoldsJobs
<1>3. \A r \in OnWay : r \in Stations /\ station'[r] = station[r]
  BY <1>2 DEF OnWay
<1>4. Filed(station'[Disk])
  BY <1>1, <1>2, BagMinus DEF Filed
<1>5. StationsIn'
  BY <1>2, <1>3, <1>4 DEF JobsInv, UnderWayInv, StationsIn, Inside, Filed, Named
<1>6. Held(w)' = Held(w)
  BY <1>3, HeldSame
<1>7. UnderWay(w)' = UnderWay(w)
  BY <1>6, UnderWayIs DEF FinishDisk
<1>8. ASSUME NEW t PROVE OnDisk(t)' = OnDisk(t) - IF job.type = t THEN 1 ELSE 0
  <2>1. Weighs(OfType(t), JobInfo) /\ OfType(t)[job] = IF job.type = t THEN 1 ELSE 0
    BY <1>1, OfTypeWeighs
  <2>2. Weight(station[Disk] (-) One(job), OfType(t)) = Weight(station[Disk], OfType(t)) - OfType(t)[job]
    BY <1>1, <2>1, WeightMinus DEF Filed
  <2>3. Weight(station'[Disk], OfType(t)) = Weight(station[Disk], OfType(t)) - OfType(t)[job]
    BY <1>1, <1>2, <2>2
  <2>4. Weight(disk_messages', OfType(t)) = Weight(disk_messages, OfType(t))
    BY DEF FinishDisk
  <2>5. Weight(disk_messages, OfType(t)) \in Int /\ Weight(station[Disk], OfType(t)) \in Int
    BY OnDiskType DEF JobsInv
  <2> QED BY <2>1, <2>3, <2>4, <2>5 DEF OnDisk
<1>9. Posted(messages') /\ Filed(disk_messages')
  BY DEF FinishDisk, JobsInv, UnderWayInv, Posted, Filed, Named
<1>10. job.type \in JobTypes
  BY <1>1 DEF JobInfo
<1> QED BY <1>5, <1>7, <1>8, <1>9, <1>10 DEF UnderWayInv

\* What happens on the way leaves the disk's queue as it was.
LEMMA DiskApart ==
  ASSUME JobsInv, NEW s \in OnWay,
         \/ \E job : Leave(s, job)
         \/ \E job : station' = [station EXCEPT ![s] = @ (+) One(job)]
  PROVE  station'[Disk] = station[Disk]
BY StationsOnWay DEF JobsInv, RoutingInv, HoldsJobs, Leave, OnWay

LEMMA OnDiskSame ==
  ASSUME station'[Disk] = station[Disk], UNCHANGED disk_messages, NEW t
  PROVE  OnDisk(t)' = OnDisk(t)
BY DEF OnDisk

LEMMA OnDiskSaved ==
  ASSUME UnderWayInv, station'[Disk] = station[Disk], NEW n, NEW type \in JobTypes,
         SaveOnDisk(n, type), NEW t
  PROVE  OnDisk(t)' = OnDisk(t) + IF Type(n) = CENTRAL /\ type = t THEN 1 ELSE 0
<1>1. Weight(disk_messages', OfType(t)) =
        Weight(disk_messages, OfType(t)) + IF Type(n) = CENTRAL /\ type = t THEN 1 ELSE 0
  BY Saved
<1>2. OnDisk(t)' = Weight(disk_messages', OfType(t)) + Weight(station[Disk], OfType(t))
  BY DEF OnDisk
<1>3. Weight(disk_messages, OfType(t)) \in Int /\ Weight(station[Disk], OfType(t)) \in Int
  BY OnDiskType
<1> QED BY <1>1, <1>2, <1>3 DEF OnDisk

-----------------------------------------------------------------------------
(* What a node does with a job.                                            *)

\* A job inside a node.
AtNode(n, job) == n \in Nodes /\ job \in Inside(Queue(n)) /\ Leave(Queue(n), job)

LEMMA NodeJob ==
  ASSUME JobsInv, NEW n, NEW job, AtNode(n, job)
  PROVE  /\ n \in Nodes /\ n \in Element /\ Queue(n) \in OnWay /\ Queue(n)[1] = n
         /\ job \in JobInfo /\ Sound([to |-> n, job |-> job]) /\ Named([to |-> n, job |-> job])
         /\ station'[Disk] = station[Disk]
<1>1. n \in Nodes /\ n \in Element /\ Queue(n) \in OnWay /\ Queue(n)[1] = n
  BY StationsOnWay, Shape DEF AtNode
<1>2. job \in Inside(Queue(n)) /\ Leave(Queue(n), job)
  BY DEF AtNode
<1>3. job \in JobInfo /\ Named([to |-> n, job |-> job])
  BY <1>1, <1>2, InsideJob
<1>4. Sound([to |-> n, job |-> job])
  BY <1>1, <1>2 DEF JobsInv, RoutingInv, SoundInside
<1>5. station'[Disk] = station[Disk]
  BY <1>1, <1>2, DiskApart
<1> QED BY <1>1, <1>3, <1>4, <1>5

LEMMA TypesOfJobs ==
  /\ TELEMETRY \in JobTypes /\ TRANSITION \in JobTypes /\ COMMAND \in JobTypes
  /\ BATCH_DATA \in JobTypes /\ REPLY \in JobTypes
BY DEF JobTypes

\* Telemetry and batch data: the same handler but for the counter.
LEMMA AggregateEffect ==
  ASSUME JobsInv, NEW n, NEW job, AtNode(n, job), NEW type \in {TELEMETRY, BATCH_DATA},
         NEW count, NEW max, messages' = messages (+) Aggregated(n, type, count, max),
         IF Full(count, max) THEN SaveOnDisk(n, type) ELSE UNCHANGED disk_messages,
         NEW w, Weighs(w, Place)
  PROVE  /\ UnderWayInv'
         /\ UnderWay(w)' = UnderWay(w) - w[[to |-> n, job |-> job]]
              + (IF Full(count, max) /\ Type(n) # CENTRAL
                 THEN w[[to |-> Upper[n], job |-> Job(type, NONE, NONE)]] ELSE 0)
         /\ \A t : OnDisk(t)' = OnDisk(t) + IF Full(count, max) /\ Type(n) = CENTRAL /\ type = t THEN 1 ELSE 0
<1>1. /\ n \in Nodes /\ Queue(n) \in OnWay /\ Queue(n)[1] = n /\ station'[Disk] = station[Disk]
      /\ job \in Inside(Queue(n)) /\ Leave(Queue(n), job)
  BY NodeJob DEF AtNode
<1>2. UnderWayInv /\ Filed(disk_messages) /\ type \in JobTypes
  BY TypesOfJobs DEF JobsInv, UnderWayInv
<1>3. Filed(disk_messages')
  BY <1>2, Saved DEF Filed
<1> DEFINE b == Aggregated(n, type, count, max)
<1>4. /\ Posted(b)
      /\ Weight(b, w) = IF Full(count, max) /\ Type(n) # CENTRAL
                        THEN w[[to |-> Upper[n], job |-> Job(type, NONE, NONE)]] ELSE 0
  BY <1>1, AggregatePosted
<1> HIDE DEF b
<1>5. UnderWayInv' /\ UnderWay(w)' = UnderWay(w) - w[[to |-> n, job |-> job]] + Weight(b, w)
  BY <1>1, <1>3, <1>4, LeaveEffect DEF b
<1>6. ASSUME NEW t
      PROVE OnDisk(t)' = OnDisk(t) + IF Full(count, max) /\ Type(n) = CENTRAL /\ type = t THEN 1 ELSE 0
  <2>1. CASE Full(count, max)
    BY <1>1, <1>2, <2>1, OnDiskSaved
  <2>2. CASE ~Full(count, max)
    <3>1. OnDisk(t)' = OnDisk(t) /\ OnDisk(t) \in Int
      BY <1>1, <1>2, <2>2, OnDiskSame, OnDiskType
    <3> QED BY <2>2, <3>1
  <2> QED BY <2>1, <2>2
<1> QED BY <1>4, <1>5, <1>6

LEMMA TelemetryEffect ==
  ASSUME JobsInv, NEW n, NEW job, AtNode(n, job), FinishTelemetry(n, job), NEW w, Weighs(w, Place)
  PROVE  LET full == Full(num_telemetry_aggregated[n], TelemetryAggregation[Type(n)])
         IN  /\ UnderWayInv'
             /\ UnderWay(w)' = UnderWay(w) - w[[to |-> n, job |-> job]]
                  + (IF full /\ Type(n) # CENTRAL
                     THEN w[[to |-> Upper[n], job |-> Job(TELEMETRY, NONE, NONE)]] ELSE 0)
             /\ \A t : OnDisk(t)' = OnDisk(t) + IF full /\ Type(n) = CENTRAL /\ TELEMETRY = t THEN 1 ELSE 0
<1> DEFINE count == num_telemetry_aggregated[n]
           max   == TelemetryAggregation[Type(n)]
<1>1. /\ messages' = messages (+) Aggregated(n, TELEMETRY, count, max)
      /\ IF Full(count, max) THEN SaveOnDisk(n, TELEMETRY) ELSE UNCHANGED disk_messages
  BY DEF FinishTelemetry
<1>2. TELEMETRY \in {TELEMETRY, BATCH_DATA}
  OBVIOUS
<1> HIDE DEF count, max
<1>3. /\ UnderWayInv'
      /\ UnderWay(w)' = UnderWay(w) - w[[to |-> n, job |-> job]]
           + (IF Full(count, max) /\ Type(n) # CENTRAL
              THEN w[[to |-> Upper[n], job |-> Job(TELEMETRY, NONE, NONE)]] ELSE 0)
      /\ \A t : OnDisk(t)' = OnDisk(t) + IF Full(count, max) /\ Type(n) = CENTRAL /\ TELEMETRY = t THEN 1 ELSE 0
  BY <1>1, <1>2, AggregateEffect
<1> QED BY <1>3 DEF count, max

LEMMA BatchEffect ==
  ASSUME JobsInv, NEW n, NEW job, AtNode(n, job), FinishBatchData(n, job), NEW w, Weighs(w, Place)
  PROVE  LET full == Full(num_batch_aggregated[n], BatchAggregation[Type(n)])
         IN  /\ UnderWayInv'
             /\ UnderWay(w)' = UnderWay(w) - w[[to |-> n, job |-> job]]
                  + (IF full /\ Type(n) # CENTRAL
                     THEN w[[to |-> Upper[n], job |-> Job(BATCH_DATA, NONE, NONE)]] ELSE 0)
             /\ \A t : OnDisk(t)' = OnDisk(t) + IF full /\ Type(n) = CENTRAL /\ BATCH_DATA = t THEN 1 ELSE 0
<1> DEFINE count == num_batch_aggregated[n]
           max   == BatchAggregation[Type(n)]
<1>1. /\ messages' = messages (+) Aggregated(n, BATCH_DATA, count, max)
      /\ IF Full(count, max) THEN SaveOnDisk(n, BATCH_DATA) ELSE UNCHANGED disk_messages
  BY DEF FinishBatchData
<1>2. BATCH_DATA \in {TELEMETRY, BATCH_DATA}
  OBVIOUS
<1> HIDE DEF count, max
<1>3. /\ UnderWayInv'
      /\ UnderWay(w)' = UnderWay(w) - w[[to |-> n, job |-> job]]
           + (IF Full(count, max) /\ Type(n) # CENTRAL
              THEN w[[to |-> Upper[n], job |-> Job(BATCH_DATA, NONE, NONE)]] ELSE 0)
      /\ \A t : OnDisk(t)' = OnDisk(t) + IF Full(count, max) /\ Type(n) = CENTRAL /\ BATCH_DATA = t THEN 1 ELSE 0
  BY <1>1, <1>2, AggregateEffect
<1> QED BY <1>3 DEF count, max

LEMMA CommandEffect ==
  ASSUME JobsInv, NEW n, NEW job, AtNode(n, job), CommandFromTransition(n, job),
         NEW w, Weighs(w, Place)
  PROVE  /\ UnderWayInv'
         /\ \E a \in Selected(n) :
              /\ commands' = [commands EXCEPT !.issued = @ + IF a = NONE THEN 0 ELSE 1]
              /\ UnderWay(w)' = UnderWay(w) - w[[to |-> n, job |-> job]] + Weight(Reply(n, job), w)
                + Weight(SendCommand(n, a), w)
                + (IF Full(num_batch_aggregated[n], BatchAggregation[Type(n)]) /\ Type(n) # CENTRAL
                   THEN w[[to |-> Upper[n], job |-> Job(BATCH_DATA, NONE, NONE)]] ELSE 0)
         /\ \A t : t # BATCH_DATA => OnDisk(t)' = OnDisk(t)
<1> DEFINE agg  == Aggregated(n, BATCH_DATA, num_batch_aggregated[n], BatchAggregation[Type(n)])
           full == Full(num_batch_aggregated[n], BatchAggregation[Type(n)])
<1>1. /\ n \in Nodes /\ n \in Element /\ Queue(n) \in OnWay /\ Queue(n)[1] = n
      /\ station'[Disk] = station[Disk]
      /\ job \in Inside(Queue(n)) /\ Leave(Queue(n), job)
      /\ job \in JobInfo /\ Sound([to |-> n, job |-> job])
  BY NodeJob DEF AtNode
<1>2. UnderWayInv /\ Filed(disk_messages) /\ BATCH_DATA \in JobTypes /\ Posted(messages)
  BY TypesOfJobs DEF JobsInv, UnderWayInv
<1>3. PICK a \in Selected(n) :
        /\ messages' = messages (+) Reply(n, job) (+) SendCommand(n, a) (+) agg
        /\ commands' = [commands EXCEPT !.issued = @ + IF a = NONE THEN 0 ELSE 1]
  BY DEF CommandFromTransition
<1>4. /\ job.type = TRANSITION
      /\ IF full THEN SaveOnDisk(n, BATCH_DATA) ELSE UNCHANGED disk_messages
  BY DEF CommandFromTransition
<1>5. Filed(disk_messages')
  BY <1>2, <1>4, Saved DEF Filed
<1>6. Posted(Reply(n, job))
  BY <1>1, <1>4, ReplyPosted
<1>7. Posted(SendCommand(n, a))
  BY <1>1, CommandPosted
<1>8. /\ Posted(agg)
      /\ Weight(agg, w) = IF full /\ Type(n) # CENTRAL
                          THEN w[[to |-> Upper[n], job |-> Job(BATCH_DATA, NONE, NONE)]] ELSE 0
  BY <1>1, AggregatePosted
<1> HIDE DEF agg, full
<1>9. /\ Posted(messages')
      /\ Weight(messages', w) = Weight(messages, w) + Weight(Reply(n, job), w)
           + Weight(SendCommand(n, a), w) + Weight(agg, w)
  BY <1>2, <1>3, <1>6, <1>7, <1>8, PostedThree
<1>10. Held(w)' = Held(w) - w[[to |-> n, job |-> job]]
  BY <1>1, BagsUnderWay, HeldLeft DEF JobsInv, RoutingInv
<1>11. /\ Weight(messages, w) \in Int /\ Held(w) \in Int /\ Weight(Reply(n, job), w) \in Int
       /\ Weight(SendCommand(n, a), w) \in Int /\ Weight(agg, w) \in Int
  BY <1>2, <1>6, <1>7, <1>8, UnderWayType, PostedType
<1>12. w[[to |-> n, job |-> job]] \in Int
  BY <1>1, InsideJob
<1>13. UnderWay(w)' = UnderWay(w) - w[[to |-> n, job |-> job]] + Weight(Reply(n, job), w)
         + Weight(SendCommand(n, a), w) + Weight(agg, w)
  BY <1>9, <1>10, <1>11, <1>12, UnderWayIs
<1>14. UnderWayInv'
  BY <1>1, <1>5, <1>9, StationsLeft DEF UnderWayInv
<1>15. ASSUME NEW t, t # BATCH_DATA PROVE OnDisk(t)' = OnDisk(t)
  <2>1. OnDisk(t) \in Int
    BY <1>2, OnDiskType
  <2>2. CASE full
    <3>1. OnDisk(t)' = OnDisk(t) + IF Type(n) = CENTRAL /\ BATCH_DATA = t THEN 1 ELSE 0
      BY <1>1, <1>2, <1>4, <2>2, OnDiskSaved
    <3> QED BY <1>15, <2>1, <3>1
  <2>3. CASE ~full
    BY <1>1, <1>4, <2>3, OnDiskSame
  <2> QED BY <2>2, <2>3
<1> QED BY <1>3, <1>8, <1>13, <1>14, <1>15 DEF full

LEMMA ForwardEffect ==
  ASSUME JobsInv, NEW n, NEW job, AtNode(n, job), ForwardTransition(n, job),
         NEW w, Weighs(w, Place)
  PROVE  /\ UnderWayInv'
         /\ UnderWay(w)' = UnderWay(w) - w[[to |-> n, job |-> job]] + Weight(Reply(n, job), w)
              + (IF Type(n) = CENTRAL THEN 0
                 ELSE w[[to |-> Upper[n], job |-> Job(TRANSITION, n, NONE)]])
         /\ \A t : OnDisk(t)' = OnDisk(t) + IF Type(n) = CENTRAL /\ t = TRANSITION THEN 1 ELSE 0
<1> DEFINE up == ToUpNode(n, Job(TRANSITION, n, NONE))
<1>1. /\ n \in Nodes /\ n \in Element /\ Queue(n) \in OnWay /\ Queue(n)[1] = n
      /\ station'[Disk] = station[Disk]
      /\ job \in Inside(Queue(n)) /\ Leave(Queue(n), job)
      /\ job \in JobInfo /\ Sound([to |-> n, job |-> job])
  BY NodeJob DEF AtNode
<1>2. UnderWayInv /\ Filed(disk_messages) /\ TRANSITION \in JobTypes /\ Posted(messages)
  BY TypesOfJobs DEF JobsInv, UnderWayInv
<1>3. /\ job.type = TRANSITION /\ SaveOnDisk(n, TRANSITION)
      /\ messages' = messages (+) Reply(n, job) (+) up
  BY DEF ForwardTransition
<1>4. Filed(disk_messages')
  BY <1>2, <1>3, Saved
<1>5. Posted(Reply(n, job))
  BY <1>1, <1>3, ReplyPosted
<1>6. Job(TRANSITION, n, NONE) \in JobInfo
  BY <1>1, <1>2, JobType DEF Ends
<1>7. /\ Posted(up)
      /\ Weight(up, w) = IF Type(n) = CENTRAL THEN 0
                         ELSE w[[to |-> Upper[n], job |-> Job(TRANSITION, n, NONE)]]
  BY <1>1, <1>6, UpPosted
<1> HIDE DEF up
<1>8. /\ Posted(messages')
      /\ Weight(messages', w) = Weight(messages, w) + Weight(Reply(n, job), w) + Weight(up, w)
  BY <1>2, <1>3, <1>5, <1>7, PostedThree
<1>9. Held(w)' = Held(w) - w[[to |-> n, job |-> job]]
  BY <1>1, BagsUnderWay, HeldLeft DEF JobsInv, RoutingInv
<1>10. /\ Weight(messages, w) \in Int /\ Held(w) \in Int /\ Weight(Reply(n, job), w) \in Int
       /\ Weight(up, w) \in Int
  BY <1>2, <1>5, <1>7, UnderWayType, PostedType
<1>11. w[[to |-> n, job |-> job]] \in Int
  BY <1>1, InsideJob
<1>12. UnderWay(w)' = UnderWay(w) - w[[to |-> n, job |-> job]] + Weight(Reply(n, job), w) + Weight(up, w)
  BY <1>8, <1>9, <1>10, <1>11, UnderWayIs
<1>13. UnderWayInv'
  BY <1>1, <1>4, <1>8, StationsLeft DEF UnderWayInv
<1>14. \A t : OnDisk(t)' = OnDisk(t) + IF Type(n) = CENTRAL /\ t = TRANSITION THEN 1 ELSE 0
  BY <1>1, <1>2, <1>3, OnDiskSaved
<1> QED BY <1>7, <1>12, <1>13, <1>14

\* A command that reaches a node goes on towards its actuator.
LEMMA PassEffect ==
  ASSUME JobsInv, NEW n, NEW job, AtNode(n, job), FinishCommand(n, job), NEW w, Weighs(w, Place)
  PROVE  /\ UnderWayInv'
         /\ job.device_destination \in Of(ACTUATOR)
         /\ UnderWay(w)' = UnderWay(w) - w[[to |-> n, job |-> job]]
              + w[[to |-> NextHop(n, job.device_destination), job |-> Job(COMMAND, NONE, job.device_destination)]]
         /\ \A t : OnDisk(t)' = OnDisk(t)
<1> DEFINE a == job.device_destination
<1>1. /\ n \in Nodes /\ n \in Element /\ Queue(n) \in OnWay /\ Queue(n)[1] = n
      /\ station'[Disk] = station[Disk]
      /\ job \in Inside(Queue(n)) /\ Leave(Queue(n), job)
      /\ Sound([to |-> n, job |-> job])
  BY NodeJob DEF AtNode
<1>2. job.type = COMMAND /\ messages' = messages (+) SendCommand(n, a) /\ UNCHANGED disk_messages
  BY DEF FinishCommand
<1>3. a \in Of(ACTUATOR) /\ NextHop(n, a) # NONE
  BY <1>1, <1>2, NamesDiffer DEF Sound, OnPath, Nodes, Of
<1>4. /\ Posted(SendCommand(n, a))
      /\ Weight(SendCommand(n, a), w) = w[[to |-> NextHop(n, a), job |-> Job(COMMAND, NONE, a)]]
  BY <1>1, <1>3, CommandPosted DEF Below
<1>5. Filed(disk_messages')
  BY <1>2 DEF JobsInv, UnderWayInv, Filed
<1>6. /\ UnderWayInv'
      /\ UnderWay(w)' = UnderWay(w) - w[[to |-> n, job |-> job]] + Weight(SendCommand(n, a), w)
  BY <1>1, <1>2, <1>4, <1>5, LeaveEffect
<1> QED BY <1>1, <1>2, <1>3, <1>4, <1>6, OnDiskSame

\* The node that gets the reply is the one that asked.
LEMMA AnswerEffect ==
  ASSUME JobsInv, NEW n, NEW job, AtNode(n, job), FinishReply(n, job), NEW w, Weighs(w, Place)
  PROVE  /\ UnderWayInv' /\ UnderWay(w)' = UnderWay(w) - w[[to |-> n, job |-> job]]
         /\ job.device_sender = n /\ \A t : OnDisk(t)' = OnDisk(t)
<1>1. /\ n \in Nodes /\ Queue(n) \in OnWay /\ Queue(n)[1] = n /\ station'[Disk] = station[Disk]
      /\ job \in Inside(Queue(n)) /\ Leave(Queue(n), job) /\ Sound([to |-> n, job |-> job])
  BY NodeJob DEF AtNode
<1>2. UnderWayInv' /\ UnderWay(w)' = UnderWay(w) - w[[to |-> n, job |-> job]]
  BY <1>1, LeaveQuietly DEF FinishReply
<1>3. job.device_sender = n
  <2>1. /\ job.device_sender \in Nodes /\ Type(job.device_sender) # CENTRAL
        /\ n \in {job.device_sender, Upper[job.device_sender]}
    BY <1>1, NamesDiffer DEF Sound, AnswersBelow, FinishReply
  <2>2. Upper[job.device_sender] \in Of(WAN)
    BY <2>1, Shape
  <2> QED BY <1>1, <2>1, <2>2, NamesDiffer DEF Nodes, Of
<1> QED BY <1>1, <1>2, <1>3, OnDiskSame DEF FinishReply

-----------------------------------------------------------------------------
(* What actuators and LANs do with a job.                                  *)

LEMMA ActuatorEffect ==
  ASSUME JobsInv, NEW a \in Of(ACTUATOR), NEW job \in Inside(Queue(a)), FinishActuator(a, job),
         NEW w, Weighs(w, Place)
  PROVE  /\ UnderWayInv' /\ UnderWay(w)' = UnderWay(w) - w[[to |-> a, job |-> job]]
         /\ [to |-> a, job |-> job] \in Place
         /\ job.type = COMMAND /\ \A t : OnDisk(t)' = OnDisk(t)
<1>1. Queue(a) \in OnWay /\ Queue(a)[1] = a /\ Kind[a] = ACTUATOR
  BY StationsOnWay DEF Of
<1>2. Leave(Queue(a), job) /\ UNCHANGED <<messages, disk_messages>>
  BY DEF FinishActuator
<1>3. Named([to |-> a, job |-> job]) /\ [to |-> a, job |-> job] \in Place
  BY <1>1, InsideJob
<1>4. station'[Disk] = station[Disk]
  BY <1>1, <1>2, DiskApart
<1>5. UnderWayInv' /\ UnderWay(w)' = UnderWay(w) - w[[to |-> a, job |-> job]]
  BY <1>1, <1>2, LeaveQuietly
<1> QED BY <1>1, <1>2, <1>3, <1>4, <1>5, OnDiskSame DEF Named

LEMMA LanOutEffect ==
  ASSUME JobsInv, NEW l \in Of(LAN), NEW job \in Inside(LanOut(l)), FinishLanOut(l, job),
         NEW w, Weighs(w, Place)
  PROVE  /\ UnderWayInv'
         /\ UnderWay(w)' = UnderWay(w) - w[[to |-> l, job |-> job]] + w[[to |-> Upper[l], job |-> job]]
         /\ [to |-> l, job |-> job] \in Place /\ [to |-> Upper[l], job |-> job] \in Place
         /\ \A t : OnDisk(t)' = OnDisk(t)
<1>1. /\ LanOut(l) \in OnWay /\ LanOut(l)[1] = l /\ Kind[l] = LAN
      /\ Upper[l] \in Nodes /\ Upper[l] \in Element /\ Upper[l] # NONE
      /\ Kind[Upper[l]] = NODE
  BY StationsOnWay, Shape DEF Of, Nodes
<1>2. Leave(LanOut(l), job) /\ messages' = messages (+) To(Upper[l], job) /\ UNCHANGED disk_messages
  BY <1>1 DEF FinishLanOut, ToUpNode
<1>3. Named([to |-> l, job |-> job]) /\ job \in JobInfo /\ [to |-> l, job |-> job] \in Place
  BY <1>1, InsideJob
<1>4. Named([to |-> Upper[l], job |-> job])
  BY <1>1, <1>3, NamesDiffer DEF Named
<1>5. Posted(To(Upper[l], job)) /\ Weight(To(Upper[l], job), w) = w[[to |-> Upper[l], job |-> job]]
  BY <1>1, <1>3, <1>4, PostedTo
<1>6. Filed(disk_messages')
  BY <1>2 DEF JobsInv, UnderWayInv, Filed
<1>7. /\ UnderWayInv'
      /\ UnderWay(w)' = UnderWay(w) - w[[to |-> l, job |-> job]] + Weight(To(Upper[l], job), w)
  BY <1>1, <1>2, <1>5, <1>6, LeaveEffect
<1>8. station'[Disk] = station[Disk]
  BY <1>1, <1>2, DiskApart
<1>9. [to |-> Upper[l], job |-> job] \in Place
  BY <1>1, <1>3 DEF Place
<1> QED BY <1>2, <1>3, <1>5, <1>7, <1>8, <1>9, OnDiskSame

LEMMA LanInEffect ==
  ASSUME JobsInv, NEW l \in Of(LAN), NEW job \in Inside(LanIn(l)), FinishLanIn(l, job),
         NEW w, Weighs(w, Place)
  PROVE  /\ UnderWayInv'
         /\ UnderWay(w)' = UnderWay(w) - w[[to |-> l, job |-> job]]
              + w[[to |-> job.device_destination, job |-> job]]
         /\ [to |-> l, job |-> job] \in Place /\ [to |-> job.device_destination, job |-> job] \in Place
         /\ job.type = COMMAND /\ \A t : OnDisk(t)' = OnDisk(t)
<1> DEFINE a == job.device_destination
<1>1. LanIn(l) \in OnWay /\ LanIn(l)[1] = l
  BY StationsOnWay
<1>2. Leave(LanIn(l), job) /\ messages' = messages (+) To(a, job) /\ UNCHANGED disk_messages
  BY DEF FinishLanIn
<1>3. job \in JobInfo /\ [to |-> l, job |-> job] \in Place
  BY <1>1, InsideJob
<1>4. job.type = COMMAND /\ a \in Element /\ Kind[a] = ACTUATOR
  BY DEF JobsInv, RoutingInv, SoundInside, Sound, Of
<1>5. Named([to |-> a, job |-> job])
  BY <1>4, NamesDiffer DEF Named
<1>6. Posted(To(a, job)) /\ Weight(To(a, job), w) = w[[to |-> a, job |-> job]]
  BY <1>3, <1>4, <1>5, PostedTo
<1>7. Filed(disk_messages')
  BY <1>2 DEF JobsInv, UnderWayInv, Filed
<1>8. UnderWayInv' /\ UnderWay(w)' = UnderWay(w) - w[[to |-> l, job |-> job]] + Weight(To(a, job), w)
  BY <1>1, <1>2, <1>6, <1>7, LeaveEffect
<1>9. station'[Disk] = station[Disk]
  BY <1>1, <1>2, DiskApart
<1>10. [to |-> a, job |-> job] \in Place
  BY <1>3, <1>4 DEF Place
<1> QED BY <1>2, <1>3, <1>4, <1>6, <1>8, <1>9, <1>10, OnDiskSame

\* A device takes a message, or a WAN passes it on.
LEMMA ArriveEffect ==
  ASSUME JobsInv, RoutingInv', NEW m \in BagToSet(messages), Arrive(m), NEW w, Weighs(w, Place)
  PROVE  /\ UnderWayInv' /\ m \in Place /\ \A t : OnDisk(t)' = OnDisk(t)
         /\ \/ UnderWay(w)' = UnderWay(w)
            \/ /\ m.to \in Of(WAN) /\ [to |-> WanNext(m.to, m.job), job |-> m.job] \in Place
               /\ UnderWay(w)' = UnderWay(w) - w[m] + w[[to |-> WanNext(m.to, m.job), job |-> m.job]]
<1>1. m \in Place /\ m.to \in Element
  BY PlaceParts DEF JobsInv, UnderWayInv, Posted, BagOver
<1>2. CASE ArriveWan(m)
  <2>1. /\ UnderWayInv'
        /\ UnderWay(w)' = UnderWay(w) - w[m] + w[[to |-> WanNext(m.to, m.job), job |-> m.job]]
    BY <1>2, WanEffect
  <2>2. \A t : OnDisk(t)' = OnDisk(t)
    BY <1>2, OnDiskSame DEF ArriveWan
  <2>3. Sound([to |-> WanNext(m.to, m.job), job |-> m.job])
    BY <1>2, BagContents, Sent DEF RoutingInv, ArriveWan
  <2>4. m.to \in Of(WAN) /\ [to |-> WanNext(m.to, m.job), job |-> m.job] \in Place
    BY <1>1, <1>2, <2>3, PlaceParts DEF ArriveWan, Of, Sound, Place
  <2> QED BY <1>1, <2>1, <2>2, <2>4
<1>3. ASSUME NEW s \in OnWay, s[1] = m.to, Enter(s, m)
      PROVE  UnderWayInv' /\ UnderWay(w)' = UnderWay(w) /\ \A t : OnDisk(t)' = OnDisk(t)
  <2>1. station'[Disk] = station[Disk]
    BY <1>3, DiskApart DEF Enter
  <2> QED BY <1>3, <2>1, EnterEffect, OnDiskSame DEF Enter
<1>4. CASE ArriveDevice(m)
  <2>1. m.to \in Nodes \cup Of(ACTUATOR) /\ Enter(Queue(m.to), m)
    BY <1>4, DeviceTakes DEF JobsInv
  <2> QED BY <1>1, <1>3, <2>1, StationsOnWay
<1>5. CASE ArriveLan(m)
  <2>1. m.to \in Of(LAN) /\ (Enter(LanOut(m.to), m) \/ Enter(LanIn(m.to), m))
    BY <1>5, LanTakes DEF JobsInv
  <2> QED BY <1>1, <1>3, <2>1, StationsOnWay
<1> QED BY <1>2, <1>4, <1>5 DEF Arrive

-----------------------------------------------------------------------------
(* What the counters are, and where the jobs that a node sends are on      *)
(* their way to.                                                           *)

CountsInv ==
  /\ generated \in [JobTypes -> Int] /\ stored \in [JobTypes -> Int]
  /\ forwarded \in [Nodes -> Int] /\ answered \in [Nodes -> Int]
  /\ commands \in [issued : Int, done : Int]
  /\ num_telemetry_aggregated \in [Nodes -> Nat]
  /\ \A n \in Nodes : num_telemetry_aggregated[n] < TelemetryAggregation[Type(n)]

NetworkInv == JobsInv /\ CountsInv

LEMMA UpPlace ==
  ASSUME NEW n \in Nodes, Type(n) # CENTRAL, NEW job \in JobInfo
  PROVE  [to |-> Upper[n], job |-> job] \in Place
BY Shape DEF Place, Of

LEMMA NextPlace ==
  ASSUME NEW n \in Element, NEW a \in Of(ACTUATOR), NextHop(n, a) # NONE
  PROVE  [to |-> NextHop(n, a), job |-> Job(COMMAND, NONE, a)] \in Place
<1>1. a \in Element
  BY DEF Of
<1>2. NextHop(n, a) \in Element
  BY <1>1, NextHopBelow
<1>3. Job(COMMAND, NONE, a) \in JobInfo
  BY <1>1, JobType DEF Ends, JobTypes
<1> QED BY <1>2, <1>3 DEF Place

LEMMA NodePlace ==
  ASSUME JobsInv, NEW n, NEW job, AtNode(n, job)
  PROVE  [to |-> n, job |-> job] \in Place
BY NodeJob DEF Place

LEMMA AggregationType ==
  ASSUME NEW n \in Nodes
  PROVE  TelemetryAggregation[Type(n)] \in Nat \ {0}
BY TopologyAssumption, NamesDiffer, AggregationAssumption DEF Nodes, Of

LEMMA CountsInitially ==
  ASSUME Init
  PROVE  CountsInv
<1>1. \A n \in Nodes : TelemetryAggregation[Type(n)] \in Nat \ {0}
  BY AggregationType
<1> QED BY <1>1 DEF Init, CountsInv

LEMMA CountsAfterFinishNode ==
  ASSUME NetworkInv, NEW n, NEW job, AtNode(n, job), FinishNode(n, job)
  PROVE  CountsInv'
<1> USE DEF CountsInv, NetworkInv
<1>1. n \in Nodes
  BY DEF AtNode
<1>2. generated' = generated /\ stored' = stored
  BY DEF FinishNode
<1>3. CASE FinishTelemetry(n, job)
  <2> DEFINE count == num_telemetry_aggregated[n]
             max   == TelemetryAggregation[Type(n)]
  <2>1. count \in Nat /\ max \in Nat \ {0}
    BY <1>1, AggregationType
  <2>2. Count(count, max) \in Nat /\ Count(count, max) < max
    BY <2>1 DEF Count, Full
  <2> HIDE DEF count, max
  <2>3. num_telemetry_aggregated' = [num_telemetry_aggregated EXCEPT ![n] = Count(count, max)]
    BY <1>3 DEF FinishTelemetry, count, max
  <2> QED BY <1>1, <1>2, <1>3, <2>2, <2>3 DEF FinishTelemetry, max
<1>4. CASE CommandFromTransition(n, job)
  BY <1>2, <1>4 DEF CommandFromTransition
<1>5. CASE ForwardTransition(n, job)
  BY <1>1, <1>2, <1>5 DEF ForwardTransition
<1>6. CASE FinishCommand(n, job)
  BY <1>2, <1>6 DEF FinishCommand
<1>7. CASE FinishBatchData(n, job)
  BY <1>2, <1>7 DEF FinishBatchData
<1>8. CASE FinishReply(n, job)
  BY <1>1, <1>2, <1>8 DEF FinishReply
<1> QED BY <1>3, <1>4, <1>5, <1>6, <1>7, <1>8 DEF FinishNode

\* The jobs under way and the counters, at first.
LEMMA NetworkInitially ==
  ASSUME Init
  PROVE  NetworkInv
<1>1. Posted(EmptyBag) /\ BagOver(EmptyBag, JobInfo)
  BY WeightEmpty, BagContents DEF Posted
<1>2. \A s \in Stations : Filed(station[s]) /\ Inside(s) = {}
  BY <1>1, BagContents DEF Init, Inside, Filed
<1>3. StationsIn
  BY <1>2 DEF StationsIn, OnWay
<1>4. UnderWayInv
  BY <1>1, <1>3 DEF Init, UnderWayInv, Filed
<1> QED BY <1>4, InitiallySound, CountsInitially DEF NetworkInv, JobsInv

\* The steps of the network, as the proofs below take them.
Steps ==
  \/ \E d \in Of(SENSOR) \cup Of(ACTUATOR) : Generate(d, TRANSITION)
  \/ \E d \in Of(SENSOR) : Generate(d, TELEMETRY)
  \/ \E m \in BagToSet(messages) : Arrive(m)
  \/ \E job \in BagToSet(disk_messages) : ArriveDisk(job)
  \/ \E n, job : AtNode(n, job) /\ FinishNode(n, job)
  \/ \E a \in Of(ACTUATOR) : \E job \in Inside(Queue(a)) : FinishActuator(a, job)
  \/ \E l \in Of(LAN) : \E job \in Inside(LanOut(l)) : FinishLanOut(l, job)
  \/ \E l \in Of(LAN) : \E job \in Inside(LanIn(l)) : FinishLanIn(l, job)
  \/ \E job \in Inside(Disk) : FinishDisk(job)

\* Everything but whether the program still runs.
Contents == <<messages, disk_messages, station, num_telemetry_aggregated, num_batch_aggregated,
              generated, forwarded, answered, commands, stored>>

LEMMA NextSteps ==
  ASSUME Next
  PROVE  Steps \/ UNCHANGED Contents
<1>1. ASSUME NEW n \in Nodes, NEW job \in Inside(Queue(n)), FinishNode(n, job)
      PROVE  AtNode(n, job)
  BY <1>1 DEF AtNode, FinishNode
<1>2. CASE GenerateStep
  BY <1>2 DEF GenerateStep, GenerateTransition, GenerateTelemetry, Steps
<1>3. CASE ArriveStep
  BY <1>3 DEF ArriveStep, Steps
<1>4. CASE FinishStep
  BY <1>1, <1>4 DEF FinishStep, Steps, SelectOutOfBounds, Contents
<1> QED BY <1>2, <1>3, <1>4 DEF Next, Quiet, vars, Contents

LEMMA UnderWayUnchanged ==
  ASSUME UNCHANGED Contents
  PROVE  /\ UnderWayInv => UnderWayInv'
         /\ \A w : UnderWay(w)' = UnderWay(w)
         /\ \A t : OnDisk(t)' = OnDisk(t)
<1>1. UnderWayInv => UnderWayInv'
  BY DEF Contents, UnderWayInv, StationsIn, Inside, Posted, Filed, Named
<1>2. \A w : UnderWay(w)' = UnderWay(w)
  BY DEF Contents, UnderWay
<1>3. \A t : OnDisk(t)' = OnDisk(t)
  BY DEF Contents, OnDisk
<1> QED BY <1>1, <1>2, <1>3

\* Every step keeps the jobs under way and the counters what they are.
LEMMA NetworkAlways ==
  ASSUME NetworkInv, [Next]_vars
  PROVE  NetworkInv'
<1>1. JobsInv /\ CountsInv /\ RoutingInv'
  BY SoundAlways DEF NetworkInv, JobsInv
<1>2. Weighs(Commands, Place)
  BY FinitelyManyPlaces DEF Weighs, Commands
<1>3. CASE UNCHANGED Contents
  <2>1. CountsInv'
    BY <1>1, <1>3 DEF CountsInv, Contents
  <2> QED BY <1>1, <1>3, <2>1, UnderWayUnchanged DEF NetworkInv, JobsInv
<1>4. ASSUME NEW d \in Of(SENSOR) \cup Of(ACTUATOR), NEW t \in {TELEMETRY, TRANSITION}, Generate(d, t)
      PROVE  UnderWayInv' /\ CountsInv'
  <2>1. UnderWayInv'
    BY <1>1, <1>2, <1>4, GenerateEffect
  <2>2. generated' \in [JobTypes -> Int]
    BY <1>1, <1>4, TypesOfJobs DEF CountsInv, Generate
  <2> QED BY <1>1, <1>4, <2>1, <2>2 DEF CountsInv, Generate
<1>5. ASSUME NEW m \in BagToSet(messages), Arrive(m) PROVE UnderWayInv' /\ CountsInv'
  BY <1>1, <1>2, <1>5, ArriveEffect DEF CountsInv, Arrive, UnchangedByArrival
<1>6. ASSUME NEW job \in BagToSet(disk_messages), ArriveDisk(job) PROVE UnderWayInv' /\ CountsInv'
  BY <1>1, <1>2, <1>6, ArriveDiskEffect DEF CountsInv, ArriveDisk, UnchangedByArrival
<1>7. ASSUME NEW n, NEW job, AtNode(n, job), FinishNode(n, job) PROVE UnderWayInv' /\ CountsInv'
  <2>1. SUFFICES UnderWayInv'
    BY <1>7, CountsAfterFinishNode
  <2>2. CASE FinishTelemetry(n, job)
    BY <1>1, <1>2, <1>7, <2>2, TelemetryEffect
  <2>3. CASE CommandFromTransition(n, job)
    BY <1>1, <1>2, <1>7, <2>3, CommandEffect
  <2>4. CASE ForwardTransition(n, job)
    BY <1>1, <1>2, <1>7, <2>4, ForwardEffect
  <2>5. CASE FinishCommand(n, job)
    BY <1>1, <1>2, <1>7, <2>5, PassEffect
  <2>6. CASE FinishBatchData(n, job)
    BY <1>1, <1>2, <1>7, <2>6, BatchEffect
  <2>7. CASE FinishReply(n, job)
    BY <1>1, <1>2, <1>7, <2>7, AnswerEffect
  <2> QED BY <1>7, <2>2, <2>3, <2>4, <2>5, <2>6, <2>7 DEF FinishNode
<1>8. ASSUME NEW a \in Of(ACTUATOR), NEW job \in Inside(Queue(a)), FinishActuator(a, job)
      PROVE  UnderWayInv' /\ CountsInv'
  <2>1. commands' \in [issued : Int, done : Int]
    BY <1>1, <1>8 DEF CountsInv, FinishActuator
  <2> QED BY <1>1, <1>2, <1>8, <2>1, ActuatorEffect DEF CountsInv, FinishActuator, UnchangedByFinish
<1>9. ASSUME NEW l \in Of(LAN), NEW job \in Inside(LanOut(l)), FinishLanOut(l, job)
      PROVE  UnderWayInv' /\ CountsInv'
  BY <1>1, <1>2, <1>9, LanOutEffect DEF CountsInv, FinishLanOut, UnchangedByFinish
<1>10. ASSUME NEW l \in Of(LAN), NEW job \in Inside(LanIn(l)), FinishLanIn(l, job)
       PROVE  UnderWayInv' /\ CountsInv'
  BY <1>1, <1>2, <1>10, LanInEffect DEF CountsInv, FinishLanIn, UnchangedByFinish
<1>11. ASSUME NEW job \in Inside(Disk), FinishDisk(job) PROVE UnderWayInv' /\ CountsInv'
  <2>1. UnderWayInv' /\ job.type \in JobTypes
    BY <1>1, <1>2, <1>11, FinishDiskEffect
  <2>2. stored' \in [JobTypes -> Int]
    BY <1>1, <1>11, <2>1 DEF CountsInv, FinishDisk
  <2> QED BY <1>1, <1>11, <2>1, <2>2 DEF CountsInv, FinishDisk, UnchangedByFinish
<1>12. CASE Steps
  BY <1>1, <1>4, <1>5, <1>6, <1>7, <1>8, <1>9, <1>10, <1>11, <1>12 DEF Steps, NetworkInv, JobsInv
<1>13. CASE UNCHANGED vars
  BY <1>3, <1>13 DEF vars, Contents
<1> QED BY <1>3, <1>12, <1>13, NextSteps

-----------------------------------------------------------------------------
(* A weight of jobs, wherever they are, changes only where they are made   *)
(* and where they end.                                                     *)

OfJobs(w) == Weighs(w, Place) /\ \A p, q \in Place : p.job = q.job => w[p] = w[q]

Carry ==
  \/ \E m \in BagToSet(messages) : Arrive(m)
  \/ \E job \in BagToSet(disk_messages) : ArriveDisk(job)
  \/ \E l \in Of(LAN) : \E job \in Inside(LanOut(l)) : FinishLanOut(l, job)
  \/ \E l \in Of(LAN) : \E job \in Inside(LanIn(l)) : FinishLanIn(l, job)
  \/ \E job \in Inside(Disk) : FinishDisk(job)

LEMMA Carried ==
  ASSUME JobsInv, RoutingInv', Carry, NEW w, OfJobs(w)
  PROVE  UnderWay(w)' = UnderWay(w)
<1> DEFINE U == UnderWay(w)
<1>1. Weighs(w, Place) /\ U \in Int /\ \A p \in Place : w[p] \in Int
  BY UnderWayType DEF OfJobs, Weighs, JobsInv
<1>2. ASSUME NEW p \in Place, NEW q \in Place, p.job = q.job, U' = U - w[p] + w[q]
      PROVE  U' = U
  <2>1. w[p] = w[q] /\ w[p] \in Int
    BY <1>1, <1>2 DEF OfJobs
  <2> HIDE DEF U
  <2> QED BY <1>1, <1>2, <2>1
<1>3. ASSUME NEW m \in BagToSet(messages), Arrive(m) PROVE U' = U
  <2> DEFINE p == [to |-> WanNext(m.to, m.job), job |-> m.job]
  <2>1. m \in Place /\ (U' = U \/ (p \in Place /\ U' = U - w[m] + w[p]))
    BY <1>1, <1>3, ArriveEffect
  <2>2. p.job = m.job
    OBVIOUS
  <2> HIDE DEF U, p
  <2> QED BY <1>2, <2>1, <2>2
<1>4. ASSUME NEW job \in BagToSet(disk_messages), ArriveDisk(job) PROVE U' = U
  BY <1>1, <1>4, ArriveDiskEffect
<1>5. ASSUME NEW l \in Of(LAN), NEW job \in Inside(LanOut(l)), FinishLanOut(l, job) PROVE U' = U
  <2> DEFINE p == [to |-> l, job |-> job]
             q == [to |-> Upper[l], job |-> job]
  <2>1. p \in Place /\ q \in Place /\ U' = U - w[p] + w[q]
    BY <1>1, <1>5, LanOutEffect
  <2>2. p.job = q.job
    OBVIOUS
  <2> HIDE DEF U, p, q
  <2> QED BY <1>2, <2>1, <2>2
<1>6. ASSUME NEW l \in Of(LAN), NEW job \in Inside(LanIn(l)), FinishLanIn(l, job) PROVE U' = U
  <2> DEFINE p == [to |-> l, job |-> job]
             q == [to |-> job.device_destination, job |-> job]
  <2>1. p \in Place /\ q \in Place /\ U' = U - w[p] + w[q]
    BY <1>1, <1>6, LanInEffect
  <2>2. p.job = q.job
    OBVIOUS
  <2> HIDE DEF U, p, q
  <2> QED BY <1>2, <2>1, <2>2
<1>7. ASSUME NEW job \in Inside(Disk), FinishDisk(job) PROVE U' = U
  BY <1>1, <1>7, FinishDiskEffect
<1> QED BY <1>3, <1>4, <1>5, <1>6, <1>7 DEF Carry

\* The counters that the way of a job does not touch.
LEMMA CarryKeeps ==
  ASSUME Carry
  PROVE  UNCHANGED <<commands, forwarded, answered, generated, num_telemetry_aggregated>>
BY DEF Carry, Arrive, ArriveDisk, FinishLanOut, FinishLanIn, FinishDisk, UnchangedByArrival,
       UnchangedByFinish

LEMMA StepsAre ==
  ASSUME Steps
  PROVE  \/ Carry
         \/ \E d \in Of(SENSOR) \cup Of(ACTUATOR), t \in {TELEMETRY, TRANSITION} : Generate(d, t)
         \/ \E n, job : AtNode(n, job) /\ FinishNode(n, job)
         \/ \E a \in Of(ACTUATOR) : \E job \in Inside(Queue(a)) : FinishActuator(a, job)
BY DEF Steps, Carry

-----------------------------------------------------------------------------
(* Commands.                                                               *)

LEMMA CommandsWeigh ==
  /\ Weighs(Commands, Place)
  /\ \A m \in Place : Commands[m] = IF m.job.type = COMMAND THEN 1 ELSE 0
BY FinitelyManyPlaces DEF Weighs, Commands

\* A reply is no command.
LEMMA ReplyNoCommand ==
  ASSUME JobsInv, NEW n, NEW job, AtNode(n, job), job.type = TRANSITION
  PROVE  Weight(Reply(n, job), Commands) = 0
<1>1. n \in Nodes /\ job \in JobInfo /\ Sound([to |-> n, job |-> job])
  BY NodeJob
<1>2. CASE Type(n) = LOCAL_NODE
  BY <1>1, <1>2, CommandsWeigh, ReplyPosted
<1>3. CASE Type(n) # LOCAL_NODE
  <2> DEFINE p == [to |-> WanDown(n), job |-> Job(REPLY, job.device_sender, NONE)]
  <2>1. p \in Place /\ Weight(Reply(n, job), Commands) = Commands[p]
    BY <1>1, <1>3, CommandsWeigh, ReplyPosted
  <2>2. p.job.type = REPLY
    BY Sent
  <2> HIDE DEF p
  <2> QED BY <2>1, <2>2, CommandsWeigh, NamesDiffer
<1> QED BY <1>2, <1>3

LEMMA CommandsStay ==
  ASSUME NetworkInv, NetworkInv', Steps, NodesReachActuators
  PROVE  commands'.issued - commands'.done - UnderWay(Commands)'
           = commands.issued - commands.done - UnderWay(Commands)
<1> DEFINE w == Commands
           U == UnderWay(w)
<1>1. /\ Weighs(w, Place) /\ \A m \in Place : w[m] = IF m.job.type = COMMAND THEN 1 ELSE 0
      /\ JobsInv /\ RoutingInv' /\ U \in Int
      /\ commands \in [issued : Int, done : Int]
  BY CommandsWeigh, UnderWayType DEF NetworkInv, JobsInv, CountsInv
<1> HIDE DEF w
<1>2. ASSUME NEW d \in Of(SENSOR) \cup Of(ACTUATOR), NEW t \in {TELEMETRY, TRANSITION}, Generate(d, t)
      PROVE  U' = U /\ commands' = commands
  <2> DEFINE p == [to |-> Upper[d], job |-> Job(t, NONE, NONE)]
  <2>1. U' = U + w[p]
    BY <1>1, <1>2, GenerateEffect DEF w
  <2>2. p \in Place
    BY Shape, JobType, TypesOfJobs DEF Place, Of, Ends
  <2>3. p.job.type # COMMAND
    BY Sent, NamesDiffer
  <2> HIDE DEF p
  <2> QED BY <1>1, <1>2, <2>1, <2>2, <2>3 DEF Generate
<1>3. ASSUME Carry
      PROVE  commands'.issued - commands'.done - U' = commands.issued - commands.done - U
  <2>1. OfJobs(w)
    BY <1>1 DEF OfJobs
  <2> QED BY <1>1, <1>3, <2>1, Carried, CarryKeeps
<1>4. ASSUME NEW n, NEW job, AtNode(n, job), FinishNode(n, job)
      PROVE  commands'.issued - commands'.done - U' = commands.issued - commands.done - U
  <2> DEFINE p == [to |-> n, job |-> job]
  <2>1. /\ n \in Nodes /\ n \in Element /\ p \in Place /\ p.job.type = job.type
        /\ Sound(p) /\ job \in JobInfo
    BY <1>1, <1>4, NodeJob, NodePlace
  <2>2. ASSUME NEW type \in {TELEMETRY, BATCH_DATA}, Type(n) # CENTRAL
        PROVE  w[[to |-> Upper[n], job |-> Job(type, NONE, NONE)]] = 0
    <3>1. Job(type, NONE, NONE) \in JobInfo
      BY JobType, TypesOfJobs DEF Ends
    <3>2. [to |-> Upper[n], job |-> Job(type, NONE, NONE)] \in Place
      BY <2>1, <2>2, <3>1, UpPlace
    <3>3. Job(type, NONE, NONE).type # COMMAND
      BY Sent, NamesDiffer
    <3> QED BY <1>1, <3>2, <3>3
  <2>3. ASSUME NEW a \in Of(ACTUATOR), NextHop(n, a) # NONE
        PROVE  w[[to |-> NextHop(n, a), job |-> Job(COMMAND, NONE, a)]] = 1
    <3>1. [to |-> NextHop(n, a), job |-> Job(COMMAND, NONE, a)] \in Place
      BY <2>1, <2>3, NextPlace
    <3>2. Job(COMMAND, NONE, a).type = COMMAND
      BY Sent
    <3> QED BY <1>1, <3>1, <3>2
  <2> HIDE DEF p
  <2>4. CASE FinishTelemetry(n, job)
    <3>1. job.type = TELEMETRY /\ commands' = commands
      BY <2>4 DEF FinishTelemetry
    <3>2. w[p] = 0
      BY <1>1, <2>1, <3>1, NamesDiffer
    <3> DEFINE x == IF Full(num_telemetry_aggregated[n], TelemetryAggregation[Type(n)]) /\ Type(n) # CENTRAL
                    THEN w[[to |-> Upper[n], job |-> Job(TELEMETRY, NONE, NONE)]] ELSE 0
    <3>3. U' = U - w[p] + x
      BY <1>1, <1>4, <2>4, TelemetryEffect DEF w, p
    <3>4. x = 0
      BY <2>2
    <3> HIDE DEF x
    <3> QED BY <1>1, <3>1, <3>2, <3>3, <3>4
  <2>5. CASE CommandFromTransition(n, job)
    <3>1. job.type = TRANSITION
      BY <2>5 DEF CommandFromTransition
    <3>2. w[p] = 0 /\ Weight(Reply(n, job), w) = 0
      BY <1>1, <1>4, <2>1, <3>1, NamesDiffer, ReplyNoCommand DEF w
    <3>3. PICK a \in Selected(n), x \in {0, w[[to |-> Upper[n], job |-> Job(BATCH_DATA, NONE, NONE)]]} :
            /\ x # 0 => Type(n) # CENTRAL
            /\ commands' = [commands EXCEPT !.issued = @ + IF a = NONE THEN 0 ELSE 1]
            /\ U' = U - w[p] + Weight(Reply(n, job), w) + Weight(SendCommand(n, a), w) + x
      <4> DEFINE y == IF Full(num_batch_aggregated[n], BatchAggregation[Type(n)]) /\ Type(n) # CENTRAL
                      THEN w[[to |-> Upper[n], job |-> Job(BATCH_DATA, NONE, NONE)]] ELSE 0
      <4>1. y \in {0, w[[to |-> Upper[n], job |-> Job(BATCH_DATA, NONE, NONE)]]}
              /\ (y # 0 => Type(n) # CENTRAL)
        OBVIOUS
      <4>2. \E a \in Selected(n) :
              /\ commands' = [commands EXCEPT !.issued = @ + IF a = NONE THEN 0 ELSE 1]
              /\ U' = U - w[p] + Weight(Reply(n, job), w) + Weight(SendCommand(n, a), w) + y
        BY <1>1, <1>4, <2>5, CommandEffect DEF w, p
      <4> HIDE DEF y
      <4> QED BY <4>1, <4>2
    <3>4. x = 0
      BY <2>2, <3>3
    <3> DEFINE k == IF a = NONE THEN 0 ELSE 1
    <3>5. Weight(SendCommand(n, a), w) = k
      <4>1. CASE a \in Below(n)
        <5>1. a # NONE /\ a \in Of(ACTUATOR) /\ NextHop(n, a) # NONE
          BY <4>1, Shape DEF Below, Of
        <5> QED BY <1>1, <2>1, <2>3, <4>1, <5>1, CommandPosted
      <4>2. CASE a \notin Below(n)
        <5>1. a = NONE
          BY <2>1, <3>3, <4>2 DEF Selected, NodesReachActuators
        <5> QED BY <1>1, <2>1, <4>2, <5>1, CommandPosted
      <4> QED BY <4>1, <4>2
    <3>6. /\ commands'.issued = commands.issued + k /\ commands'.done = commands.done
          /\ k \in Int
      BY <1>1, <3>3
    <3> HIDE DEF k
    <3>7. U' = U + k
      BY <1>1, <3>2, <3>3, <3>4, <3>5, <3>6
    <3> QED BY <1>1, <3>6, <3>7
  <2>6. CASE ForwardTransition(n, job)
    <3>1. job.type = TRANSITION /\ commands' = commands
      BY <2>6 DEF ForwardTransition
    <3>2. w[p] = 0 /\ Weight(Reply(n, job), w) = 0
      BY <1>1, <1>4, <2>1, <3>1, NamesDiffer, ReplyNoCommand DEF w
    <3> DEFINE x == IF Type(n) = CENTRAL THEN 0
                    ELSE w[[to |-> Upper[n], job |-> Job(TRANSITION, n, NONE)]]
    <3>3. U' = U - w[p] + Weight(Reply(n, job), w) + x
      BY <1>1, <1>4, <2>6, ForwardEffect DEF w, p
    <3>4. x = 0
      <4>1. SUFFICES ASSUME Type(n) # CENTRAL
                     PROVE  w[[to |-> Upper[n], job |-> Job(TRANSITION, n, NONE)]] = 0
        OBVIOUS
      <4>2. Job(TRANSITION, n, NONE) \in JobInfo
        BY <2>1, JobType, TypesOfJobs DEF Ends
      <4>3. [to |-> Upper[n], job |-> Job(TRANSITION, n, NONE)] \in Place
        BY <2>1, <4>1, <4>2, UpPlace
      <4>4. Job(TRANSITION, n, NONE).type # COMMAND
        BY Sent, NamesDiffer
      <4> QED BY <1>1, <4>3, <4>4
    <3> HIDE DEF x
    <3> QED BY <1>1, <3>1, <3>2, <3>3, <3>4
  <2>7. CASE FinishCommand(n, job)
    <3> DEFINE a == job.device_destination
    <3>1. job.type = COMMAND /\ commands' = commands
      BY <2>7 DEF FinishCommand
    <3>2. w[p] = 1
      BY <1>1, <2>1, <3>1
    <3>3. /\ a \in Of(ACTUATOR)
          /\ U' = U - w[p] + w[[to |-> NextHop(n, a), job |-> Job(COMMAND, NONE, a)]]
      BY <1>1, <1>4, <2>7, PassEffect DEF w, p
    <3>4. NextHop(n, a) # NONE
      BY <2>1, <3>1, <3>3, NamesDiffer DEF Sound, OnPath, Nodes, Of, p
    <3>5. w[[to |-> NextHop(n, a), job |-> Job(COMMAND, NONE, a)]] = 1
      BY <2>3, <3>3, <3>4
    <3> QED BY <1>1, <3>1, <3>2, <3>3, <3>5
  <2>8. CASE FinishBatchData(n, job)
    <3>1. job.type = BATCH_DATA /\ commands' = commands
      BY <2>8 DEF FinishBatchData
    <3>2. w[p] = 0
      BY <1>1, <2>1, <3>1, NamesDiffer
    <3> DEFINE x == IF Full(num_batch_aggregated[n], BatchAggregation[Type(n)]) /\ Type(n) # CENTRAL
                    THEN w[[to |-> Upper[n], job |-> Job(BATCH_DATA, NONE, NONE)]] ELSE 0
    <3>3. U' = U - w[p] + x
      BY <1>1, <1>4, <2>8, BatchEffect DEF w, p
    <3>4. x = 0
      BY <2>2
    <3> HIDE DEF x
    <3> QED BY <1>1, <3>1, <3>2, <3>3, <3>4
  <2>9. CASE FinishReply(n, job)
    <3>1. job.type = REPLY /\ commands' = commands
      BY <2>9 DEF FinishReply
    <3>2. w[p] = 0
      BY <1>1, <2>1, <3>1, NamesDiffer
    <3>3. U' = U - w[p]
      BY <1>1, <1>4, <2>9, AnswerEffect DEF w, p
    <3> QED BY <1>1, <3>1, <3>2, <3>3
  <2> QED BY <1>4, <2>4, <2>5, <2>6, <2>7, <2>8, <2>9 DEF FinishNode
<1>5. ASSUME NEW a \in Of(ACTUATOR), NEW job \in Inside(Queue(a)), FinishActuator(a, job)
      PROVE  U' = U - 1 /\ commands'.issued = commands.issued /\ commands'.done = commands.done + 1
  <2> DEFINE p == [to |-> a, job |-> job]
  <2>1. p \in Place /\ p.job.type = COMMAND /\ job.type = COMMAND /\ U' = U - w[p]
    BY <1>1, <1>5, ActuatorEffect DEF w
  <2> HIDE DEF p
  <2>2. U' = U - 1
    BY <1>1, <2>1
  <2> QED BY <1>1, <1>5, <2>1, <2>2 DEF FinishActuator
<1>6. commands'.issued - commands'.done - U' = commands.issued - commands.done - U
  <2> HIDE DEF U
  <2>1. CASE \E d \in Of(SENSOR) \cup Of(ACTUATOR), t \in {TELEMETRY, TRANSITION} : Generate(d, t)
    BY <1>2, <2>1
  <2>2. CASE \E a \in Of(ACTUATOR) : \E job \in Inside(Queue(a)) : FinishActuator(a, job)
    BY <1>1, <1>5, <2>2
  <2> QED BY <1>3, <1>4, <2>1, <2>2, StepsAre
<1> QED BY <1>6 DEF U, w

-----------------------------------------------------------------------------
(* Transitions and their replies.                                          *)

LEMMA AwaitedWeigh ==
  ASSUME NEW c \in Nodes
  PROVE  /\ OfJobs(Awaited(c))
         /\ \A m \in Place : Awaited(c)[m] =
              IF m.job.type \in {TRANSITION, REPLY} /\ m.job.device_sender = c THEN 1 ELSE 0
BY FinitelyManyPlaces DEF OfJobs, Weighs, Awaited

\* A reply weighs what the transition weighed that it answers.
LEMMA ReplyBalances ==
  ASSUME JobsInv, NEW n, NEW job, AtNode(n, job), job.type = TRANSITION, NEW c \in Nodes
  PROVE  Weight(Reply(n, job), Awaited(c)) = Awaited(c)[[to |-> n, job |-> job]]
<1> DEFINE w == Awaited(c)
           p == [to |-> n, job |-> job]
           q == [to |-> WanDown(n), job |-> Job(REPLY, job.device_sender, NONE)]
<1>1. /\ n \in Nodes /\ job \in JobInfo /\ Sound(p) /\ Named(p) /\ p \in Place
      /\ p.job = job
  BY NodeJob, NodePlace
<1>2. /\ Weighs(w, Place)
      /\ \A m \in Place : w[m] = IF m.job.type \in {TRANSITION, REPLY} /\ m.job.device_sender = c THEN 1 ELSE 0
  BY AwaitedWeigh DEF OfJobs
<1>3. CASE Type(n) = LOCAL_NODE
  <2>1. job.device_sender = NONE /\ c # NONE
    BY <1>1, <1>3, Shape DEF Named
  <2>2. Weight(Reply(n, job), w) = 0
    BY <1>1, <1>2, <1>3, ReplyPosted
  <2> HIDE DEF w, p
  <2>3. w[p] = 0
    BY <1>1, <1>2, <2>1
  <2> QED BY <2>2, <2>3 DEF w, p
<1>4. CASE Type(n) # LOCAL_NODE
  <2>1. q \in Place /\ Weight(Reply(n, job), w) = w[q]
    BY <1>1, <1>2, <1>4, ReplyPosted
  <2>2. q.job.type = REPLY /\ q.job.device_sender = job.device_sender
    BY Sent
  <2> HIDE DEF w, p, q
  <2>3. w[q] = w[p]
    BY <1>1, <1>2, <2>1, <2>2
  <2> QED BY <2>1, <2>3 DEF w, p
<1> QED BY <1>3, <1>4

LEMMA AwaitedStay ==
  ASSUME NetworkInv, NetworkInv', Steps, NEW c \in Nodes, c # Central
  PROVE  forwarded'[c] - answered'[c] - UnderWay(Awaited(c))'
           = forwarded[c] - answered[c] - UnderWay(Awaited(c))
<1> DEFINE w == Awaited(c)
           U == UnderWay(w)
<1>1. /\ OfJobs(w) /\ Weighs(w, Place) /\ JobsInv /\ RoutingInv' /\ U \in Int
      /\ \A m \in Place : w[m] = IF m.job.type \in {TRANSITION, REPLY} /\ m.job.device_sender = c THEN 1 ELSE 0
      /\ forwarded \in [Nodes -> Int] /\ answered \in [Nodes -> Int]
      /\ forwarded[c] \in Int /\ answered[c] \in Int /\ c # NONE
  BY AwaitedWeigh, UnderWayType, Shape DEF OfJobs, NetworkInv, JobsInv, CountsInv
<1> HIDE DEF w
\* A job that names nobody, and a command.
<1>2. ASSUME NEW e, NEW t \in JobTypes, NEW s \in Ends, NEW a \in Ends, [to |-> e, job |-> Job(t, s, a)] \in Place
      PROVE  w[[to |-> e, job |-> Job(t, s, a)]] = IF t \in {TRANSITION, REPLY} /\ s = c THEN 1 ELSE 0
  <2> DEFINE p == [to |-> e, job |-> Job(t, s, a)]
  <2>1. p.job.type = t /\ p.job.device_sender = s
    BY Sent
  <2> HIDE DEF p
  <2>2. p \in Place => w[p] = IF t \in {TRANSITION, REPLY} /\ s = c THEN 1 ELSE 0
    BY <1>1, <2>1
  <2> QED BY <1>2, <2>2 DEF p
<1>3. ASSUME NEW d \in Of(SENSOR) \cup Of(ACTUATOR), NEW t \in {TELEMETRY, TRANSITION}, Generate(d, t)
      PROVE  U' = U /\ forwarded' = forwarded /\ answered' = answered
  <2> DEFINE p == [to |-> Upper[d], job |-> Job(t, NONE, NONE)]
  <2>1. U' = U + w[p]
    BY <1>1, <1>3, GenerateEffect
  <2>2. p \in Place /\ t \in JobTypes /\ NONE \in Ends
    BY Shape, JobType, TypesOfJobs DEF Place, Of, Ends
  <2>3. p.job.device_sender = NONE
    BY Sent
  <2> HIDE DEF p
  <2>4. w[p] = 0
    BY <1>1, <2>2, <2>3
  <2> QED BY <1>1, <1>3, <2>1, <2>4 DEF Generate
<1>4. ASSUME Carry PROVE U' = U /\ forwarded' = forwarded /\ answered' = answered
  BY <1>1, <1>4, Carried, CarryKeeps
<1>5. ASSUME NEW n, NEW job, AtNode(n, job), FinishNode(n, job)
      PROVE  forwarded'[c] - answered'[c] - U' = forwarded[c] - answered[c] - U
  <2> DEFINE p == [to |-> n, job |-> job]
  <2>1. /\ n \in Nodes /\ n \in Element /\ p \in Place /\ p.job = job /\ n \in Ends
        /\ Sound(p) /\ job \in JobInfo
    BY <1>1, <1>5, NodeJob, NodePlace DEF Ends
  <2>2. ASSUME NEW type \in JobTypes, NEW s \in Ends, Type(n) # CENTRAL
        PROVE  w[[to |-> Upper[n], job |-> Job(type, s, NONE)]]
                 = IF type \in {TRANSITION, REPLY} /\ s = c THEN 1 ELSE 0
    <3>1. Job(type, s, NONE) \in JobInfo /\ NONE \in Ends
      BY JobType DEF Ends
    <3>2. [to |-> Upper[n], job |-> Job(type, s, NONE)] \in Place
      BY <2>1, <2>2, <3>1, UpPlace
    <3> QED BY <1>2, <3>1, <3>2
  <2>3. ASSUME NEW a \in Of(ACTUATOR), NextHop(n, a) # NONE
        PROVE  w[[to |-> NextHop(n, a), job |-> Job(COMMAND, NONE, a)]] = 0
    <3>1. [to |-> NextHop(n, a), job |-> Job(COMMAND, NONE, a)] \in Place
      BY <2>1, <2>3, NextPlace
    <3>2. NONE \in Ends /\ a \in Ends /\ COMMAND \in JobTypes
      BY TypesOfJobs DEF Ends, Of
    <3> QED BY <1>1, <1>2, <3>1, <3>2
  <2>4. TELEMETRY \in JobTypes /\ BATCH_DATA \in JobTypes /\ TRANSITION \in JobTypes /\ NONE \in Ends
    BY TypesOfJobs DEF Ends
  <2> HIDE DEF p
  <2>5. CASE FinishTelemetry(n, job)
    <3>1. job.type = TELEMETRY /\ forwarded' = forwarded /\ answered' = answered
      BY <2>5 DEF FinishTelemetry
    <3>2. w[p] = 0
      BY <1>1, <2>1, <3>1, NamesDiffer
    <3> DEFINE x == IF Full(num_telemetry_aggregated[n], TelemetryAggregation[Type(n)]) /\ Type(n) # CENTRAL
                    THEN w[[to |-> Upper[n], job |-> Job(TELEMETRY, NONE, NONE)]] ELSE 0
    <3>3. U' = U - w[p] + x
      BY <1>1, <1>5, <2>5, TelemetryEffect DEF p
    <3>4. x = 0
      BY <1>1, <2>2, <2>4
    <3> HIDE DEF x
    <3> QED BY <1>1, <3>1, <3>2, <3>3, <3>4
  <2>6. CASE CommandFromTransition(n, job)
    <3>1. job.type = TRANSITION /\ forwarded' = forwarded /\ answered' = answered
      BY <2>6 DEF CommandFromTransition
    <3>2. Weight(Reply(n, job), w) = w[p] /\ w[p] \in Int
      BY <1>1, <1>5, <2>1, <3>1, ReplyBalances DEF w, p, Weighs
    <3>3. PICK a \in Selected(n), x \in {0, w[[to |-> Upper[n], job |-> Job(BATCH_DATA, NONE, NONE)]]} :
            /\ x # 0 => Type(n) # CENTRAL
            /\ U' = U - w[p] + Weight(Reply(n, job), w) + Weight(SendCommand(n, a), w) + x
      BY <1>1, <1>5, <2>6, CommandEffect DEF p
    <3>4. x = 0
      BY <1>1, <2>2, <2>4, <3>3
    <3>5. Weight(SendCommand(n, a), w) = 0
      BY <1>1, <2>1, <2>3, CommandPosted DEF Below
    <3>6. U' = U
      BY <1>1, <3>2, <3>3, <3>4, <3>5
    <3> QED BY <1>1, <3>1, <3>6
  <2>7. CASE ForwardTransition(n, job)
    <3>1. job.type = TRANSITION /\ answered' = answered
      BY <2>7 DEF ForwardTransition
    <3>2. Weight(Reply(n, job), w) = w[p] /\ w[p] \in Int
      BY <1>1, <1>5, <2>1, <3>1, ReplyBalances DEF w, p, Weighs
    <3> DEFINE x == IF Type(n) = CENTRAL THEN 0
                    ELSE w[[to |-> Upper[n], job |-> Job(TRANSITION, n, NONE)]]
    <3>3. U' = U - w[p] + Weight(Reply(n, job), w) + x
      BY <1>1, <1>5, <2>7, ForwardEffect DEF p
    <3>4. x = IF n = c THEN 1 ELSE 0
      <4>1. CASE Type(n) = CENTRAL
        BY <1>1, <2>1, <4>1, CentralNode
      <4>2. CASE Type(n) # CENTRAL
        BY <2>1, <2>2, <2>4, <4>2
      <4> QED BY <4>1, <4>2
    <3> HIDE DEF x
    <3>5. forwarded'[c] = forwarded[c] + IF n = c THEN 1 ELSE 0
      BY <1>1, <2>1, <2>7 DEF ForwardTransition
    <3>6. U' = U + x
      BY <1>1, <3>2, <3>3, <3>4
    <3> QED BY <1>1, <3>1, <3>4, <3>5, <3>6
  <2>8. CASE FinishCommand(n, job)
    <3> DEFINE a == job.device_destination
    <3>1. job.type = COMMAND /\ forwarded' = forwarded /\ answered' = answered
      BY <2>8 DEF FinishCommand
    <3>2. w[p] = 0
      BY <1>1, <2>1, <3>1, NamesDiffer
    <3>3. /\ a \in Of(ACTUATOR)
          /\ U' = U - w[p] + w[[to |-> NextHop(n, a), job |-> Job(COMMAND, NONE, a)]]
      BY <1>1, <1>5, <2>8, PassEffect DEF p
    <3>4. NextHop(n, a) # NONE
      BY <2>1, <3>1, <3>3, NamesDiffer DEF Sound, OnPath, Nodes, Of, p
    <3>5. w[[to |-> NextHop(n, a), job |-> Job(COMMAND, NONE, a)]] = 0
      BY <2>3, <3>3, <3>4
    <3> QED BY <1>1, <3>1, <3>2, <3>3, <3>5
  <2>9. CASE FinishBatchData(n, job)
    <3>1. job.type = BATCH_DATA /\ forwarded' = forwarded /\ answered' = answered
      BY <2>9 DEF FinishBatchData
    <3>2. w[p] = 0
      BY <1>1, <2>1, <3>1, NamesDiffer
    <3> DEFINE x == IF Full(num_batch_aggregated[n], BatchAggregation[Type(n)]) /\ Type(n) # CENTRAL
                    THEN w[[to |-> Upper[n], job |-> Job(BATCH_DATA, NONE, NONE)]] ELSE 0
    <3>3. U' = U - w[p] + x
      BY <1>1, <1>5, <2>9, BatchEffect DEF p
    <3>4. x = 0
      BY <1>1, <2>2, <2>4
    <3> HIDE DEF x
    <3> QED BY <1>1, <3>1, <3>2, <3>3, <3>4
  <2>10. CASE FinishReply(n, job)
    <3>1. job.type = REPLY /\ forwarded' = forwarded
      BY <2>10 DEF FinishReply
    <3>2. U' = U - w[p] /\ job.device_sender = n
      BY <1>1, <1>5, <2>10, AnswerEffect DEF p
    <3>3. w[p] = IF n = c THEN 1 ELSE 0
      BY <1>1, <2>1, <3>1, <3>2
    <3>4. answered'[c] = answered[c] + IF n = c THEN 1 ELSE 0
      BY <1>1, <2>1, <2>10 DEF FinishReply
    <3> QED BY <1>1, <3>1, <3>2, <3>3, <3>4
  <2> QED BY <1>5, <2>5, <2>6, <2>7, <2>8, <2>9, <2>10 DEF FinishNode
<1>6. ASSUME NEW a \in Of(ACTUATOR), NEW job \in Inside(Queue(a)), FinishActuator(a, job)
      PROVE  U' = U /\ forwarded' = forwarded /\ answered' = answered
  <2> DEFINE p == [to |-> a, job |-> job]
  <2>1. p \in Place /\ p.job.type = COMMAND /\ U' = U - w[p]
    BY <1>1, <1>6, ActuatorEffect
  <2> HIDE DEF p
  <2>2. U' = U
    BY <1>1, <2>1, NamesDiffer
  <2> QED BY <1>6, <2>2 DEF FinishActuator, UnchangedByFinish
<1>7. forwarded'[c] - answered'[c] - U' = forwarded[c] - answered[c] - U
  <2> HIDE DEF U
  <2>1. CASE \E d \in Of(SENSOR) \cup Of(ACTUATOR), t \in {TELEMETRY, TRANSITION} : Generate(d, t)
    BY <1>3, <2>1
  <2>2. CASE \E a \in Of(ACTUATOR) : \E job \in Inside(Queue(a)) : FinishActuator(a, job)
    BY <1>6, <2>2
  <2>3. CASE Carry
    BY <1>4, <2>3
  <2> QED BY <1>5, <2>1, <2>2, <2>3, StepsAre
<1> QED BY <1>7 DEF U, w

\* What the central node has passed on is on its disk.
LEMMA CentralStays ==
  ASSUME NetworkInv, NetworkInv', Steps
  PROVE  forwarded'[Central] - OnDisk(TRANSITION)' - stored'[TRANSITION]
           = forwarded[Central] - OnDisk(TRANSITION) - stored[TRANSITION]
<1> DEFINE D == OnDisk(TRANSITION)
           f == forwarded[Central]
           s == stored[TRANSITION]
<1>1. /\ JobsInv /\ RoutingInv' /\ D \in Int /\ Weighs(Commands, Place)
      /\ forwarded \in [Nodes -> Int] /\ stored \in [JobTypes -> Int]
      /\ Central \in Nodes /\ f \in Int /\ s \in Int /\ TRANSITION \in JobTypes
  BY OnDiskType, CommandsWeigh, CentralNode, TypesOfJobs DEF NetworkInv, JobsInv, CountsInv
<1>2. ASSUME NEW d \in Of(SENSOR) \cup Of(ACTUATOR), NEW t \in {TELEMETRY, TRANSITION}, Generate(d, t)
      PROVE  D' = D /\ f' = f /\ s' = s
  BY <1>2 DEF Generate, OnDisk
<1>3. ASSUME NEW m \in BagToSet(messages), Arrive(m) PROVE D' = D /\ f' = f /\ s' = s
  <2>1. D' = D
    BY <1>1, <1>3, ArriveEffect
  <2> QED BY <1>3, <2>1 DEF Arrive, UnchangedByArrival
<1>4. ASSUME NEW job \in BagToSet(disk_messages), ArriveDisk(job) PROVE D' = D /\ f' = f /\ s' = s
  <2>1. D' = D
    BY <1>1, <1>4, ArriveDiskEffect
  <2> QED BY <1>4, <2>1 DEF ArriveDisk, UnchangedByArrival
<1>5. ASSUME NEW n, NEW job, AtNode(n, job), FinishNode(n, job)
      PROVE  s' = s /\ \E k \in {0, 1} : f' = f + k /\ D' = D + k
  <2>1. s' = s
    BY <1>5 DEF FinishNode
  <2>2. n \in Nodes
    BY <1>5 DEF AtNode
  <2>3. CASE FinishTelemetry(n, job)
    <3>1. f' = f
      BY <2>3 DEF FinishTelemetry
    <3>2. D' = D + 0
      BY <1>1, <1>5, <2>3, TelemetryEffect, NamesDiffer
    <3> QED BY <1>1, <2>1, <3>1, <3>2
  <2>4. CASE CommandFromTransition(n, job)
    <3>1. f' = f
      BY <2>4 DEF CommandFromTransition
    <3>2. D' = D
      BY <1>1, <1>5, <2>4, CommandEffect, NamesDiffer
    <3>3. D' = D + 0 /\ f' = f + 0
      BY <1>1, <3>1, <3>2
    <3> QED BY <2>1, <3>3
  <2>5. CASE ForwardTransition(n, job)
    <3>1. f' = f + IF n = Central THEN 1 ELSE 0
      BY <1>1, <2>2, <2>5 DEF ForwardTransition
    <3>2. D' = D + IF Type(n) = CENTRAL /\ TRANSITION = TRANSITION THEN 1 ELSE 0
      BY <1>1, <1>5, <2>5, ForwardEffect
    <3>3. Type(n) = CENTRAL <=> n = Central
      BY <2>2, CentralNode
    <3> HIDE DEF D, f, s
    <3> QED BY <1>1, <2>1, <3>1, <3>2, <3>3
  <2>6. CASE FinishCommand(n, job)
    <3>1. f' = f
      BY <2>6 DEF FinishCommand
    <3>2. D' = D
      BY <1>1, <1>5, <2>6, PassEffect
    <3>3. D' = D + 0 /\ f' = f + 0
      BY <1>1, <3>1, <3>2
    <3> QED BY <2>1, <3>3
  <2>7. CASE FinishBatchData(n, job)
    <3>1. f' = f
      BY <2>7 DEF FinishBatchData
    <3>2. D' = D + 0
      BY <1>1, <1>5, <2>7, BatchEffect, NamesDiffer
    <3> QED BY <1>1, <2>1, <3>1, <3>2
  <2>8. CASE FinishReply(n, job)
    <3>1. f' = f
      BY <2>8 DEF FinishReply
    <3>2. D' = D
      BY <1>1, <1>5, <2>8, AnswerEffect
    <3>3. D' = D + 0 /\ f' = f + 0
      BY <1>1, <3>1, <3>2
    <3> QED BY <2>1, <3>3
  <2> QED BY <1>5, <2>3, <2>4, <2>5, <2>6, <2>7, <2>8 DEF FinishNode
<1>6. ASSUME NEW a \in Of(ACTUATOR), NEW job \in Inside(Queue(a)), FinishActuator(a, job)
      PROVE  D' = D /\ f' = f /\ s' = s
  <2>1. D' = D
    BY <1>1, <1>6, ActuatorEffect
  <2> QED BY <1>6, <2>1 DEF FinishActuator, UnchangedByFinish
<1>7. ASSUME NEW l \in Of(LAN), NEW job \in Inside(LanOut(l)), FinishLanOut(l, job)
      PROVE  D' = D /\ f' = f /\ s' = s
  <2>1. D' = D
    BY <1>1, <1>7, LanOutEffect
  <2> QED BY <1>7, <2>1 DEF FinishLanOut, UnchangedByFinish
<1>8. ASSUME NEW l \in Of(LAN), NEW job \in Inside(LanIn(l)), FinishLanIn(l, job)
      PROVE  D' = D /\ f' = f /\ s' = s
  <2>1. D' = D
    BY <1>1, <1>8, LanInEffect
  <2> QED BY <1>8, <2>1 DEF FinishLanIn, UnchangedByFinish
<1>9. ASSUME NEW job \in Inside(Disk), FinishDisk(job) PROVE f' = f /\ \E k \in {0, 1} : s' = s + k /\ D' = D - k
  <2>1. D' = D - (IF job.type = TRANSITION THEN 1 ELSE 0) /\ job.type \in JobTypes
    BY <1>1, <1>9, FinishDiskEffect
  <2>2. s' = s + IF job.type = TRANSITION THEN 1 ELSE 0
    BY <1>1, <1>9, <2>1 DEF FinishDisk
  <2>3. f' = f
    BY <1>9 DEF FinishDisk, UnchangedByFinish
  <2> HIDE DEF D, s, f
  <2> QED BY <1>1, <2>1, <2>2, <2>3
<1>10. f' - D' - s' = f - D - s
  <2> HIDE DEF D, f, s
  <2>1. CASE s' = s /\ \E k \in {0, 1} : f' = f + k /\ D' = D + k
    BY <1>1, <2>1
  <2>2. CASE f' = f /\ \E k \in {0, 1} : s' = s + k /\ D' = D - k
    BY <1>1, <2>2
  <2>3. \/ D' = D /\ f' = f /\ s' = s
        \/ s' = s /\ \E k \in {0, 1} : f' = f + k /\ D' = D + k
        \/ f' = f /\ \E k \in {0, 1} : s' = s + k /\ D' = D - k
    <3>1. CASE \E d \in Of(SENSOR) \cup Of(ACTUATOR), t \in {TELEMETRY, TRANSITION} : Generate(d, t)
      BY <1>2, <3>1
    <3>2. CASE Carry
      BY <1>3, <1>4, <1>7, <1>8, <1>9, <3>2 DEF Carry
    <3> QED BY <1>5, <1>6, <3>1, <3>2, StepsAre
  <2> QED BY <2>1, <2>2, <2>3
<1> QED BY <1>10

-----------------------------------------------------------------------------
(* Telemetry.                                                              *)

\* What a job stands for at each kind of element, and one level up.
LEMMA StandsIs ==
  /\ \A e \in Element : Stands(e) \in Nat
  /\ \A v \in Of(WAN) : Stands(v) = Stands(Upper[v])
  /\ \A l \in Of(LAN) : Stands(l) = 1 /\ Stands(Upper[l]) = 1
  /\ \A n \in Nodes : Type(n) # CENTRAL => Stands(Upper[n]) = Stands(n) * TelemetryAggregation[Type(n)]
<1>1. /\ TelemetryAggregation[LOCAL_NODE] \in Nat /\ TelemetryAggregation[REGIONAL] \in Nat
      /\ TelemetryAggregation[LOCAL_NODE] * TelemetryAggregation[REGIONAL] \in Nat
  BY AggregationAssumption
<1>2. \A n \in Nodes : /\ Kind[n] = NODE /\ Type(n) \in {LOCAL_NODE, REGIONAL, CENTRAL}
                       /\ Type(n) = LOCAL_NODE => Stands(n) = 1
                       /\ Type(n) = REGIONAL => Stands(n) = TelemetryAggregation[LOCAL_NODE]
                       /\ Type(n) = CENTRAL => Stands(n) = TelemetryAggregation[LOCAL_NODE] * TelemetryAggregation[REGIONAL]
  <2> TAKE n \in Nodes
  <2>1. Kind[n] = NODE /\ Type(n) \in {LOCAL_NODE, REGIONAL, CENTRAL}
    BY Shape DEF Nodes, Of
  <2> QED BY <2>1, NamesDiffer DEF Stands
<1>3. \A v \in Of(WAN) : Kind[v] = WAN /\ Upper[v] \in Nodes /\ Stands(v) = Stands(Upper[v])
  <2> TAKE v \in Of(WAN)
  <2>1. Kind[v] = WAN /\ Upper[v] \in Nodes
    BY Shape DEF Of
  <2>2. Kind[Upper[v]] = NODE
    BY <1>2, <2>1
  <2> QED BY <2>1, <2>2, NamesDiffer DEF Stands
<1>4. \A l \in Of(LAN) : Stands(l) = 1 /\ Stands(Upper[l]) = 1
  <2> TAKE l \in Of(LAN)
  <2>1. Kind[l] = LAN /\ Upper[l] \in Nodes /\ Type(Upper[l]) = LOCAL_NODE
    BY Shape DEF Of
  <2>2. Stands(l) = 1
    BY <2>1, NamesDiffer DEF Stands
  <2> QED BY <1>2, <2>1, <2>2
<1>5. \A e \in Element : Stands(e) \in Nat
  <2> TAKE e \in Element
  <2>1. CASE e \in Nodes
    BY <1>1, <1>2, <2>1
  <2>2. CASE e \in Of(WAN)
    BY <1>1, <1>2, <1>3, <2>2
  <2>3. CASE e \notin Nodes /\ e \notin Of(WAN)
    <3>1. Kind[e] # WAN /\ Kind[e] # NODE
      BY <2>3 DEF Nodes, Of
    <3>2. Stands(e) = 1
      BY <3>1, NamesDiffer DEF Stands
    <3> QED BY <3>2
  <2> QED BY <2>1, <2>2, <2>3
<1>6. \A n \in Nodes : Type(n) # CENTRAL => Stands(Upper[n]) = Stands(n) * TelemetryAggregation[Type(n)]
  <2> SUFFICES ASSUME NEW n \in Nodes, Type(n) # CENTRAL
               PROVE  Stands(Upper[n]) = Stands(n) * TelemetryAggregation[Type(n)]
    OBVIOUS
  <2>1. Upper[n] \in Of(WAN) /\ Type(n) \in {REGIONAL, LOCAL_NODE}
    BY Shape
  <2>2. Stands(Upper[n]) = Stands(Upper[Upper[n]]) /\ Upper[Upper[n]] \in Nodes
    BY <1>3, <2>1
  <2>3. Type(Upper[Upper[n]]) = IF Type(n) = LOCAL_NODE THEN REGIONAL ELSE CENTRAL
    BY <2>1, TopologyAssumption
  <2>4. CASE Type(n) = LOCAL_NODE
    BY <1>1, <1>2, <2>2, <2>3, <2>4
  <2>5. CASE Type(n) = REGIONAL
    BY <1>1, <1>2, <2>2, <2>3, <2>5, NamesDiffer
  <2> QED BY <2>1, <2>4, <2>5
<1> QED BY <1>3, <1>4, <1>5, <1>6

LEMMA MeasurementsWeigh ==
  /\ Weighs(Measurements, Place)
  /\ \A m \in Place : Measurements[m] = IF m.job.type = TELEMETRY THEN Stands(m.to) ELSE 0
<1>1. \A m \in Place : /\ Measurements[m] = IF m.job.type = TELEMETRY THEN Stands(m.to) ELSE 0
                       /\ Stands(m.to) \in Int
  BY StandsIs DEF Measurements, Place
<1> QED BY <1>1, FinitelyManyPlaces DEF Weighs

\* On the way a measurement stands for the same.
LEMMA MeasurementsCarried ==
  ASSUME JobsInv, RoutingInv', Carry
  PROVE  UnderWay(Measurements)' = UnderWay(Measurements)
<1> DEFINE w == Measurements
           U == UnderWay(w)
<1>1. /\ Weighs(w, Place) /\ U \in Int /\ \A p \in Place : w[p] \in Int
      /\ \A m \in Place : w[m] = IF m.job.type = TELEMETRY THEN Stands(m.to) ELSE 0
  BY MeasurementsWeigh, UnderWayType DEF Weighs, JobsInv
<1> HIDE DEF w
<1>2. ASSUME NEW p \in Place, NEW q \in Place, w[p] = w[q], U' = U - w[p] + w[q]
      PROVE  U' = U
  <2>1. w[p] \in Int
    BY <1>1
  <2> HIDE DEF U
  <2> QED BY <1>1, <1>2, <2>1
<1>3. ASSUME NEW m \in BagToSet(messages), Arrive(m) PROVE U' = U
  <2> DEFINE p == [to |-> WanNext(m.to, m.job), job |-> m.job]
  <2>1. m \in Place /\ (U' = U \/ (m.to \in Of(WAN) /\ p \in Place /\ U' = U - w[m] + w[p]))
    BY <1>1, <1>3, ArriveEffect
  <2>2. ASSUME m.to \in Of(WAN), p \in Place PROVE w[m] = w[p]
    <3>1. p.job = m.job /\ p.to = WanNext(m.to, m.job)
      OBVIOUS
    <3> HIDE DEF p
    <3>2. CASE m.job.type = TELEMETRY
      <4>1. p.to = Upper[m.to]
        BY <3>1, <3>2, NamesDiffer DEF WanNext
      <4> QED BY <1>1, <2>1, <2>2, <3>1, <3>2, <4>1, StandsIs
    <3>3. CASE m.job.type # TELEMETRY
      BY <1>1, <2>1, <2>2, <3>1, <3>3
    <3> QED BY <3>2, <3>3
  <2> HIDE DEF U, p
  <2> QED BY <1>2, <2>1, <2>2
<1>4. ASSUME NEW job \in BagToSet(disk_messages), ArriveDisk(job) PROVE U' = U
  BY <1>1, <1>4, ArriveDiskEffect
<1>5. ASSUME NEW l \in Of(LAN), NEW job \in Inside(LanOut(l)), FinishLanOut(l, job) PROVE U' = U
  <2> DEFINE p == [to |-> l, job |-> job]
             q == [to |-> Upper[l], job |-> job]
  <2>1. p \in Place /\ q \in Place /\ U' = U - w[p] + w[q]
    BY <1>1, <1>5, LanOutEffect
  <2>2. p.job = q.job /\ p.to = l /\ q.to = Upper[l]
    OBVIOUS
  <2> HIDE DEF U, p, q
  <2>3. w[p] = w[q]
    BY <1>1, <2>1, <2>2, StandsIs
  <2> QED BY <1>2, <2>1, <2>3
<1>6. ASSUME NEW l \in Of(LAN), NEW job \in Inside(LanIn(l)), FinishLanIn(l, job) PROVE U' = U
  <2> DEFINE p == [to |-> l, job |-> job]
             q == [to |-> job.device_destination, job |-> job]
  <2>1. p \in Place /\ q \in Place /\ job.type = COMMAND /\ U' = U - w[p] + w[q]
    BY <1>1, <1>6, LanInEffect
  <2>2. p.job = job /\ q.job = job
    OBVIOUS
  <2> HIDE DEF U, p, q
  <2>3. w[p] = w[q]
    BY <1>1, <2>1, <2>2, NamesDiffer
  <2> QED BY <1>2, <2>1, <2>3
<1>7. ASSUME NEW job \in Inside(Disk), FinishDisk(job) PROVE U' = U
  BY <1>1, <1>7, FinishDiskEffect
<1>8. U' = U
  BY <1>3, <1>4, <1>5, <1>6, <1>7 DEF Carry
<1> QED BY <1>8 DEF U, w

\* A transition, and what answers it, are no measurements.
LEMMA ReplyNoMeasurement ==
  ASSUME JobsInv, NEW n, NEW job, AtNode(n, job), job.type = TRANSITION
  PROVE  Weight(Reply(n, job), Measurements) = 0
<1>1. n \in Nodes /\ job \in JobInfo /\ Sound([to |-> n, job |-> job])
  BY NodeJob
<1>2. CASE Type(n) = LOCAL_NODE
  BY <1>1, <1>2, MeasurementsWeigh, ReplyPosted
<1>3. CASE Type(n) # LOCAL_NODE
  <2> DEFINE p == [to |-> WanDown(n), job |-> Job(REPLY, job.device_sender, NONE)]
  <2>1. p \in Place /\ Weight(Reply(n, job), Measurements) = Measurements[p]
    BY <1>1, <1>3, MeasurementsWeigh, ReplyPosted
  <2>2. p.job.type = REPLY
    BY Sent
  <2> HIDE DEF p
  <2> QED BY <2>1, <2>2, MeasurementsWeigh, NamesDiffer
<1> QED BY <1>2, <1>3

\* The measurements in the aggregates that the nodes have begun.
Begun == SumFunction([n \in Nodes |-> Stands(n) * num_telemetry_aggregated[n]])

LEMMA BegunType ==
  ASSUME CountsInv
  PROVE  /\ Begun \in Int /\ IsFiniteSet(Nodes)
         /\ \A n \in Nodes : Stands(n) \in Int /\ num_telemetry_aggregated[n] \in Nat
                             /\ Stands(n) * num_telemetry_aggregated[n] \in Int
<1> DEFINE f == [n \in Nodes |-> Stands(n) * num_telemetry_aggregated[n]]
<1>1. IsFiniteSet(Nodes)
  BY OneCentralAssumption, FS_Subset DEF Nodes, Of
<1>2. \A n \in Nodes : Stands(n) \in Int /\ num_telemetry_aggregated[n] \in Nat
  BY StandsIs, Shape DEF CountsInv
<1>3. \A n \in Nodes : Stands(n) * num_telemetry_aggregated[n] \in Int
  BY <1>2
<1>4. Begun = SumFunctionOnSet(f, Nodes)
  BY DEF Begun, SumFunction
<1>5. \A n \in Nodes : f[n] \in Int
  BY <1>3
<1> HIDE DEF f
<1>6. SumFunctionOnSet(f, Nodes) \in Int
  BY <1>1, <1>5, SumType
<1> QED BY <1>1, <1>2, <1>3, <1>4, <1>6

LEMMA BegunChanged ==
  ASSUME CountsInv, NEW n \in Nodes, NEW c \in Nat,
         num_telemetry_aggregated' = [num_telemetry_aggregated EXCEPT ![n] = c]
  PROVE  Begun' = Begun - Stands(n) * num_telemetry_aggregated[n] + Stands(n) * c
<1> DEFINE f == [x \in Nodes |-> Stands(x) * num_telemetry_aggregated[x]]
           g == [x \in Nodes |-> Stands(x) * num_telemetry_aggregated'[x]]
<1>1. /\ IsFiniteSet(Nodes) /\ Stands(n) \in Int
      /\ \A x \in Nodes : Stands(x) * num_telemetry_aggregated[x] \in Int
  BY BegunType
<1>2. \A x \in Nodes : num_telemetry_aggregated'[x] = IF x = n THEN c ELSE num_telemetry_aggregated[x]
  BY DEF CountsInv
<1>3. \A x \in Nodes : f[x] \in Int
  BY <1>1
<1>4. \A x \in Nodes : x # n => g[x] = f[x]
  BY <1>2
<1>5. f[n] = Stands(n) * num_telemetry_aggregated[n] /\ g[n] = Stands(n) * c
  BY <1>2
<1>6. Stands(n) * c \in Int
  BY <1>1
<1>7. Begun = SumFunctionOnSet(f, Nodes) /\ Begun' = SumFunctionOnSet(g, Nodes)
  BY DEF Begun, SumFunction
<1> HIDE DEF f, g
<1>8. g[n] \in Int
  BY <1>5, <1>6
<1>9. SumFunctionOnSet(g, Nodes) = SumFunctionOnSet(f, Nodes) - f[n] + g[n]
  BY <1>1, <1>3, <1>4, <1>8, SumChanged
<1> QED BY <1>5, <1>7, <1>9

-----------------------------------------------------------------------------
(* What a step does to the measurements under way, begun and on the disk.  *)

\* A measurement that ends in a node is in the aggregate it has begun, in the
\* one that goes on up, or in the one that goes on the disk.
LEMMA AggregateKeeps ==
  ASSUME NetworkInv, NEW n, NEW job, AtNode(n, job), FinishNode(n, job), FinishTelemetry(n, job)
  PROVE  UnderWay(Measurements)' + Begun' + Stands(Central) * TelemetryAggregation[CENTRAL] * AtDisk(TELEMETRY)'
           = UnderWay(Measurements) + Begun + Stands(Central) * TelemetryAggregation[CENTRAL] * AtDisk(TELEMETRY)
<1> DEFINE w == Measurements
           U == UnderWay(w)
           B == Begun
           Q == AtDisk(TELEMETRY)
           K == Stands(Central) * TelemetryAggregation[CENTRAL]
           S == Stands(n)
           c == num_telemetry_aggregated[n]
           max == TelemetryAggregation[Type(n)]
           p == [to |-> n, job |-> job]
           q == [to |-> Upper[n], job |-> Job(TELEMETRY, NONE, NONE)]
           full == Full(c, max)
           x == IF full /\ Type(n) # CENTRAL THEN w[q] ELSE 0
           y == IF full /\ Type(n) = CENTRAL /\ TELEMETRY = TELEMETRY THEN 1 ELSE 0
           Sc == S * c
           SC == S * Count(c, max)
<1>1. /\ JobsInv /\ CountsInv /\ UnderWayInv /\ Weighs(w, Place) /\ n \in Nodes /\ p \in Place
      /\ p.job = job /\ p.to = n /\ q.job.type = TELEMETRY /\ q.to = Upper[n]
      /\ \A m \in Place : w[m] = IF m.job.type = TELEMETRY THEN Stands(m.to) ELSE 0
  BY MeasurementsWeigh, NodePlace, NodeJob, Sent DEF NetworkInv, JobsInv
<1>2. U \in Int /\ B \in Int /\ S \in Int /\ Q \in Int /\ stored[TELEMETRY] \in Int
  BY <1>1, UnderWayType, BegunType, OnDiskType, TypesOfJobs DEF CountsInv, AtDisk, OnDisk
<1>3. c \in Nat /\ max \in Nat \ {0} /\ c < max
  BY <1>1, AggregationType DEF CountsInv
<1>4. K \in Int
  BY StandsIs, CentralNode, Shape, AggregationAssumption
<1>5. w[p] = S
  BY <1>1 DEF FinishTelemetry
<1>6. U' = U - w[p] + x
  BY <1>1, TelemetryEffect
<1>7. Q' = Q + y
  <2>1. OnDisk(TELEMETRY)' = OnDisk(TELEMETRY) + y
    BY <1>1, TelemetryEffect
  <2>2. stored' = stored
    BY DEF FinishNode
  <2>3. OnDisk(TELEMETRY) \in Int /\ y \in Int
    BY <1>1, OnDiskType
  <2> HIDE DEF y
  <2> QED BY <1>2, <2>1, <2>2, <2>3 DEF AtDisk, OnDisk
<1>8. Count(c, max) \in Nat /\ num_telemetry_aggregated' = [num_telemetry_aggregated EXCEPT ![n] = Count(c, max)]
  BY <1>3 DEF FinishTelemetry, Count
<1>9. B' = B - Sc + SC
  BY <1>1, <1>8, BegunChanged
<1>10. S * (c + 1) = Sc + S /\ Sc \in Int
  BY <1>2, <1>3, Distributes
<1>11. CASE ~full
  <2>1. x = 0 /\ y = 0 /\ SC = S * (c + 1)
    BY <1>11 DEF Count
  <2> HIDE DEF w, U, B, Q, K, S, p, q, full, x, y, Sc, SC, c, max
  <2>2. Q' = Q
    BY <1>2, <1>7, <2>1
  <2>3. K * Q' = K * Q /\ K * Q \in Int
    BY <1>2, <1>4, <2>2
  <2> DEFINE KQ == K * Q
  <2> HIDE DEF KQ
  <2>4. U' + B' + KQ = U + B + KQ
    BY <1>2, <1>5, <1>6, <1>9, <1>10, <2>1, <2>3 DEF KQ
  <2> QED BY <2>3, <2>4 DEF KQ, U, B, Q, K, w
<1>12. CASE full
  <2>1. SC = 0 /\ c + 1 = max
    BY <1>2, <1>3, <1>12 DEF Count, Full
  <2>2. CASE Type(n) # CENTRAL
    <3>1. q \in Place
      BY <1>1, <2>2, UpPlace, JobType, TypesOfJobs DEF Ends
    <3>2. x = S * (c + 1) /\ y = 0
      BY <1>1, <1>12, <2>1, <2>2, <3>1, StandsIs
    <3> HIDE DEF w, U, B, Q, K, S, p, q, full, x, y, Sc, SC, c, max
    <3>3. Q' = Q
      BY <1>2, <1>7, <3>2
    <3>4. K * Q' = K * Q /\ K * Q \in Int
      BY <1>2, <1>4, <3>3
    <3> DEFINE KQ == K * Q
    <3> HIDE DEF KQ
    <3>5. U' + B' + KQ = U + B + KQ
      BY <1>2, <1>5, <1>6, <1>9, <1>10, <2>1, <3>2, <3>4 DEF KQ
    <3> QED BY <3>4, <3>5 DEF KQ, U, B, Q, K, w
  <2>3. CASE Type(n) = CENTRAL
    <3>1. n = Central /\ K = S * (c + 1)
      BY <1>1, <2>1, <2>3, CentralNode
    <3>2. x = 0 /\ y = 1
      BY <1>12, <2>3
    <3> HIDE DEF w, U, B, Q, K, S, p, q, full, x, y, Sc, SC, c, max
    <3>3. K * (Q + 1) = K * Q + K /\ K * Q \in Int
      BY <1>2, <1>4, Distributes
    <3> DEFINE KQ == K * Q
    <3>4. K * Q' = KQ + K
      BY <1>7, <3>2, <3>3
    <3>5. KQ \in Int
      BY <3>3
    <3> HIDE DEF KQ
    <3>6. U' + B' + (KQ + K) = U + B + KQ
      BY <1>2, <1>4, <1>5, <1>6, <1>9, <1>10, <2>1, <3>1, <3>2, <3>5
    <3> QED BY <3>4, <3>6 DEF KQ, U, B, Q, K, w
  <2> QED BY <2>2, <2>3
<1> QED BY <1>11, <1>12

\* Nothing else that a node does touches a measurement.
LEMMA OthersKeep ==
  ASSUME NetworkInv, NEW n, NEW job, AtNode(n, job), FinishNode(n, job), ~FinishTelemetry(n, job)
  PROVE  /\ UnderWay(Measurements)' = UnderWay(Measurements)
         /\ Begun' = Begun /\ AtDisk(TELEMETRY)' = AtDisk(TELEMETRY)
<1> DEFINE w == Measurements
           U == UnderWay(w)
           D == OnDisk(TELEMETRY)
           p == [to |-> n, job |-> job]
<1>1. /\ Weighs(w, Place) /\ \A m \in Place : w[m] = IF m.job.type = TELEMETRY THEN Stands(m.to) ELSE 0
      /\ JobsInv /\ U \in Int /\ D \in Int
      /\ n \in Nodes /\ n \in Element /\ p \in Place /\ p.job.type = job.type
  BY MeasurementsWeigh, UnderWayType, OnDiskType, NodeJob, NodePlace DEF NetworkInv, JobsInv
<1>2. ASSUME job.type # TELEMETRY PROVE w[p] = 0
  BY <1>1, <1>2
<1>3. ASSUME NEW type \in JobTypes, type # TELEMETRY, NEW s \in Ends, Type(n) # CENTRAL
      PROVE  w[[to |-> Upper[n], job |-> Job(type, s, NONE)]] = 0
  <2>1. Job(type, s, NONE) \in JobInfo
    BY JobType DEF Ends
  <2>2. [to |-> Upper[n], job |-> Job(type, s, NONE)] \in Place
    BY <1>1, <1>3, <2>1, UpPlace
  <2>3. Job(type, s, NONE).type # TELEMETRY
    BY <1>3, Sent
  <2> QED BY <1>1, <2>2, <2>3
<1>4. ASSUME NEW a \in Of(ACTUATOR), NextHop(n, a) # NONE
      PROVE  w[[to |-> NextHop(n, a), job |-> Job(COMMAND, NONE, a)]] = 0
  <2>1. [to |-> NextHop(n, a), job |-> Job(COMMAND, NONE, a)] \in Place
    BY <1>1, <1>4, NextPlace
  <2>2. Job(COMMAND, NONE, a).type # TELEMETRY
    BY Sent, NamesDiffer
  <2> QED BY <1>1, <2>1, <2>2
<1> HIDE DEF w, p
<1>5. stored' = stored
  BY DEF FinishNode
<1>6. U' = U /\ D' = D /\ num_telemetry_aggregated' = num_telemetry_aggregated
  <2>1. CASE CommandFromTransition(n, job)
    <3>1. job.type = TRANSITION /\ num_telemetry_aggregated' = num_telemetry_aggregated
      BY <2>1 DEF CommandFromTransition
    <3>2. w[p] = 0 /\ Weight(Reply(n, job), w) = 0
      BY <1>1, <1>2, <3>1, NamesDiffer, ReplyNoMeasurement DEF w
    <3>3. PICK a \in Selected(n), x \in {0, w[[to |-> Upper[n], job |-> Job(BATCH_DATA, NONE, NONE)]]} :
            /\ x # 0 => Type(n) # CENTRAL
            /\ U' = U - w[p] + Weight(Reply(n, job), w) + Weight(SendCommand(n, a), w) + x
      BY <1>1, <2>1, CommandEffect DEF w, p
    <3>4. x = 0
      BY <1>3, <3>3, TypesOfJobs, NamesDiffer DEF Ends
    <3>5. Weight(SendCommand(n, a), w) = 0
      BY <1>1, <1>4, CommandPosted DEF Below
    <3>6. D' = D
      BY <1>1, <2>1, CommandEffect, NamesDiffer
    <3> HIDE DEF U
    <3> QED BY <1>1, <3>1, <3>2, <3>3, <3>4, <3>5, <3>6
  <2>2. CASE ForwardTransition(n, job)
    <3>1. job.type = TRANSITION /\ num_telemetry_aggregated' = num_telemetry_aggregated
      BY <2>2 DEF ForwardTransition
    <3>2. w[p] = 0 /\ Weight(Reply(n, job), w) = 0
      BY <1>1, <1>2, <3>1, NamesDiffer, ReplyNoMeasurement DEF w
    <3> DEFINE x == IF Type(n) = CENTRAL THEN 0
                    ELSE w[[to |-> Upper[n], job |-> Job(TRANSITION, n, NONE)]]
    <3>3. U' = U - w[p] + Weight(Reply(n, job), w) + x
      BY <1>1, <2>2, ForwardEffect DEF w, p
    <3>4. x = 0
      BY <1>1, <1>3, TypesOfJobs, NamesDiffer DEF Ends
    <3>5. D' = D + 0
      BY <1>1, <2>2, ForwardEffect, NamesDiffer
    <3> HIDE DEF x, U, D
    <3> QED BY <1>1, <3>1, <3>2, <3>3, <3>4, <3>5
  <2>3. CASE FinishCommand(n, job)
    <3> DEFINE a == job.device_destination
    <3>1. job.type = COMMAND /\ num_telemetry_aggregated' = num_telemetry_aggregated
      BY <2>3 DEF FinishCommand
    <3>2. w[p] = 0
      BY <1>2, <3>1, NamesDiffer
    <3>3. /\ a \in Of(ACTUATOR) /\ D' = D
          /\ U' = U - w[p] + w[[to |-> NextHop(n, a), job |-> Job(COMMAND, NONE, a)]]
      BY <1>1, <2>3, PassEffect DEF w, p
    <3>4. Sound(p)
      BY <1>1, NodeJob DEF p
    <3>5. NextHop(n, a) # NONE
      BY <1>1, <3>1, <3>3, <3>4, NamesDiffer DEF Sound, OnPath, Nodes, Of, p
    <3>6. w[[to |-> NextHop(n, a), job |-> Job(COMMAND, NONE, a)]] = 0
      BY <1>4, <3>3, <3>5
    <3> QED BY <1>1, <3>1, <3>2, <3>3, <3>6
  <2>4. CASE FinishBatchData(n, job)
    <3>1. job.type = BATCH_DATA /\ num_telemetry_aggregated' = num_telemetry_aggregated
      BY <2>4 DEF FinishBatchData
    <3>2. w[p] = 0
      BY <1>2, <3>1, NamesDiffer
    <3> DEFINE x == IF Full(num_batch_aggregated[n], BatchAggregation[Type(n)]) /\ Type(n) # CENTRAL
                    THEN w[[to |-> Upper[n], job |-> Job(BATCH_DATA, NONE, NONE)]] ELSE 0
    <3>3. U' = U - w[p] + x
      BY <1>1, <2>4, BatchEffect DEF w, p
    <3>4. x = 0
      BY <1>3, TypesOfJobs, NamesDiffer DEF Ends
    <3>5. D' = D + 0
      BY <1>1, <2>4, BatchEffect, NamesDiffer
    <3> HIDE DEF x, U, D
    <3> QED BY <1>1, <3>1, <3>2, <3>3, <3>4, <3>5
  <2>5. CASE FinishReply(n, job)
    <3>1. job.type = REPLY /\ num_telemetry_aggregated' = num_telemetry_aggregated
      BY <2>5 DEF FinishReply
    <3>2. w[p] = 0
      BY <1>2, <3>1, NamesDiffer
    <3>3. U' = U - w[p] /\ D' = D
      BY <1>1, <2>5, AnswerEffect DEF w, p
    <3> QED BY <1>1, <3>1, <3>2, <3>3
  <2> QED BY <2>1, <2>2, <2>3, <2>4, <2>5 DEF FinishNode
<1>7. Begun' = Begun
  BY <1>6 DEF Begun
<1>8. AtDisk(TELEMETRY)' = AtDisk(TELEMETRY)
  <2>1. D' + stored[TELEMETRY]' = D + stored[TELEMETRY]
    BY <1>5, <1>6
  <2> QED BY <2>1 DEF AtDisk, OnDisk
<1> QED BY <1>6, <1>7, <1>8 DEF w

\* What is carried to the disk, or written, stays counted.
LEMMA CarriedToDisk ==
  ASSUME NetworkInv, RoutingInv', Carry, NEW t \in JobTypes
  PROVE  AtDisk(t)' = AtDisk(t)
<1> DEFINE D == OnDisk(t)
           s == stored[t]
<1>1. JobsInv /\ D \in Int /\ s \in Int /\ stored \in [JobTypes -> Int] /\ Weighs(Commands, Place)
  BY OnDiskType, CommandsWeigh DEF NetworkInv, JobsInv, CountsInv
<1>2. ASSUME NEW job \in Inside(Disk), FinishDisk(job) PROVE D' + s' = D + s
  <2> DEFINE k == IF job.type = t THEN 1 ELSE 0
  <2>1. D' = D - k /\ job.type \in JobTypes
    BY <1>1, <1>2, FinishDiskEffect
  <2>2. s' = s + k
    BY <1>1, <1>2, <2>1 DEF FinishDisk
  <2>3. k \in Int
    OBVIOUS
  <2> HIDE DEF D, s, k
  <2> QED BY <1>1, <2>1, <2>2, <2>3
<1>3. ASSUME ~\E job \in Inside(Disk) : FinishDisk(job) PROVE D' = D /\ s' = s
  <2>1. stored' = stored
    BY <1>3 DEF Carry, Arrive, ArriveDisk, UnchangedByArrival, FinishLanOut, FinishLanIn
  <2>2. D' = D
    BY <1>1, <1>3, ArriveEffect, ArriveDiskEffect, LanOutEffect, LanInEffect DEF Carry
  <2> QED BY <2>1, <2>2
<1>4. D' + s' = D + s
  BY <1>2, <1>3
<1> QED BY <1>4 DEF AtDisk, OnDisk

\* What a step leaves of the difference between the measurements made and those
\* that are accounted for.
LEMMA TelemetryStays ==
  ASSUME NetworkInv, NetworkInv', Steps
  PROVE  generated'[TELEMETRY] - (UnderWay(Measurements)' + Begun'
             + Stands(Central) * TelemetryAggregation[CENTRAL] * AtDisk(TELEMETRY)')
           = generated[TELEMETRY] - (UnderWay(Measurements) + Begun
               + Stands(Central) * TelemetryAggregation[CENTRAL] * AtDisk(TELEMETRY))
<1> DEFINE w == Measurements
           U == UnderWay(w)
           K == Stands(Central) * TelemetryAggregation[CENTRAL]
           Q == AtDisk(TELEMETRY)
           KQ == K * Q
           g == generated[TELEMETRY]
           All == U + Begun + K * Q
<1>1. /\ JobsInv /\ RoutingInv' /\ CountsInv /\ Weighs(w, Place)
      /\ \A m \in Place : w[m] = IF m.job.type = TELEMETRY THEN Stands(m.to) ELSE 0
  BY MeasurementsWeigh DEF NetworkInv, JobsInv
<1>2. /\ U \in Int /\ Begun \in Int /\ g \in Int /\ Q \in Int /\ KQ \in Int
  <2>1. U \in Int /\ Begun \in Int /\ g \in Int
    BY <1>1, UnderWayType, BegunType, TypesOfJobs DEF JobsInv, CountsInv
  <2>2. Q \in Int
    BY <1>1, OnDiskType, TypesOfJobs DEF JobsInv, CountsInv, AtDisk, OnDisk
  <2>3. K \in Int
    BY StandsIs, CentralNode, Shape, AggregationAssumption
  <2> HIDE DEF K, Q
  <2> QED BY <2>1, <2>2, <2>3
<1>3. ASSUME U' = U, Begun' = Begun, Q' = Q PROVE All' = All
  BY <1>3
<1>4. ASSUME NEW d \in Of(SENSOR) \cup Of(ACTUATOR), NEW t \in {TELEMETRY, TRANSITION}, Generate(d, t)
      PROVE  g' - All' = g - All
  <2> DEFINE p == [to |-> Upper[d], job |-> Job(t, NONE, NONE)]
             k == IF t = TELEMETRY THEN 1 ELSE 0
  <2>1. U' = U + w[p]
    BY <1>1, <1>4, GenerateEffect
  <2>2. p \in Place /\ p.job.type = t /\ p.to = Upper[d] /\ Upper[d] \in Of(LAN)
    BY Shape, JobType, TypesOfJobs, Sent DEF Place, Of, Ends
  <2>3. w[p] = k
    BY <1>1, <2>2, StandsIs
  <2>4. g' = g + k
    BY <1>1, <1>2, <1>4, TypesOfJobs, NamesDiffer DEF Generate, CountsInv
  <2>5. Begun' = Begun /\ Q' = Q
    BY <1>4 DEF Generate, Begun, AtDisk
  <2>6. KQ' = KQ /\ k \in Int
    BY <2>5
  <2> HIDE DEF w, U, Q, p, k, g, K, KQ
  <2>7. g' - (U' + Begun' + KQ') = g - (U + Begun + KQ)
    BY <1>2, <2>1, <2>3, <2>4, <2>5, <2>6
  <2> QED BY <2>7 DEF KQ
<1>5. ASSUME Carry PROVE g' = g /\ All' = All
  <2>1. U' = U
    BY <1>1, <1>5, MeasurementsCarried
  <2>2. Begun' = Begun /\ g' = g
    BY <1>5, CarryKeeps DEF Begun
  <2>3. Q' = Q
    BY <1>1, <1>5, CarriedToDisk, TypesOfJobs
  <2> QED BY <1>3, <2>1, <2>2, <2>3
<1>6. ASSUME NEW n, NEW job, AtNode(n, job), FinishNode(n, job) PROVE g' = g /\ All' = All
  <2>1. g' = g
    BY <1>6 DEF FinishNode
  <2>2. CASE FinishTelemetry(n, job)
    BY <1>6, <2>1, <2>2, AggregateKeeps
  <2>3. CASE ~FinishTelemetry(n, job)
    <3>1. U' = U /\ Begun' = Begun /\ Q' = Q
      BY <1>6, <2>3, OthersKeep
    <3> QED BY <1>3, <2>1, <3>1
  <2> QED BY <2>2, <2>3
<1>7. ASSUME NEW a \in Of(ACTUATOR), NEW job \in Inside(Queue(a)), FinishActuator(a, job)
      PROVE  g' = g /\ All' = All
  <2> DEFINE p == [to |-> a, job |-> job]
  <2>1. p \in Place /\ p.job.type = COMMAND /\ U' = U - w[p] /\ OnDisk(TELEMETRY)' = OnDisk(TELEMETRY)
    BY <1>1, <1>7, ActuatorEffect
  <2>2. w[p] = 0
    BY <1>1, <2>1, NamesDiffer
  <2>3. stored' = stored /\ g' = g /\ Begun' = Begun
    BY <1>7 DEF FinishActuator, UnchangedByFinish, Begun
  <2>4. Q' = Q
    BY <2>1, <2>3 DEF AtDisk, OnDisk
  <2> HIDE DEF w, U, p, Q
  <2>5. U' = U
    BY <1>2, <2>1, <2>2
  <2> QED BY <1>3, <2>3, <2>4, <2>5
<1>8. g' - All' = g - All
  <2>1. CASE \E d \in Of(SENSOR) \cup Of(ACTUATOR), t \in {TELEMETRY, TRANSITION} : Generate(d, t)
    BY <1>4, <2>1
  <2>2. CASE g' = g /\ All' = All
    BY <2>2
  <2> QED BY <1>5, <1>6, <1>7, <2>1, <2>2, StepsAre
<1> QED BY <1>8

-----------------------------------------------------------------------------
(* What is made is under way or has ended: the books of the network.       *)

LEMMA ZeroSum ==
  ASSUME NEW S, IsFiniteSet(S), NEW f, \A x \in S : f[x] = 0
  PROVE  SumFunctionOnSet(f, S) = 0
<1>1. {} \in SUBSET S /\ S \ {} = S
  OBVIOUS
<1>2. SumFunctionOnSet(f, S) = SumFunctionOnSet(f, {})
  BY <1>1, SumPadded
<1> QED BY <1>2, SumEmpty

LEMMA NothingAtFirst ==
  ASSUME Init
  PROVE  /\ \A w : UnderWay(w) = 0
         /\ \A t \in JobTypes : AtDisk(t) = 0
         /\ Begun = 0
<1>1. \A w : Weight(EmptyBag, w) = 0
  BY WeightEmpty
<1>2. ASSUME NEW w PROVE UnderWay(w) = 0
  <2> DEFINE f == [s \in OnWay |-> Weight(station[s], At(s[1], w))]
  <2>1. \A s \in OnWay : f[s] = 0
    BY <1>1 DEF Init, OnWay
  <2>2. Held(w) = SumFunctionOnSet(f, OnWay)
    BY DEF Held
  <2> HIDE DEF f
  <2>3. Held(w) = 0
    BY <2>1, <2>2, FinitelyManyStations, ZeroSum
  <2> QED BY <1>1, <2>3, UnderWayIs DEF Init
<1>3. \A t \in JobTypes : AtDisk(t) = 0
  BY <1>1, StationsOnWay DEF Init, AtDisk
<1>4. Begun = 0
  <2> DEFINE f == [n \in Nodes |-> Stands(n) * num_telemetry_aggregated[n]]
  <2>1. ASSUME NEW n \in Nodes PROVE f[n] = 0
    <3>1. Stands(n) \in Int /\ num_telemetry_aggregated[n] = 0
      BY StandsIs, Shape DEF Init
    <3>2. Stands(n) * num_telemetry_aggregated[n] = 0
      BY <3>1
    <3> QED BY <3>2
  <2>2. IsFiniteSet(Nodes) /\ Begun = SumFunctionOnSet(f, Nodes)
    BY OneCentralAssumption, FS_Subset DEF Nodes, Of, Begun, SumFunction
  <2> HIDE DEF f
  <2> QED BY <2>1, <2>2, ZeroSum
<1> QED BY <1>2, <1>3, <1>4

\* The commands are balanced only if each node that issues one has an actuator
\* below.
Books ==
  /\ NodesReachActuators => CommandsConserved
  /\ OneReplyPerTransition
  /\ TelemetryConserved

LEMMA BooksType ==
  ASSUME NetworkInv
  PROVE  /\ UnderWay(Commands) \in Int /\ UnderWay(Measurements) \in Int
         /\ \A n \in Nodes : UnderWay(Awaited(n)) \in Int
         /\ \A t \in JobTypes : AtDisk(t) \in Int
<1>1. UnderWayInv /\ CountsInv
  BY DEF NetworkInv, JobsInv
<1>2. UnderWay(Commands) \in Int /\ UnderWay(Measurements) \in Int
  BY <1>1, UnderWayType, CommandsWeigh, MeasurementsWeigh
<1>3. ASSUME NEW n \in Nodes PROVE UnderWay(Awaited(n)) \in Int
  BY <1>1, UnderWayType, AwaitedWeigh DEF OfJobs
<1>4. ASSUME NEW t \in JobTypes PROVE AtDisk(t) \in Int
  <2>1. OnDisk(t) \in Int /\ stored[t] \in Int
    BY <1>1, OnDiskType DEF CountsInv
  <2>2. OnDisk(t) + stored[t] \in Int
    BY <2>1
  <2> QED BY <2>2 DEF AtDisk, OnDisk
<1> QED BY <1>2, <1>3, <1>4

\* The same of the state after a step.
LEMMA NextTypes ==
  ASSUME NetworkInv'
  PROVE  /\ \A w : Weighs(w, Place) => UnderWay(w)' \in Int
         /\ \A t : OnDisk(t)' \in Int
         /\ Begun' \in Int
<1>1. BagOver(messages', Place) /\ BagOver(disk_messages', JobInfo)
  BY DEF NetworkInv, JobsInv, UnderWayInv, Posted, Filed
<1>2. \A s \in Stations : BagOver(station'[s], JobInfo)
  BY DEF NetworkInv, JobsInv, UnderWayInv, StationsIn, Filed
<1>3. ASSUME NEW w, Weighs(w, Place) PROVE UnderWay(w)' \in Int
  <2> DEFINE f == [s \in OnWay |-> Weight(station'[s], At(s[1], w))]
  <2>1. ASSUME NEW s \in OnWay PROVE f[s] \in Int
    <3>1. s[1] \in Element /\ s \in Stations
      BY StationsOnWay, <2>1 DEF OnWay
    <3>2. Weighs(At(s[1], w), JobInfo) /\ BagOver(station'[s], JobInfo)
      BY <1>2, <1>3, <3>1, AtWeighs
    <3>3. Weight(station'[s], At(s[1], w)) \in Int
      BY <3>2, WeightType
    <3> QED BY <3>3
  <2>2. Held(w)' = SumFunctionOnSet(f, OnWay)
    BY DEF Held
  <2> HIDE DEF f
  <2>3. Held(w)' \in Int
    BY <2>1, <2>2, FinitelyManyStations, SumType
  <2>4. Weight(messages', w) \in Int
    BY <1>1, <1>3, WeightType
  <2> QED BY <2>3, <2>4, UnderWayIs
<1>4. ASSUME NEW t PROVE OnDisk(t)' \in Int
  <2>1. Weighs(OfType(t), JobInfo) /\ Disk \in Stations
    BY OfTypeWeighs, StationsOnWay
  <2>2. Weight(disk_messages', OfType(t)) \in Int /\ Weight(station'[Disk], OfType(t)) \in Int
    BY <1>1, <1>2, <2>1, WeightType
  <2> QED BY <2>2 DEF OnDisk
<1>5. Begun' \in Int
  <2> DEFINE f == [n \in Nodes |-> Stands(n) * num_telemetry_aggregated'[n]]
  <2>1. ASSUME NEW n \in Nodes PROVE f[n] \in Int
    <3>1. Stands(n) \in Int /\ num_telemetry_aggregated'[n] \in Int
      BY StandsIs, Shape DEF NetworkInv, CountsInv
    <3>2. Stands(n) * num_telemetry_aggregated'[n] \in Int
      BY <3>1
    <3> QED BY <3>2
  <2>2. IsFiniteSet(Nodes) /\ Begun' = SumFunctionOnSet(f, Nodes)
    BY OneCentralAssumption, FS_Subset DEF Nodes, Of, Begun, SumFunction
  <2> HIDE DEF f
  <2> QED BY <2>1, <2>2, SumType
<1> QED BY <1>3, <1>4, <1>5

\* At first the books are empty.
LEMMA BooksInitially ==
  ASSUME Init
  PROVE  Books
<1>1. CommandsConserved
  <2>1. UnderWay(Commands) = 0
    BY NothingAtFirst
  <2> QED BY <2>1 DEF Init, CommandsConserved
<1>2. OneReplyPerTransition
  <2>1. \A n \in Nodes : UnderWay(Awaited(n)) = 0
    BY NothingAtFirst
  <2>2. AtDisk(TRANSITION) = 0 /\ Central \in Nodes
    BY NothingAtFirst, TypesOfJobs, CentralNode
  <2> QED BY <2>1, <2>2 DEF Init, OneReplyPerTransition
<1>3. TelemetryConserved
  <2> DEFINE K == Stands(Central) * TelemetryAggregation[CENTRAL]
  <2>1. UnderWay(Measurements) = 0 /\ Begun = 0 /\ AtDisk(TELEMETRY) = 0 /\ generated[TELEMETRY] = 0
    BY NothingAtFirst, TypesOfJobs DEF Init
  <2>2. K \in Int
    BY StandsIs, CentralNode, Shape, AggregationAssumption
  <2> HIDE DEF K
  <2>3. generated[TELEMETRY] = UnderWay(Measurements) + Begun + K * AtDisk(TELEMETRY)
    BY <2>1, <2>2
  <2> QED BY <2>3 DEF TelemetryConserved, Begun, K
<1> QED BY <1>1, <1>2, <1>3 DEF Books

\* A step keeps them balanced.
LEMMA BooksKept ==
  ASSUME NetworkInv, NetworkInv', Books, Steps
  PROVE  Books'
<1>1. ASSUME NodesReachActuators PROVE CommandsConserved'
  <2> DEFINE U == UnderWay(Commands)
             V == UnderWay(Commands)'
  <2>1. commands.issued = commands.done + U
    BY <1>1 DEF Books, CommandsConserved
  <2>2. commands'.issued - commands'.done - V = commands.issued - commands.done - U
    BY <1>1, CommandsStay
  <2>3. /\ U \in Int /\ V \in Int
        /\ commands \in [issued : Int, done : Int] /\ commands' \in [issued : Int, done : Int]
    BY BooksType, CommandsWeigh, NextTypes DEF NetworkInv, CountsInv
  <2> HIDE DEF U, V
  <2>4. commands'.issued = commands'.done + V
    BY <2>1, <2>2, <2>3
  <2> QED BY <2>4 DEF V, CommandsConserved
<1>2. OneReplyPerTransition'
  <2>1. ASSUME NEW n \in Nodes \ {Central} PROVE forwarded'[n] = answered'[n] + UnderWay(Awaited(n))'
    <3> DEFINE U == UnderWay(Awaited(n))
               V == UnderWay(Awaited(n))'
               f == forwarded[n]
               g == forwarded'[n]
               a == answered[n]
               b == answered'[n]
    <3>1. f = a + U
      BY DEF Books, OneReplyPerTransition
    <3>2. g - b - V = f - a - U
      BY AwaitedStay
    <3>3. f \in Int /\ a \in Int /\ g \in Int /\ b \in Int
      BY DEF NetworkInv, CountsInv
    <3>4. U \in Int
      BY BooksType
    <3>5. V \in Int
      BY AwaitedWeigh, NextTypes DEF OfJobs
    <3> HIDE DEF U, V, f, g, a, b
    <3>6. g = b + V
      BY <3>1, <3>2, <3>3, <3>4, <3>5
    <3> QED BY <3>6 DEF V, g, b
  <2>2. forwarded'[Central] = AtDisk(TRANSITION)'
    <3> DEFINE D == OnDisk(TRANSITION)
               E == OnDisk(TRANSITION)'
               s == stored[TRANSITION]
               t == stored'[TRANSITION]
    <3>1. forwarded[Central] = D + s
      BY DEF Books, OneReplyPerTransition, AtDisk, OnDisk
    <3>2. forwarded'[Central] - E - t = forwarded[Central] - D - s
      BY CentralStays
    <3>3. forwarded[Central] \in Int /\ forwarded'[Central] \in Int /\ s \in Int /\ t \in Int
      BY CentralNode, TypesOfJobs DEF NetworkInv, CountsInv
    <3>4. D \in Int
      BY OnDiskType DEF NetworkInv, JobsInv
    <3>5. E \in Int
      BY NextTypes
    <3> HIDE DEF D, E, s, t
    <3>6. forwarded'[Central] = E + t
      BY <3>1, <3>2, <3>3, <3>4, <3>5
    <3> QED BY <3>6 DEF E, t, AtDisk, OnDisk
  <2> QED BY <2>1, <2>2 DEF OneReplyPerTransition
<1>3. TelemetryConserved'
  <2> DEFINE K == Stands(Central) * TelemetryAggregation[CENTRAL]
             R == AtDisk(TELEMETRY)'
             A == UnderWay(Measurements) + Begun + K * AtDisk(TELEMETRY)
             B == UnderWay(Measurements)' + Begun' + K * R
             g == generated[TELEMETRY]
             h == generated'[TELEMETRY]
  <2>1. g = A
    BY DEF Books, TelemetryConserved, Begun
  <2>2. h - B = g - A
    BY TelemetryStays
  <2>3. g \in Int /\ h \in Int
    BY TypesOfJobs DEF NetworkInv, CountsInv
  <2>4. B \in Int
    <3>1. UnderWay(Measurements)' \in Int /\ Begun' \in Int
      BY NextTypes, MeasurementsWeigh
    <3>2. K \in Int
      BY StandsIs, CentralNode, Shape, AggregationAssumption
    <3>3. R \in Int
      <4>1. OnDisk(TELEMETRY)' \in Int /\ stored'[TELEMETRY] \in Int
        BY NextTypes, TypesOfJobs DEF NetworkInv, CountsInv
      <4>2. OnDisk(TELEMETRY)' + stored'[TELEMETRY] \in Int
        BY <4>1
      <4> QED BY <4>2 DEF AtDisk, OnDisk
    <3> HIDE DEF K, R
    <3> QED BY <3>1, <3>2, <3>3
  <2>5. h = B
    <3> HIDE DEF A, B, g, h
    <3>1. A \in Int
      BY <2>1, <2>3
    <3> QED BY <2>1, <2>2, <2>3, <2>4, <3>1
  <2> QED BY <2>5 DEF TelemetryConserved, Begun
<1> QED BY <1>1, <1>2, <1>3 DEF Books

\* NetworkInv with the books is inductive.
AccountsInv == NetworkInv /\ Books

LEMMA AccountsAlways == Spec => []AccountsInv
<1>1. Init => AccountsInv
  BY NetworkInitially, BooksInitially DEF AccountsInv
<1>2. ASSUME AccountsInv, [Next]_vars PROVE AccountsInv'
  <2>1. NetworkInv'
    BY <1>2, NetworkAlways DEF AccountsInv
  <2>2. CASE Steps
    BY <1>2, <2>1, <2>2, BooksKept DEF AccountsInv
  <2>3. CASE UNCHANGED Contents
    <3>1. UNCHANGED <<commands, forwarded, answered, generated, num_telemetry_aggregated, stored,
                      disk_messages, messages, station>>
      BY <2>3 DEF Contents
    <3>2. (NodesReachActuators => CommandsConserved') /\ OneReplyPerTransition' /\ TelemetryConserved'
      BY <1>2, <3>1 DEF AccountsInv, Books, CommandsConserved, OneReplyPerTransition, TelemetryConserved,
                        UnderWay, AtDisk
    <3> QED BY <2>1, <3>2 DEF AccountsInv, Books
  <2>4. CASE UNCHANGED vars
    BY <2>3, <2>4 DEF vars, Contents
  <2> QED BY <1>2, <2>2, <2>3, <2>4, NextSteps
<1> QED BY <1>1, <1>2, PTL DEF Spec

\* Every command issued is under way or done, in any tree whose nodes all reach an
\* actuator: none is lost on the way down and none is done twice
\* (get_id_random_actuator, send_command, arrive_wan, the LAN's inward queue).
THEOREM CommandsAlwaysConserved ==
  ASSUME NodesReachActuators
  PROVE  Spec => []CommandsConserved
<1>1. AccountsInv => CommandsConserved
  BY DEF AccountsInv, Books
<1> QED BY <1>1, AccountsAlways, PTL

\* What a node has passed up is answered once, to the node that asked, and what
\* the central node has taken is on its disk once (send_reply, save_data_on_disk).
THEOREM AlwaysOneReply == Spec => []OneReplyPerTransition
<1>1. AccountsInv => OneReplyPerTransition
  BY DEF AccountsInv, Books
<1> QED BY <1>1, AccountsAlways, PTL

\* No measurement is lost or counted twice, whatever the aggregation of the
\* levels (send_aggregated_data).
THEOREM TelemetryAlwaysConserved == Spec => []TelemetryConserved
<1>1. AccountsInv => TelemetryConserved
  BY DEF AccountsInv, Books
<1> QED BY <1>1, AccountsAlways, PTL

============================================================================
