----------------------------- MODULE ThreeQueues -----------------------------
(***************************************************************************)
(* The three stations in tandem of three_queues/application.c: ProcessEvent *)
(* and OnGVT of LPs 0, 1 and 2, each with one server and a ring buffer of   *)
(* LEN_QUEUE clients.  Station 0 generates the clients; the delays are      *)
(* exponential, so any of the pending events may be the next one and        *)
(* clients may overtake each other between two stations.                    *)
(***************************************************************************)
EXTENDS Integers, Sequences, Bags, Functions

CONSTANTS LEN_QUEUE,               \* slots of a ring buffer
          TOTAL_NUMBER_OF_EVENTS,  \* completions after which a station agrees to stop
          MaxClients,              \* bound: clients that arrive at station 0
          MaxGvt                   \* bound: calls of OnGVT

ASSUME ThreeQueuesAssumption == LEN_QUEUE \in Nat \ {0} /\ MaxClients \in Nat

Stations == 0..2
MyUpNode == [me \in Stations |-> IF me = 2 THEN -1 ELSE me + 1]

VARIABLES state,     \* what each LP keeps (state_type)
          events,    \* the bag of events scheduled and not yet processed
          halted,    \* OnGVT was true on all LPs at one GVT
          arrived,   \* history: the clients that arrived at each station
          served     \* history: the clients that each station finished
tandem_vars == <<state, events, halted, arrived, served>>

Arrive(me, id) == [to |-> me, type |-> "ARRIVE", id |-> id]
Finish(me) == [to |-> me, type |-> "FINISH"]
Scheduled(set) == SetToBag(set)

NewState == [queue |-> [slot \in 0..LEN_QUEUE - 1 |-> -1],
             index_insert |-> 0, index_remove |-> 0, num_clients |-> 0,
             tot_num_clients |-> 0, sum_all_queue_number |-> 0,
             num_of_sums |-> 0, max_queue_len |-> 0]

TandemInit == /\ state = [me \in Stations |-> NewState]
        /\ events = Scheduled({Arrive(0, 0)})
        /\ halted = FALSE
        /\ arrived = [me \in Stations |-> <<>>]
        /\ served = [me \in Stations |-> <<>>]

\* A bug: the server is started for every client that arrives, busy or not.
MutCausedByArrival(me, id) ==
    {Finish(me)} \cup (IF me = 0 THEN {Arrive(0, id + 1)} ELSE {})

\* A station that was empty starts its server; station 0 schedules the next client.
CausedByArrival(me, id) ==
    (IF state[me].num_clients < 1 THEN {Finish(me)} ELSE {})
        \cup (IF me = 0 THEN {Arrive(0, id + 1)} ELSE {})

\* A bug: the index to insert at wraps one slot early.
MutInserted(s, id) == [s EXCEPT !.queue[s.index_insert] = id,
                                !.index_insert = IF @ + 2 >= LEN_QUEUE THEN 0 ELSE @ + 1,
                                !.num_clients = @ + 1]

Inserted(s, id) == [s EXCEPT !.queue[s.index_insert] = id,
                             !.index_insert = (@ + 1) % LEN_QUEUE,
                             !.num_clients = @ + 1]

ProcessArrive(me, id) ==
    /\ ~halted
    /\ BagIn(Arrive(me, id), events)
    /\ me = 0 => id < MaxClients
    /\ state' = [state EXCEPT ![me] = Inserted(@, id)]
    /\ events' = (events (-) Scheduled({Arrive(me, id)}))
                    (+) Scheduled(CausedByArrival(me, id))
    /\ arrived' = [arrived EXCEPT ![me] = Append(@, id)]
    /\ UNCHANGED <<halted, served>>

Removed(s) == [s EXCEPT !.index_remove = (@ + 1) % LEN_QUEUE,
                        !.num_clients = @ - 1,
                        !.tot_num_clients = @ + 1]

\* The client goes up, unless this is the last station, and the server takes
\* the next one that waits.
CausedByFinish(me, id) ==
    (IF MyUpNode[me] # -1 THEN {Arrive(MyUpNode[me], id)} ELSE {})
        \cup (IF Removed(state[me]).num_clients > 0 THEN {Finish(me)} ELSE {})

ProcessFinish(me) ==
    /\ ~halted
    /\ BagIn(Finish(me), events)
    /\ LET id == state[me].queue[state[me].index_remove]
       IN  /\ state' = [state EXCEPT ![me] = Removed(@)]
           /\ events' = (events (-) Scheduled({Finish(me)}))
                           (+) Scheduled(CausedByFinish(me, id))
           /\ served' = [served EXCEPT ![me] = Append(@, id)]
    /\ UNCHANGED <<halted, arrived>>

Sampled(s) == [s EXCEPT !.sum_all_queue_number = @ + s.num_clients,
                        !.num_of_sums = @ + 1,
                        !.max_queue_len = IF s.num_clients > @ THEN s.num_clients ELSE @]

\* One GVT: OnGVT on every LP; the simulation ends when all of them agree.
OnGVT ==
    /\ ~halted
    /\ state[0].num_of_sums < MaxGvt
    /\ state' = [me \in Stations |-> Sampled(state[me])]
    /\ halted' = \A me \in Stations : state[me].tot_num_clients >= TOTAL_NUMBER_OF_EVENTS
    /\ UNCHANGED <<events, arrived, served>>

TandemNext == \/ \E me \in Stations, id \in 0..MaxClients : ProcessArrive(me, id)
        \/ \E me \in Stations : ProcessFinish(me)
        \/ OnGVT

TandemSpec == TandemInit /\ [][TandemNext]_tandem_vars

------------------------------------------------------------------------------
(* What clients meet, whatever waits at their station. *)

InStation(me) == Len(arrived[me]) - Len(served[me])

\* The client that is served next: the oldest one in the station or, of those
\* that were written to its slot since, the latest.
ServedNext(me) ==
  LET k == Len(served[me]) + 1
  IN  arrived[me][k + LEN_QUEUE * ((InStation(me) - 1) \div LEN_QUEUE)]

\* How often e is scheduled, and the clients on their way to a station.
Pending(e) == IF BagIn(e, events) THEN events[e] ELSE 0
OnTheWay(me) == SumFunction([id \in 0..MaxClients |-> Pending(Arrive(me, id))])

\* Every station works in turn and keeps working: while clients wait it has
\* exactly one FINISH under way, for the client that has waited longest, as
\* long as the ring buffer holds them all; past LEN_QUEUE clients (nothing
\* checks for a full buffer) the client served is the one that overwrote it,
\* while the number of clients at the stations and on their way stays the
\* number of those generated.
ServedInTurn ==
    \A me \in Stations :
      /\ state[me].num_clients = InStation(me)
      /\ Pending(Finish(me)) = (IF InStation(me) > 0 THEN 1 ELSE 0)
      /\ InStation(me) > 0 =>
            state[me].queue[state[me].index_remove] = ServedNext(me)
      /\ me > 0 => Len(served[me - 1]) = Len(arrived[me]) + OnTheWay(me)
==============================================================================
