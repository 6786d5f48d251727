-------------------------- MODULE QueueStationLaws --------------------------
(***************************************************************************)
(* Operational laws of queueing theory that the counters of a station must *)
(* obey for the printed results (utilisation B/T, response time W/C,       *)
(* throughput C/T, mean population W2/T) to mean what they are called.     *)
(***************************************************************************)
EXTENDS QueueStation, Functions

\* The sum over the types, with what REPLY adds to TRANSITION counted once.
TotalOnce(f) == f[TELEMETRY] + f[TRANSITION] + f[COMMAND] + f[BATCH_DATA]

\* What the area W2 under the number of jobs inside has in excess of the time
\* that completed jobs (W) and jobs still present have spent inside.
AreaBalance ==
  metrics.W2 - TotalOnce(metrics.W)
    - SumFunction([j \in InStation |-> metrics.last_update_ts - j.arrived])

\* The type of every job that leaves in this step is measured.  A job that entered
\* during the transient may leave before any of its type enters after it, and
\* update_metrics then adds the time since the last event to nothing.
LeaversMeasured ==
  \A j \in InStation : Started(metrics, j.type) \/ \E k \in InStation' : k.id = j.id

\* Little's law in its area form: once the transient is over, a step whose leavers
\* are measured adds to the area and to the times spent inside alike (and never
\* uses the value malloc leaves in last_update_ts), so that W2 is wrong at most
\* by what the transient and the unmeasured jobs that stayed on from it left in
\* the balance.  And the cores cannot have been busy (B) for longer than they
\* have existed.
LittlesLaw ==
  [][now' > TransitionTimeLimit /\ LeaversMeasured => AreaBalance' = AreaBalance]_vars

OperationalLaws ==
  /\ LittlesLaw
  /\ [](TotalOnce(metrics.B) <= NumCores * (now - StartTime))

\* Every arrival counted after the transient is counted as a completion when
\* it leaves; C may count jobs that arrived before the transient ended as
\* well, and A never runs ahead of A_post.
CompletionsCoverArrivals ==
  \A t \in JobType :
    LET counted == {j \in InStation : j.type = t /\ j.arrived > TransitionTimeLimit}
    IN  /\ metrics.A_post[t] - Cardinality(counted) <= metrics.C[t]
        /\ metrics.A[t] <= metrics.A_post[t]
        /\ metrics.C[t] > 0 => metrics.start_timestamp[t] <= metrics.actual_timestamp[t]

=============================================================================
