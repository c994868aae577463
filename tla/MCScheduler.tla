---------------------------- MODULE MCScheduler ----------------------------
EXTENDS Scheduler, TLC

CONSTANTS hourly, daily

MCNextTime ==
  hourly :> [t \in 0..Horizon |-> t + 1] @@ daily :> [t \in 0..Horizon |-> 2 * (t \div 2) + 2]

\* The learner has approved the hourly schedule for good; she may approve,
\* reject and revoke the other at any point.
MCInit == Init /\ sched[hourly].status = "active"
MCNext == Next /\ sched'[hourly].status = "active"
MCSpec == MCInit /\ [][MCNext]_vars /\ Fairness
=============================================================================
