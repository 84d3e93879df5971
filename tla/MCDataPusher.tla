---------------------------- MODULE MCDataPusher ----------------------------
(***************************************************************************)
(* DataPusher for TLC: one process that serves many requests, under        *)
(* fairness, and two processes that race, time out and die.                *)
(***************************************************************************)
EXTENDS DataPusher

CONSTANT FewJobs  \* bound: how many jobs are posted in a race

VARIABLE part

\* The race.
R == INSTANCE DataPusher WITH MaxEdits <- 1, MayStop <- TRUE, MayAge <- TRUE

MCInit == part \in {"sequential", "racing"} /\ Init

Racing == R!Next /\ \A j \in JobIds : j > FewJobs => UNCHANGED jobs[j]

MCNext ==
    /\ UNCHANGED part
    /\ \/ part = "sequential" /\ Sequential
       \/ part = "racing" /\ Racing

\* The process that serves alone, and the service, go on.
MCFairness ==
    /\ WF_vars(part = "sequential" /\ Work(One))
    /\ \A j \in JobIds :
         /\ WF_vars(part = "sequential" /\ Service(j))
         /\ SF_vars(part = "sequential" /\ Hook(One, j))

MCSpec == MCInit /\ [][MCNext]_<<vars, part>> /\ MCFairness

-----------------------------------------------------------------------------
\* What DataPusher promises when one request is served at a time.
Alone(P) == part = "sequential" => P

\* When nothing is going on and the task is said to be complete, the table
\* holds the file; and a resource is not posted again while a job of its is
\* in flight (DataPusher).
TableIsCurrent == Alone(CompleteIsCurrent /\ OneJob)

\* A submission ends: the task does not stay under way for ever
\* (DataPusher).
TaskEnds == (part = "sequential" /\ Skips) ~> ~ Skips
=============================================================================
