--------------------------- MODULE JobTransitions ---------------------------
(***************************************************************************)
(* The pure state machine of a job: the statuses a job row can have, the   *)
(* durable event types, and the moves that transition() of                 *)
(* jobs/transitions.py accepts.  An event is named by the type under which *)
(* it is appended to job_events; progress counts are left out.             *)
(***************************************************************************)

JobStatus == {"queued", "running", "cancel_requested",
              "succeeded", "failed", "cancelled"}

Terminal == {"succeeded", "failed", "cancelled"}

\* "absent" stands for a job id under which no row has been inserted yet.
NoJob == "absent"

Unfinished == JobStatus \ Terminal

\* The status of a job once an event of each type has been appended.
StatusAfter == [running          |-> "running",
                progress         |-> "running",
                cancel_requested |-> "cancel_requested",
                completed        |-> "succeeded",
                failed           |-> "failed",
                cancelled        |-> "cancelled"]

EventType == DOMAIN StatusAfter

\* The pairs (status, event) that transition() accepts; it raises
\* InvalidTransition on every other pair.
Legal == {<<"queued", "running">>, <<"queued", "cancelled">>,
          <<"running", "progress">>, <<"running", "completed">>,
          <<"running", "failed">>, <<"running", "cancel_requested">>,
          <<"cancel_requested", "cancelled">>}

\* Moves made outside transition(): a cancellation of a job whose dispatch is
\* already finished ends it at once ...
CancelledAtOnce == {<<"running", "cancelled">>}

\* ... and a claim that finds the attempts exhausted fails a job that is still
\* queued.
FailedInQueue == {<<"queued", "failed">>}

StorageMoves == CancelledAtOnce \cup FailedInQueue
=============================================================================
