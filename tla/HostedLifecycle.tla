--------------------------- MODULE HostedLifecycle ---------------------------
(***************************************************************************)
(* What the hosted server promises of every job: the life of JobLifecycle, *)
(* except that one claim may overtake it.  A claim reads the job without a *)
(* lock, and if it finds the attempts exhausted it updates the job by its  *)
(* id alone (storage/postgres_execution.py:32, 59): a job that has just    *)
(* ended, or been asked to cancel, is then ended by this claim.  A job is  *)
(* overtaken once at most after its end, it keeps what it has published,   *)
(* and "cancelled" answers a request.                                      *)
(***************************************************************************)
EXTENDS JobLifecycle

\* Another event has been appended since the one that ended the job.
Overtaken(j) == version[j] > 1 /\ StatusAfter[events[j][version[j] - 1]] \in Terminal

CancellationRequested(j) ==
  \E n \in 1 .. version[j] : events[j][n] = "cancel_requested"

Overtake(j, e) ==
  /\ status[j] # NoJob /\ ~Overtaken(j)
  /\ e = "failed" \/ (e = "cancelled" /\ CancellationRequested(j))
  /\ status' = [status EXCEPT ![j] = StatusAfter[e]]
  /\ version' = [version EXCEPT ![j] = @ + 1]
  /\ events' = [events EXCEPT ![j] = Append(@, e)]
  /\ UNCHANGED published

HostedNext == Next \/ \E j \in Jobs, e \in EventType : Overtake(j, e)

HostedSpec == Init /\ [][HostedNext]_vars
=============================================================================
