--------------------------- MODULE LocalExecution ---------------------------
(***************************************************************************)
(* Local execution of jobs over one SQLite database: API processes, their  *)
(* supervisor threads (compute/local.py), and one worker process per       *)
(* attempt (worker.py), which meet only in the database                    *)
(* (storage/repositories.py).                                              *)
(*                                                                         *)
(* Every repository method is one BEGIN IMMEDIATE transaction or one       *)
(* query, so each is one atomic step here; between two of them any other   *)
(* process may run.  Expiry times are abstracted to a flag that Expire may *)
(* clear at any moment: renew_execution only keeps a live lease live.      *)
(***************************************************************************)
EXTENDS FiniteSets, JobTables

CONSTANTS Servers,      \* API processes sharing the database
          Limit,        \* max_jobs of the runners
          Managed,      \* stop_workers_on_close
          MaxVersion,   \* bound: no progress is reported at this version
          MaxInterruptions, \* bound: deaths, supervisor failures and shutdowns
          SupervisorMayFail \* may an exception end a supervisor thread?

ASSUME BoundsAssumption == /\ Limit \in Nat \ {0}
                           /\ MaxVersion \in Nat
                           /\ MaxInterruptions \in Nat

ASSUME ModeAssumption == Managed \in BOOLEAN /\ SupervisorMayFail \in BOOLEAN

VARIABLES lease,    \* table execution_leases
          outputs,  \* per job, the attempts whose output file exists
          server,   \* the API processes and their supervisor threads
          interruptions

tables == <<jobRow, artifact, failure, dispatch, lease>>
vars == <<tables, worker, outputs, server, interruptions>>

Down == [api |-> "down", thread |-> "none", claimed |-> {}, children |-> {},
         asked |-> {}]

Init ==
  /\ InitTables
  /\ lease = [j \in Jobs |-> [attempts |-> 0, live |-> FALSE]]
  /\ outputs = [j \in Jobs |-> {}]
  /\ server = [s \in Servers |-> Down]
  /\ interruptions = 0

-----------------------------------------------------------------------------
(* The repositories. *)

\* check_lease does not raise for this worker.
Holds(w) == lease[w[1]].live /\ lease[w[1]].attempts = w[2]

ReleaseExecution(w) ==
  lease' = IF lease[w[1]].attempts = w[2]
           THEN [lease EXCEPT ![w[1]].live = FALSE] ELSE lease

ActiveLeases == {j \in Incomplete : lease[j].live}

\* Mutant of Claimable: the status of the job is not looked at.
ClaimableEnded(j) == /\ status[j] # NoJob
                     /\ ~lease[j].live
                     /\ Cardinality(ActiveLeases) < Limit

\* Mutant of Claimable: off by one.
ClaimableOverLimit(j) == /\ j \in Incomplete
                         /\ ~lease[j].live
                         /\ Cardinality(ActiveLeases) <= Limit

\* claim_execution gets past its early returns.
Claimable(j) == /\ j \in Incomplete
                /\ ~lease[j].live
                /\ Cardinality(ActiveLeases) < Limit

-----------------------------------------------------------------------------
(* The API process and its supervisor thread. *)

SetServer(s, r) == server' = [server EXCEPT ![s] = r]

Started(r) == [r EXCEPT !.thread = IF @ = "none" THEN "scanning" ELSE @]

\* Mutant of Boot: nothing is recovered.
BootOnly(s) ==
  /\ server[s].api = "down"
  /\ SetServer(s, [Down EXCEPT !.api = "up"])
  /\ UNCHANGED <<tables, worker, outputs, interruptions>>

\* create_app ends with dispatcher.recover().
Boot(s) ==
  /\ server[s].api = "down"
  /\ SetServer(s, LET up == [Down EXCEPT !.api = "up"]
                  IN  IF Incomplete = {} THEN up ELSE Started(up))
  /\ UNCHANGED <<tables, worker, outputs, interruptions>>

\* Dispatcher.submit of a request not seen before: one transaction, then
\* runner.start.
Submit(s, j) ==
  /\ server[s].api = "up"
  /\ status[j] = NoJob
  /\ status' = [status EXCEPT ![j] = "queued"]
  /\ dispatch' = [dispatch EXCEPT ![j] = [status |-> "pending", version |-> 0]]
  /\ SetServer(s, Started(server[s]))
  /\ UNCHANGED <<version, events, artifact, failure, lease, worker, outputs, interruptions>>

\* POST /jobs/{id}/cancel
Cancel(s, j) ==
  /\ server[s].api = "up"
  /\ status[j] \in {"queued", "running"}
  /\ RequestCancellation(j)
  /\ UNCHANGED <<artifact, failure, dispatch, lease, worker, outputs, server, interruptions>>

\* Mutant of Claim: attempts are not bounded.
ClaimForever(s, j) ==
  LET a == lease[j].attempts + 1 IN
  /\ server[s].thread = "scanning"
  /\ Claimable(j)
  /\ lease' = [lease EXCEPT ![j] = [attempts |-> a, live |-> TRUE]]
  /\ SetDispatch(j, "pending")
  /\ SetServer(s, [server[s] EXCEPT !.thread = "spawning", !.claimed = {<<j, a>>}])
  /\ UNCHANGED <<jobRow, artifact, failure, worker, outputs, interruptions>>

\* One claim of a supervisor pass commits a new attempt ...
Claim(s, j) ==
  LET a == lease[j].attempts + 1 IN
  /\ server[s].thread = "scanning"
  /\ Claimable(j)
  /\ a <= MaxAttempts
  /\ lease' = [lease EXCEPT ![j] = [attempts |-> a, live |-> TRUE]]
  /\ SetDispatch(j, "pending")
  /\ SetServer(s, [server[s] EXCEPT !.thread = "spawning", !.claimed = {<<j, a>>}])
  /\ UNCHANGED <<jobRow, artifact, failure, worker, outputs, interruptions>>

\* Mutant of Exhaust: the job row changes, the history does not.
ExhaustSilently(s, j) ==
  /\ server[s].thread = "scanning"
  /\ Claimable(j)
  /\ lease[j].attempts >= MaxAttempts
  /\ status' = [status EXCEPT ![j] = IF @ = "cancel_requested" THEN "cancelled" ELSE "failed"]
  /\ version' = [version EXCEPT ![j] = @ + 1]
  /\ SetDispatch(j, "done")
  /\ failure' = [failure EXCEPT ![j] = "worker_lost"]
  /\ UNCHANGED <<events, artifact, lease, worker, outputs, server, interruptions>>

\* Mutant of Exhaust: a requested cancellation is forgotten.
ExhaustAsFailed(s, j) ==
  /\ server[s].thread = "scanning"
  /\ Claimable(j)
  /\ lease[j].attempts >= MaxAttempts
  /\ AppendEvent(j, "failed")
  /\ SetDispatch(j, "done")
  /\ failure' = [failure EXCEPT ![j] = "worker_lost"]
  /\ UNCHANGED <<artifact, lease, worker, outputs, server, interruptions>>

\* ... or finds the attempts exhausted and ends the job.
Exhaust(s, j) ==
  /\ server[s].thread = "scanning"
  /\ Claimable(j)
  /\ lease[j].attempts >= MaxAttempts
  /\ AppendEvent(j, IF status[j] = "cancel_requested" THEN "cancelled" ELSE "failed")
  /\ SetDispatch(j, "done")
  /\ failure' = [failure EXCEPT ![j] = "worker_lost"]
  /\ UNCHANGED <<artifact, lease, worker, outputs, server, interruptions>>

Spawn(s, w) ==
  /\ w \in server[s].claimed
  /\ worker' = [worker EXCEPT ![w].pc = "starting"]
  /\ SetServer(s, [server[s] EXCEPT !.thread = "scanning", !.claimed = {},
                                    !.children = @ \cup {w}])
  /\ UNCHANGED <<tables, outputs, interruptions>>

\* Popen raised OSError.
SpawnFails(s, w) ==
  /\ w \in server[s].claimed
  /\ ReleaseExecution(w)
  /\ SetServer(s, [server[s] EXCEPT !.thread = "scanning", !.claimed = {}])
  /\ UNCHANGED <<jobRow, artifact, failure, dispatch, worker, outputs, interruptions>>

\* A pass finds that a child has exited.
Reap(s, w) ==
  /\ server[s].thread = "scanning"
  /\ w \in server[s].children
  /\ worker[w].pc = "done"
  /\ ReleaseExecution(w)
  /\ SetServer(s, [server[s] EXCEPT !.children = @ \ {w}])
  /\ UNCHANGED <<jobRow, artifact, failure, dispatch, worker, outputs, interruptions>>

\* The finally clause of _supervise: managed children are stopped, others are
\* left to themselves.
Leaving(r) == IF Managed THEN [r EXCEPT !.thread = "stopping"]
                         ELSE [r EXCEPT !.thread = "ended", !.children = {}]

\* Any exception ends the supervisor thread; the API keeps serving, and start
\* does nothing because the thread object is still there.
SupervisorFails(s) ==
  /\ SupervisorMayFail
  /\ server[s].thread = "scanning"
  /\ interruptions < MaxInterruptions
  /\ interruptions' = interruptions + 1
  /\ SetServer(s, Leaving(server[s]))
  /\ UNCHANGED <<tables, worker, outputs>>

\* Orderly shutdown sets _stop, which the supervisor sees between two passes.
Close(s) ==
  /\ server[s].api = "up"
  /\ server[s].thread # "spawning"
  /\ interruptions < MaxInterruptions
  /\ interruptions' = interruptions + 1
  /\ SetServer(s, LET r == [server[s] EXCEPT !.api = "closing"]
                  IN  IF r.thread = "scanning" THEN Leaving(r) ELSE r)
  /\ UNCHANGED <<tables, worker, outputs>>

\* _stop_children: first every child's job is asked to cancel ...
StopChild(s, w) ==
  /\ server[s].thread = "stopping"
  /\ w \in server[s].children \ server[s].asked
  /\ RequestCancellation(w[1])
  /\ SetServer(s, [server[s] EXCEPT !.asked = @ \cup {w}])
  /\ UNCHANGED <<artifact, failure, dispatch, lease, worker, outputs, interruptions>>

PipeClosed(s, w) == /\ server[s].thread = "stopping"
                    /\ w \in server[s].asked
                    /\ server[s].children = server[s].asked

\* ... then, the pipes being closed, each child is awaited and its lease
\* released.
ReapStopped(s, w) ==
  /\ PipeClosed(s, w)
  /\ worker[w].pc = "done"
  /\ ReleaseExecution(w)
  /\ SetServer(s, [server[s] EXCEPT !.children = @ \ {w}, !.asked = @ \ {w}])
  /\ UNCHANGED <<jobRow, artifact, failure, dispatch, worker, outputs, interruptions>>

StopEnds(s) ==
  /\ server[s].thread = "stopping"
  /\ server[s].children = {}
  /\ SetServer(s, [server[s] EXCEPT !.thread = "ended"])
  /\ UNCHANGED <<tables, worker, outputs, interruptions>>

Closed(s) ==
  /\ server[s].api = "closing"
  /\ server[s].thread \in {"none", "ended"}
  /\ SetServer(s, Down)
  /\ UNCHANGED <<tables, worker, outputs, interruptions>>

Crash(s) ==
  /\ server[s].api # "down"
  /\ interruptions < MaxInterruptions
  /\ interruptions' = interruptions + 1
  /\ SetServer(s, Down)
  /\ UNCHANGED <<tables, worker, outputs>>

-----------------------------------------------------------------------------
(* The worker process. *)

LoadDispatch(w) ==
  /\ worker[w].pc = "starting"
  /\ worker' = [worker EXCEPT
       ![w].pc = IF dispatch[w[1]].status = "pending" THEN "loaded" ELSE "exiting",
       ![w].dver = dispatch[w[1]].version]
  /\ UNCHANGED <<tables, outputs, server, interruptions>>

\* jobs.get, and what the program does with the answer.
Read(w) ==
  LET j == w[1]
      next == AfterRead(worker[w].pc, status[j])
  IN  /\ worker[w].pc \in Reading
      /\ next = "reporting" => version[j] < MaxVersion
      /\ worker' = [worker EXCEPT ![w].pc = next,
                                   ![w].seen = IF next \in Committing
                                               THEN version[j] ELSE 0]
      /\ outputs' = [outputs EXCEPT ![j] =
                       IF Discards(worker[w].pc, status[j]) THEN @ \ {w[2]} ELSE @]
      /\ UNCHANGED <<tables, server, interruptions>>

\* Mutant of Accepted: any attempt may write.
AcceptedAnyAttempt(w) == version[w[1]] = worker[w].seen

\* Mutant of Accepted: the version is not compared.
AcceptedAnyVersion(w) == Holds(w)

\* update_job_and_append_event accepts this worker's update.
Accepted(w) == Holds(w) /\ version[w[1]] = worker[w].seen

\* _update returns True.
Commit(w) ==
  LET j == w[1]
      e == CommitEvent[worker[w].pc]
  IN  /\ worker[w].pc \in Committing
      /\ Accepted(w)
      /\ AppendEvent(j, e)
      /\ artifact' = [artifact EXCEPT ![j] = IF e = "completed" THEN w[2] ELSE @]
      /\ failure' = [failure EXCEPT ![j] = IF e = "failed" THEN "execution_failed" ELSE @]
      /\ Goto(w, AfterCommit[worker[w].pc])
      /\ UNCHANGED <<dispatch, lease, outputs, server, interruptions>>

\* _update returns False.
CommitStale(w) ==
  /\ worker[w].pc \in Committing
  /\ ~Accepted(w)
  /\ Goto(w, AfterStale[worker[w].pc])
  /\ UNCHANGED <<tables, outputs, server, interruptions>>

MarkRunning(w) ==
  /\ worker[w].pc = "marking"
  /\ UpdateDispatch(w, "running", "rendering")
  /\ UNCHANGED <<jobRow, artifact, failure, lease, outputs, server, interruptions>>

\* The job was cancelled before this attempt began.
DropDispatch(w) ==
  /\ worker[w].pc = "dropping"
  /\ UpdateDispatch(w, "cancelled", "exiting")
  /\ UNCHANGED <<jobRow, artifact, failure, lease, outputs, server, interruptions>>

\* kenkui's write() returns, having written the output of this attempt.
RenderEnds(w) ==
  /\ worker[w].pc = "rendering"
  /\ Goto(w, "rendered")
  /\ outputs' = [outputs EXCEPT ![w[1]] = @ \cup {w[2]}]
  /\ UNCHANGED <<tables, server, interruptions>>

\* write() raises: CancelledError once the poller has seen the cancellation or
\* the heartbeat has lost (or failed to renew) the lease, or its own error.
RenderRaises(w) ==
  /\ worker[w].pc = "rendering"
  /\ \E next \in {"acking", "erring"} : Goto(w, next)
  /\ UNCHANGED <<tables, outputs, server, interruptions>>

\* A BaseException skips the handlers but not the finally clause.
Unwind(w) ==
  /\ worker[w].pc \in Unwinding
  /\ Goto(w, "finishing")
  /\ UNCHANGED <<tables, outputs, server, interruptions>>

\* _finish_dispatch up to its transaction.
Finish(w) ==
  LET j == w[1] IN
  /\ worker[w].pc = "finishing"
  /\ worker' = [worker EXCEPT
       ![w].pc = IF status[j] \in Terminal \cup {"cancel_requested"}
                    /\ dispatch[j].status # "done"
                 THEN "closing" ELSE "exiting",
       ![w].dver = dispatch[j].version]
  /\ UNCHANGED <<tables, outputs, server, interruptions>>

\* Mutant of CloseDispatch: the job is not looked at again.
CloseDispatchBlindly(w) ==
  LET j == w[1] IN
  /\ worker[w].pc = "closing"
  /\ IF Holds(w) /\ dispatch[j].version = worker[w].dver
     THEN SetDispatch(j, "done") ELSE UNCHANGED dispatch
  /\ Goto(w, "exiting")
  /\ UNCHANGED <<jobRow, artifact, failure, lease, outputs, server, interruptions>>

\* finish_dispatch_if_not_cancellation_requested returns True or raises.
CloseDispatch(w) ==
  LET j == w[1] IN
  /\ worker[w].pc = "closing"
  /\ ~(Holds(w) /\ status[j] = "cancel_requested")
  /\ IF Holds(w) /\ status[j] \in Terminal /\ dispatch[j].version = worker[w].dver
     THEN SetDispatch(j, "done") ELSE UNCHANGED dispatch
  /\ Goto(w, "exiting")
  /\ UNCHANGED <<jobRow, artifact, failure, lease, outputs, server, interruptions>>

\* Mutant of CloseRefused: a lost lease is taken for a refusal.
CloseRefusedWhenStale(w) ==
  /\ worker[w].pc = "closing"
  /\ Holds(w) => status[w[1]] = "cancel_requested"
  /\ outputs' = [outputs EXCEPT ![w[1]] = @ \ {w[2]}]
  /\ Goto(w, "acking")
  /\ UNCHANGED <<tables, server, interruptions>>

\* It returns False: the cancellation is still to be acknowledged.
CloseRefused(w) ==
  /\ worker[w].pc = "closing"
  /\ Holds(w) /\ status[w[1]] = "cancel_requested"
  /\ outputs' = [outputs EXCEPT ![w[1]] = @ \ {w[2]}]
  /\ Goto(w, "acking")
  /\ UNCHANGED <<tables, server, interruptions>>

Exit(w) ==
  /\ worker[w].pc = "exiting"
  /\ ReleaseExecution(w)
  /\ Gone(w)
  /\ UNCHANGED <<jobRow, artifact, failure, dispatch, outputs, server, interruptions>>

Alive(w) == worker[w].pc \notin {"none", "done"}

\* The worker process dies where it stands.
Die(w) ==
  /\ Alive(w)
  /\ interruptions < MaxInterruptions
  /\ interruptions' = interruptions + 1
  /\ Gone(w)
  /\ UNCHANGED <<tables, outputs, server>>

\* The supervisor process of a managed worker reads EOF: the API closed the
\* pipe or is gone.
KillTree(w) ==
  /\ Managed
  /\ Alive(w)
  /\ \A s \in Servers : w \in server[s].children => PipeClosed(s, w)
  /\ Gone(w)
  /\ UNCHANGED <<tables, outputs, server, interruptions>>

\* Thirty seconds pass without a renewal.
Expire(j) ==
  /\ lease[j].live
  /\ lease' = [lease EXCEPT ![j].live = FALSE]
  /\ UNCHANGED <<jobRow, artifact, failure, dispatch, worker, outputs, server, interruptions>>

-----------------------------------------------------------------------------

WorkerStep(w) ==
  \/ LoadDispatch(w) \/ Read(w) \/ Commit(w) \/ CommitStale(w)
  \/ MarkRunning(w) \/ DropDispatch(w)
  \/ RenderEnds(w) \/ RenderRaises(w)
  \/ Finish(w) \/ CloseDispatch(w) \/ CloseRefused(w) \/ Exit(w)

ChildStep(s, w) == Spawn(s, w) \/ SpawnFails(s, w) \/ Reap(s, w)
                   \/ StopChild(s, w) \/ ReapStopped(s, w)

JobStep(s, j) == Submit(s, j) \/ Cancel(s, j) \/ Claim(s, j) \/ Exhaust(s, j)

ServerStep(s) == Boot(s) \/ Close(s) \/ SupervisorFails(s) \/ StopEnds(s)
                 \/ Closed(s) \/ Crash(s)

Next ==
  \/ \E s \in Servers : ServerStep(s)
  \/ \E s \in Servers, j \in Jobs : JobStep(s, j)
  \/ \E s \in Servers, w \in Workers : ChildStep(s, w)
  \/ \E w \in Workers : WorkerStep(w) \/ Unwind(w) \/ Die(w) \/ KillTree(w)
  \/ \E j \in Jobs : Expire(j)

Spec == Init /\ [][Next]_vars

\* The supervisor passes and shutdowns go on, workers run, a render reports
\* finitely often and ends, and a lease nobody renews expires.
Fairness ==
  /\ \A s \in Servers : /\ WF_vars(Boot(s)) /\ WF_vars(StopEnds(s)) /\ WF_vars(Closed(s))
  /\ \A s \in Servers, j \in Jobs : WF_vars(Claim(s, j) \/ Exhaust(s, j))
  /\ \A s \in Servers, w \in Workers : WF_vars(ChildStep(s, w))
  /\ \A w \in Workers : /\ WF_vars(WorkerStep(w)) /\ WF_vars(KillTree(w))
                         /\ SF_vars(RenderEnds(w) \/ RenderRaises(w))
  /\ \A j \in Jobs :
       WF_vars((\A a \in Attempts : ~Alive(<<j, a>>)) /\ Expire(j))

FairSpec == Spec /\ Fairness

-----------------------------------------------------------------------------
(* Properties. *)

ServerState == [api      : {"down", "up", "closing"},
                thread   : {"none", "scanning", "spawning", "stopping", "ended"},
                claimed  : SUBSET Workers,
                children : SUBSET Workers,
                asked    : SUBSET Workers]

LeaseType == lease \in [Jobs -> [attempts : 0 .. MaxAttempts, live : BOOLEAN]]
OutputType == outputs \in [Jobs -> SUBSET Attempts]
ServerType == server \in [Servers -> ServerState]

TypeOK == /\ JobType /\ OutcomeType /\ DispatchType /\ LeaseType
          /\ WorkerType /\ OutputType /\ ServerType
          /\ interruptions \in Nat

\* An artifact row exists exactly for a succeeded job; a failed job says why;
\* a job that did not fail and was not cancelled shows no failure.
OutcomeRecorded ==
  \A j \in Jobs :
    /\ artifact[j] # 0 <=> status[j] = "succeeded"
    /\ status[j] = "failed" => failure[j] # "none"
    /\ failure[j] # "none" => status[j] \in {"failed", "cancelled"}

\* The file a published artifact names is never unlinked, whichever attempt
\* of the job meets a late cancellation.
PublishedFileKept == \A j \in Jobs : artifact[j] # 0 => artifact[j] \in outputs[j]

\* A published artifact is the file of the newest attempt ever claimed: an
\* older attempt, however late it ends, publishes nothing, and a job that
\* succeeded is never claimed again.
NewestPublishes == \A j \in Jobs : artifact[j] # 0 => artifact[j] = lease[j].attempts

\* A finished dispatch belongs to a finished job, and work that still waits
\* or runs has an open dispatch: request_cancellation relies on both.
DispatchTracksJob ==
  \A j \in Jobs :
    /\ dispatch[j].status = "done" => status[j] \in Terminal
    /\ status[j] \in {"queued", "running"} => dispatch[j].status \in {"pending", "running"}

\* All supervisors together never have more live attempts of unfinished jobs
\* than the limit.
ActiveWithinLimit == Cardinality(ActiveLeases) <= Limit

\* Only the newest attempt of a job ever marks its dispatch running or, as a
\* worker, done, although MarkRunning does not look at the lease.
NewestAttemptMarks ==
  [][\A w \in Workers :
       worker'[w].pc # worker[w].pc /\ dispatch' # dispatch /\
       dispatch'[w[1]].status \in {"running", "done"} => lease[w[1]].attempts = w[2]]_vars

\* The local server keeps the promises of JobLifecycle.
Lifecycle == INSTANCE JobLifecycle WITH published <- [j \in Jobs |-> artifact[j] # 0]
LifecycleSpec == Lifecycle!Spec

\* The facts about workers that make the invariants above inductive.

\* Nothing refers to a job before it is admitted.
UnadmittedIdle ==
  \A j \in Jobs : status[j] = NoJob =>
    /\ dispatch[j].version = 0
    /\ ~lease[j].live
    /\ \A a \in Attempts : /\ worker[<<j, a>>] = Idle
                            /\ \A s \in Servers : <<j, a>> \notin server[s].claimed

\* A worker that skips an attempt does so for a job that will not run again.
SkipSound ==
  \A w \in Workers :
    worker[w].pc \in {"earlyAcking", "earlyCancelling", "dropping"}
      => status[w[1]] \in Terminal \cup {"cancel_requested"}

\* A worker about to complete has its output on disk.
OutputWritten ==
  \A w \in Workers : worker[w].pc \in {"rendered", "completing"} => w[2] \in outputs[w[1]]

\* A worker about to mark its dispatch is the newest attempt or will fail to.
DispatchSnapshotSound ==
  \A w \in Workers :
    /\ worker[w].dver <= dispatch[w[1]].version
    /\ worker[w].pc = "marking" => \/ lease[w[1]].attempts = w[2]
                                  \/ worker[w].dver < dispatch[w[1]].version

IInv == /\ TypeOK /\ HistoryMatchesSnapshot /\ OutcomeRecorded
        /\ PublishedFileKept /\ NewestPublishes /\ DispatchTracksJob
        /\ UnadmittedIdle /\ SnapshotSound /\ SkipSound /\ OutputWritten /\ DispatchSnapshotSound

\* Whatever dies, an admitted job reaches a terminal status.
EveryJobEnds == \A j \in Jobs : status[j] = "queued" ~> status[j] \in Terminal

\* "Schedule committed work; scanning also recovers failed process starts."
\* (local.py:45): start() has a job claimed that the API process admits while it
\* has no supervisor because the last one failed, unless the process goes down.
CommittedWorkIsScheduled ==
  \A s \in Servers, j \in Jobs :
    [](server[s].api = "up" /\ server[s].thread = "ended" /\ status[j] = NoJob
       => (status[j] = "queued"
             ~> server[s].api # "up" \/ lease[j].attempts > 0 \/ status[j] # "queued"))

\* A requested cancellation is acknowledged, never overtaken by an outcome.
CancellationEnds ==
  \A j \in Jobs : status[j] = "cancel_requested" ~> status[j] = "cancelled"
=============================================================================
