----------------------------- MODULE JobTables -----------------------------
(***************************************************************************)
(* The tables every executor of jobs shares, and the memory of the worker  *)
(* processes.  A claim draws a fresh uuid as the token of a new attempt    *)
(* and counts one more attempt, so the attempt number stands for the       *)
(* token: worker <<j, a>> is the process started with attempt a's token.   *)
(***************************************************************************)
EXTENDS Naturals, Sequences, FiniteSets, WorkerProgram

CONSTANTS Jobs,
          MaxAttempts   \* max_attempts of claim_execution

ASSUME AttemptsAssumption == MaxAttempts \in Nat \ {0}

ASSUME FiniteAssumption == IsFiniteSet(Jobs)

VARIABLES status, version,  \* table jobs
          events,           \* table job_events, in sequence order
          artifact,         \* table artifacts: the attempt whose file it names
          failure,          \* table job_failures: its code
          dispatch,         \* table dispatches
          worker            \* the worker processes

jobRow == <<status, version, events>>

Attempts == 1 .. MaxAttempts
Workers == Jobs \X Attempts

Incomplete == {j \in Jobs : status[j] \in Unfinished}

\* What a worker process remembers: where it is, the job version it read, and
\* the version of the dispatch it read.
Idle == [pc |-> "none", seen |-> 0, dver |-> 0]

InitTables ==
  /\ status = [j \in Jobs |-> NoJob]
  /\ version = [j \in Jobs |-> 0]
  /\ events = [j \in Jobs |-> <<>>]
  /\ artifact = [j \in Jobs |-> 0]
  /\ failure = [j \in Jobs |-> "none"]
  /\ dispatch = [j \in Jobs |-> [status |-> "none", version |-> 0]]
  /\ worker = [w \in Workers |-> Idle]

\* One guarded job update and its event.
AppendEvent(j, e) ==
  /\ status' = [status EXCEPT ![j] = StatusAfter[e]]
  /\ version' = [version EXCEPT ![j] = @ + 1]
  /\ events' = [events EXCEPT ![j] = Append(@, e)]

SetDispatch(j, st) ==
  dispatch' = [dispatch EXCEPT ![j] = [status |-> st, version |-> @.version + 1]]

\* The event request_cancellation appends.
CancellationEvent(j) ==
  IF status[j] = "queued" \/ dispatch[j].status \notin {"pending", "running"}
  THEN "cancelled" ELSE "cancel_requested"

RequestCancellation(j) ==
  IF status[j] \in {"queued", "running"} THEN AppendEvent(j, CancellationEvent(j))
                                         ELSE UNCHANGED jobRow

Goto(w, pc) == worker' = [worker EXCEPT ![w].pc = pc, ![w].seen = 0]

Gone(w) == worker' = [worker EXCEPT ![w] = [Idle EXCEPT !.pc = "done"]]

\* Mutant of UpdateDispatch: the version is not compared.
UpdateDispatchBlindly(w, st, next) == SetDispatch(w[1], st) /\ Goto(w, next)

\* dispatches.update, guarded by the dispatch version alone.
UpdateDispatch(w, st, next) ==
  IF dispatch[w[1]].version = worker[w].dver
  THEN SetDispatch(w[1], st) /\ Goto(w, next)
  ELSE UNCHANGED dispatch /\ Goto(w, "exiting")

-----------------------------------------------------------------------------

WorkerState == [pc : PC, seen : Nat, dver : Nat]

JobType == /\ status \in [Jobs -> JobStatus \cup {NoJob}]
           /\ version \in [Jobs -> Nat]
           /\ events \in [Jobs -> Seq(EventType)]
OutcomeType == /\ artifact \in [Jobs -> 0 .. MaxAttempts]
               /\ failure \in [Jobs -> {"none", "worker_lost", "execution_failed"}]
DispatchType ==
  dispatch \in [Jobs -> [status  : {"none", "pending", "running", "done", "cancelled"},
                         version : Nat]]
WorkerType == worker \in [Workers -> WorkerState]

\* The durable history is dense and tells the truth: it has one event per
\* version, and its last event is the one that led to the stored status.
HistoryMatchesSnapshot ==
  \A j \in Jobs :
    /\ Len(events[j]) = version[j]
    /\ version[j] > 0 => status[j] = StatusAfter[events[j][version[j]]]

\* A worker about to commit either has an outdated version or a legal event.
SnapshotSound ==
  \A w \in Workers :
    /\ worker[w].seen <= version[w[1]]
    /\ worker[w].pc \in Committing /\ worker[w].seen = version[w[1]]
         => <<status[w[1]], CommitEvent[worker[w].pc]>> \in Legal
=============================================================================
