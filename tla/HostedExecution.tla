-------------------------- MODULE HostedExecution --------------------------
(***************************************************************************)
(* Hosted execution of jobs: API processes and the recovery function claim *)
(* attempts in PostgreSQL and submit them to Modal (compute/modal.py), one *)
(* Modal container per attempt runs the worker program                     *)
(* (compute/hosted.py), and every end of a job settles or releases the     *)
(* credits its admission reserved (storage/postgres.py).                   *)
(*                                                                         *)
(* PostgreSQL runs these transactions at READ COMMITTED, so a step here is *)
(* what one transaction does after the last row lock it waits for:         *)
(*   - a worker's update locks its lease row (Lock) and commits later;     *)
(*   - a claim reads the job without a lock (BeginClaim), and goes on once *)
(*     the lease row is free; an advisory lock admits one claim at a time; *)
(*   - a cancellation compares the version it read, which makes it atomic; *)
(*   - a renewal reads the clock before it waits for the pool, the network *)
(*     and the lease row, and compares the expiry with that reading: it    *)
(*     may reach a lease that has expired meanwhile (Renew).               *)
(* The clocks of the API and of the workers are taken to agree.            *)
(***************************************************************************)
EXTENDS JobTables, FiniteSetsExt

CONSTANTS Limit,        \* max_jobs of ModalProcessRunner
          ActiveLimit,  \* unfinished jobs an account may have
          Allowance,    \* credits granted to the account
          Price,        \* the credits each job costs
          MaxVersion,   \* bound: no progress is reported at this version
          MaxInterruptions \* bound: deaths, connections lost and late renewals

ASSUME LimitAssumption == Limit \in Nat \ {0} /\ ActiveLimit \in Nat \ {0}

ASSUME CreditAssumption == Allowance \in Nat /\ Price \in [Jobs -> Nat \ {0}]

ASSUME BoundAssumption == MaxVersion \in Nat /\ MaxInterruptions \in Nat

VARIABLES lease,         \* table execution_leases
          lock,          \* the attempt whose transaction holds the lease row, or 0
          claim,         \* the claim holding the advisory lock, if any
          submitting,    \* attempts claimed and not yet submitted to Modal
          uploaded,      \* per job, the attempts whose artifact is in R2
          authorization, \* table credit_authorizations
          available,     \* available_credits of the account
          interruptions

execution == <<jobRow, artifact, failure, dispatch>>
credits == <<authorization, available>>
claims == <<lease, claim, submitting>>
vars == <<execution, worker, credits, claims, lock, uploaded, interruptions>>

Init ==
  /\ InitTables
  /\ lease = [j \in Jobs |-> [attempts |-> 0, until |-> "released"]]
  /\ lock = [j \in Jobs |-> 0]
  /\ claim = {}
  /\ submitting = {}
  /\ uploaded = [j \in Jobs |-> {}]
  /\ authorization = [j \in Jobs |-> "none"]
  /\ available = Allowance
  /\ interruptions = 0

Interrupt == /\ interruptions < MaxInterruptions
             /\ interruptions' = interruptions + 1

-----------------------------------------------------------------------------
(* Credits. *)

\* Mutant of Finalize: the state of the authorization is not looked at.
FinalizeAgain(j, outcome) ==
  /\ authorization' = [authorization EXCEPT ![j] = outcome]
  /\ available' = IF outcome = "released" THEN available + Price[j] ELSE available

\* billing.finalize: only a reserved authorization is settled or released.
Finalize(j, outcome) ==
  IF authorization[j] = "reserved"
  THEN /\ authorization' = [authorization EXCEPT ![j] = outcome]
       /\ available' = IF outcome = "released" THEN available + Price[j] ELSE available
  ELSE UNCHANGED credits

\* What an event of the job means for its credits.
Settle(j, e) ==
  CASE StatusAfter[e] = "succeeded"           -> Finalize(j, "settled")
    [] StatusAfter[e] \in {"failed", "cancelled"} -> Finalize(j, "released")
    [] OTHER                                  -> UNCHANGED credits

\* admit of a request not seen before.
Admit(j) ==
  /\ status[j] = NoJob
  /\ Cardinality(Incomplete) < ActiveLimit
  /\ available >= Price[j]
  /\ available' = available - Price[j]
  /\ authorization' = [authorization EXCEPT ![j] = "reserved"]
  /\ status' = [status EXCEPT ![j] = "queued"]
  /\ dispatch' = [dispatch EXCEPT ![j] = [status |-> "pending", version |-> 0]]
  /\ UNCHANGED <<version, events, artifact, failure, worker, claims, lock,
                 uploaded, interruptions>>

\* Mutant of Cancel: an immediate cancellation keeps the reservation.
CancelUnreleased(j) ==
  /\ status[j] \in {"queued", "running"}
  /\ RequestCancellation(j)
  /\ UNCHANGED <<artifact, failure, dispatch, worker, claims, lock, credits,
                 uploaded, interruptions>>

\* POST /jobs/{id}/cancel
Cancel(j) ==
  /\ status[j] \in {"queued", "running"}
  /\ RequestCancellation(j)
  /\ Settle(j, CancellationEvent(j))
  /\ UNCHANGED <<artifact, failure, dispatch, worker, claims, lock, uploaded,
                 interruptions>>

-----------------------------------------------------------------------------
(* Claims: HostedDispatcher.submit and the recovery function call start for *)
(* any unfinished job at any time.                                          *)

\* The lease of job i expired before the claim's own reading of the clock.
Past(c, i) == i \in c.past \/ lease[i].until = "released"

ActiveFor(c) == {i \in Incomplete : ~Past(c, i)}

\* Mutant of Claimable: off by one.
ClaimableOverLimit(c) == /\ lock[c.job] = 0
                         /\ Past(c, c.job)
                         /\ Cardinality(ActiveFor(c)) <= Limit

\* The claim has locked the lease row and gets past its early returns.
Claimable(c) == /\ lock[c.job] = 0
                /\ Past(c, c.job)
                /\ Cardinality(ActiveFor(c)) < Limit

\* The clock and the job are read; a finished job is not claimed.
BeginClaim(j) ==
  /\ claim = {}
  /\ status[j] \in Unfinished
  /\ claim' = {[job    |-> j, status |-> status[j],
                past   |-> {i \in Jobs : lease[i].until # "live"}]}
  /\ UNCHANGED <<execution, worker, credits, lease, submitting, lock, uploaded,
                 interruptions>>

\* Mutant of ClaimAttempt: attempts are not bounded.
ClaimForever(c) ==
  LET a == lease[c.job].attempts + 1 IN
  /\ Claimable(c)
  /\ lease' = [lease EXCEPT ![c.job] = [attempts |-> a, until |-> "live"]]
  /\ SetDispatch(c.job, "pending")
  /\ submitting' = submitting \cup {<<c.job, a>>}
  /\ claim' = {}
  /\ UNCHANGED <<jobRow, artifact, failure, worker, credits, lock, uploaded,
                 interruptions>>

\* A new attempt: its lease, and the dispatch pending again.
ClaimAttempt(c) ==
  LET a == lease[c.job].attempts + 1 IN
  /\ Claimable(c)
  /\ a <= MaxAttempts
  /\ lease' = [lease EXCEPT ![c.job] = [attempts |-> a, until |-> "live"]]
  /\ SetDispatch(c.job, "pending")
  /\ submitting' = submitting \cup {<<c.job, a>>}
  /\ claim' = {}
  /\ UNCHANGED <<jobRow, artifact, failure, worker, credits, lock, uploaded,
                 interruptions>>

\* Mutant of ClaimExhausts: the credits stay reserved.
ClaimExhaustsUnreleased(c) ==
  /\ Claimable(c)
  /\ lease[c.job].attempts >= MaxAttempts
  /\ AppendEvent(c.job, IF c.status = "cancel_requested" THEN "cancelled" ELSE "failed")
  /\ SetDispatch(c.job, "done")
  /\ failure' = [failure EXCEPT ![c.job] = IF @ = "none" THEN "worker_lost" ELSE @]
  /\ claim' = {}
  /\ UNCHANGED <<artifact, worker, lease, submitting, lock, credits, uploaded,
                 interruptions>>

\* The attempts are exhausted.  The status comes from the first read, and the
\* job row is updated by its id alone.
ClaimExhausts(c) ==
  /\ Claimable(c)
  /\ lease[c.job].attempts >= MaxAttempts
  /\ AppendEvent(c.job, IF c.status = "cancel_requested" THEN "cancelled" ELSE "failed")
  /\ SetDispatch(c.job, "done")
  /\ failure' = [failure EXCEPT ![c.job] = IF @ = "none" THEN "worker_lost" ELSE @]
  /\ Finalize(c.job, "released")
  /\ claim' = {}
  /\ UNCHANGED <<artifact, worker, lease, submitting, lock, uploaded, interruptions>>

ClaimGivesUp(c) ==
  /\ lock[c.job] = 0
  /\ ~Claimable(c)
  /\ claim' = {}
  /\ UNCHANGED <<execution, worker, credits, lease, submitting, lock, uploaded,
                 interruptions>>

\* The claiming process or its connection dies: the transaction rolls back.
ClaimAborts(c) ==
  /\ Interrupt
  /\ claim' = {}
  /\ UNCHANGED <<execution, worker, credits, lease, submitting, lock, uploaded>>

\* Function.spawn reaches Modal, even if the answer is lost.
Submit(w) ==
  /\ w \in submitting
  /\ submitting' = submitting \ {w}
  /\ worker' = [worker EXCEPT ![w].pc = "starting"]
  /\ UNCHANGED <<execution, credits, lease, claim, lock, uploaded, interruptions>>

\* It does not, or its caller dies first; the lease is kept either way.
SubmissionLost(w) ==
  /\ w \in submitting
  /\ Interrupt
  /\ submitting' = submitting \ {w}
  /\ UNCHANGED <<execution, worker, credits, lease, claim, lock, uploaded>>

\* No renewal has reached the lease in time.
Expire(j) ==
  /\ lease[j].until = "live"
  /\ lease' = [lease EXCEPT ![j].until = "expired"]
  /\ UNCHANGED <<execution, worker, credits, claim, submitting, lock, uploaded, interruptions>>

\* Nor has it here, but the heartbeat of the attempt has read the clock before,
\* and its renewal is still on the way, even if the container dies.
ExpireUnderway(j) ==
  LET w == <<j, lease[j].attempts>> IN
  /\ lease[j].until = "live" /\ worker[w].pc # "none"
  /\ Interrupt
  /\ lease' = [lease EXCEPT ![j].until = "renewing"]
  /\ UNCHANGED <<execution, worker, credits, claim, submitting, lock, uploaded>>

\* The lease of job j turns out not to have expired.
Recounted(c, j) == [c EXCEPT !.past = c.past \ {j}]

\* The renewal arrives.  The lease has been neither claimed nor released, and
\* its expiry is later than the reading.  A claim that gets to the row finds
\* the new expiry.  (A renewal that arrives in time changes nothing here, and
\* one that finds another token or a released lease changes nothing at all.)
Renew(j) ==
  /\ lease[j].until = "renewing" /\ lock[j] = 0
  /\ lease' = [lease EXCEPT ![j].until = "live"]
  /\ claim' = {Recounted(c, j) : c \in claim}
  /\ UNCHANGED <<execution, worker, credits, submitting, lock, uploaded, interruptions>>

-----------------------------------------------------------------------------
(* The worker. *)

\* check_lease does not raise for this worker.
Holds(w) == lease[w[1]].until = "live" /\ lease[w[1]].attempts = w[2]

Locked(w) == lock[w[1]] = w[2]

Unlock(w) == lock' = [lock EXCEPT ![w[1]] = IF @ = w[2] THEN 0 ELSE @]

OnlyWorker == UNCHANGED <<execution, credits, claims, lock, uploaded, interruptions>>

LoadDispatch(w) ==
  /\ worker[w].pc = "starting"
  /\ worker' = [worker EXCEPT
       ![w].pc = IF dispatch[w[1]].status = "pending" THEN "loaded" ELSE "exiting",
       ![w].dver = dispatch[w[1]].version]
  /\ OnlyWorker

\* jobs.get, and what the program does with the answer.
Read(w) ==
  LET j == w[1]
      next == AfterRead(worker[w].pc, status[j])
  IN  /\ worker[w].pc \in Reading
      /\ next = "reporting" => version[j] < MaxVersion
      /\ worker' = [worker EXCEPT ![w].pc = next,
                                   ![w].seen = IF next \in Committing
                                               THEN version[j] ELSE 0]
      /\ OnlyWorker

\* A worker that completes uploads its output before it asks for the lease.
Unpublished(w) == worker[w].pc = "completing" /\ w[2] \notin uploaded[w[1]]

Publish(w) ==
  /\ Unpublished(w)
  /\ uploaded' = [uploaded EXCEPT ![w[1]] = @ \cup {w[2]}]
  /\ UNCHANGED <<execution, worker, credits, claims, lock, interruptions>>

\* The upload raises, and may have reached the store all the same.
PublishRaises(w) ==
  /\ Unpublished(w)
  /\ Goto(w, "erring")
  /\ \/ uploaded' = [uploaded EXCEPT ![w[1]] = @ \cup {w[2]}]
     \/ UNCHANGED uploaded
  /\ UNCHANGED <<execution, credits, claims, lock, interruptions>>

\* Mutant of Lock: any attempt passes check_lease.
LockUnchecked(w) ==
  /\ worker[w].pc \in Committing
  /\ ~Unpublished(w)
  /\ lock[w[1]] = 0
  /\ lock' = [lock EXCEPT ![w[1]] = w[2]]
  /\ UNCHANGED <<execution, worker, credits, claims, uploaded, interruptions>>

\* check_lease passes and leaves the lease row locked.
Lock(w) ==
  /\ worker[w].pc \in Committing
  /\ ~Unpublished(w)
  /\ lock[w[1]] = 0
  /\ Holds(w)
  /\ lock' = [lock EXCEPT ![w[1]] = w[2]]
  /\ UNCHANGED <<execution, worker, credits, claims, uploaded, interruptions>>

\* Mutant of Apply: every end of a job releases its credits.
ApplyReleasing(w) ==
  LET j == w[1]
      e == CommitEvent[worker[w].pc]
  IN  /\ Locked(w) /\ version[j] = worker[w].seen
      /\ AppendEvent(j, e)
      /\ artifact' = [artifact EXCEPT ![j] = IF e = "completed" THEN w[2] ELSE @]
      /\ failure' = [failure EXCEPT ![j] = IF e = "failed" THEN "execution_failed" ELSE @]
      /\ IF StatusAfter[e] \in Terminal THEN Finalize(j, "released") ELSE UNCHANGED credits
      /\ Unlock(w)
      /\ UNCHANGED <<dispatch, claims, uploaded>>

\* Mutant of Apply: the version is not compared before the new one is written.
ApplyAnyVersion(w) ==
  LET j == w[1]
      e == CommitEvent[worker[w].pc]
  IN  /\ Locked(w)
      /\ status' = [status EXCEPT ![j] = StatusAfter[e]]
      /\ version' = [version EXCEPT ![j] = worker[w].seen + 1]
      /\ events' = [events EXCEPT ![j] = Append(@, e)]
      /\ artifact' = [artifact EXCEPT ![j] = IF e = "completed" THEN w[2] ELSE @]
      /\ failure' = [failure EXCEPT ![j] = IF e = "failed" THEN "execution_failed" ELSE @]
      /\ Settle(j, e)
      /\ Unlock(w)
      /\ UNCHANGED <<dispatch, claims, uploaded>>

\* update_job_and_append_event commits.
Apply(w) ==
  LET j == w[1]
      e == CommitEvent[worker[w].pc]
  IN  /\ Locked(w) /\ version[j] = worker[w].seen
      /\ AppendEvent(j, e)
      /\ artifact' = [artifact EXCEPT ![j] = IF e = "completed" THEN w[2] ELSE @]
      /\ failure' = [failure EXCEPT ![j] = IF e = "failed" THEN "execution_failed" ELSE @]
      /\ Settle(j, e)
      /\ Unlock(w)
      /\ UNCHANGED <<dispatch, claims, uploaded>>

\* _update returns True.
Commit(w) ==
  /\ worker[w].pc \in Committing
  /\ Apply(w)
  /\ Goto(w, AfterCommit[worker[w].pc])
  /\ UNCHANGED interruptions

\* _update returns False.
CommitStale(w) ==
  /\ worker[w].pc \in Committing
  /\ ~Unpublished(w)
  /\ IF Locked(w) THEN version[w[1]] # worker[w].seen ELSE ~Holds(w)
  /\ Unlock(w)
  /\ Goto(w, AfterStale[worker[w].pc])
  /\ UNCHANGED <<execution, credits, claims, uploaded, interruptions>>

\* Where an exception out of the transaction leads.
AfterFailure(pc) ==
  CASE pc \in {"beginning", "resuming", "earlyCancelling"} -> {"exiting"}
    [] pc \in {"reporting", "completing"}                  -> {"erring"}
    [] OTHER                                               -> {"finishing", "exiting"}

\* The connection breaks under a transaction: it is rolled back, or it is
\* committed and the worker does not learn of it.
ConnectionLost(w) ==
  /\ worker[w].pc \in Committing
  /\ Interrupt
  /\ \/ Apply(w)
     \/ Unlock(w) /\ UNCHANGED <<execution, credits, claims, uploaded>>
  /\ \E next \in AfterFailure(worker[w].pc) : Goto(w, next)

OnlyDispatch == UNCHANGED <<jobRow, artifact, failure, credits, claims, lock, uploaded,
                            interruptions>>

MarkRunning(w) ==
  worker[w].pc = "marking" /\ UpdateDispatch(w, "running", "rendering") /\ OnlyDispatch

\* The job was cancelled before this attempt began.
DropDispatch(w) ==
  worker[w].pc = "dropping" /\ UpdateDispatch(w, "cancelled", "exiting") /\ OnlyDispatch

RenderEnds(w) == worker[w].pc = "rendering" /\ Goto(w, "rendered") /\ OnlyWorker

RenderRaises(w) ==
  /\ worker[w].pc = "rendering"
  /\ \E next \in {"acking", "erring"} : Goto(w, next)
  /\ OnlyWorker

\* A BaseException, such as Modal's preemption, unwinds to the finally clause.
Unwind(w) ==
  /\ worker[w].pc \in Unwinding
  /\ Goto(w, "finishing")
  /\ Unlock(w)
  /\ UNCHANGED <<execution, credits, claims, uploaded, interruptions>>

\* _finish_dispatch up to its transaction.
Finish(w) ==
  LET j == w[1] IN
  /\ worker[w].pc = "finishing"
  /\ worker' = [worker EXCEPT
       ![w].pc = IF status[j] \in Terminal \cup {"cancel_requested"}
                    /\ dispatch[j].status # "done"
                 THEN "closing" ELSE "exiting",
       ![w].dver = dispatch[j].version]
  /\ OnlyWorker

\* finish_dispatch_if_not_cancellation_requested returns True or raises.
CloseDispatch(w) ==
  LET j == w[1] IN
  /\ worker[w].pc = "closing"
  /\ ~(Holds(w) /\ status[j] = "cancel_requested")
  /\ IF Holds(w) /\ status[j] \in Terminal /\ dispatch[j].version = worker[w].dver
     THEN SetDispatch(j, "done") ELSE UNCHANGED dispatch
  /\ Goto(w, "exiting")
  /\ OnlyDispatch

\* It returns False: the cancellation is still to be acknowledged.
CloseRefused(w) ==
  /\ worker[w].pc = "closing"
  /\ Holds(w) /\ status[w[1]] = "cancel_requested"
  /\ Goto(w, "acking")
  /\ OnlyWorker

\* run() releases the lease.
Exit(w) ==
  /\ worker[w].pc = "exiting"
  /\ lock[w[1]] = 0
  /\ lease' = IF lease[w[1]].attempts = w[2]
              THEN [lease EXCEPT ![w[1]].until = "released"] ELSE lease
  /\ Gone(w)
  /\ UNCHANGED <<execution, credits, claim, submitting, lock, uploaded, interruptions>>

Alive(w) == worker[w].pc \notin {"none", "done"}

\* The container dies where it stands, its transaction with it.
Die(w) ==
  /\ Alive(w)
  /\ Interrupt
  /\ Unlock(w)
  /\ Gone(w)
  /\ UNCHANGED <<execution, credits, claims, uploaded>>

-----------------------------------------------------------------------------

ClaimStep(c) == ClaimAttempt(c) \/ ClaimExhausts(c) \/ ClaimGivesUp(c)

WorkerStep(w) ==
  \/ LoadDispatch(w) \/ Read(w) \/ Publish(w) \/ PublishRaises(w)
  \/ Lock(w) \/ Commit(w) \/ CommitStale(w)
  \/ MarkRunning(w) \/ DropDispatch(w)
  \/ RenderEnds(w) \/ RenderRaises(w)
  \/ Finish(w) \/ CloseDispatch(w) \/ CloseRefused(w) \/ Exit(w)

Next ==
  \/ \E j \in Jobs : \/ Admit(j) \/ Cancel(j) \/ BeginClaim(j)
                    \/ Expire(j) \/ ExpireUnderway(j) \/ Renew(j)
  \/ \E c \in claim : ClaimStep(c) \/ ClaimAborts(c)
  \/ \E w \in Workers : Submit(w) \/ SubmissionLost(w) \/ WorkerStep(w)
                        \/ ConnectionLost(w) \/ Unwind(w) \/ Die(w)

Spec == Init /\ [][Next]_vars

\* The recovery function visits every unfinished job each minute, statements
\* and workers go on, a render reports finitely often and ends, and a lease
\* nobody renews expires.
Fairness ==
  /\ \A j \in Jobs :
       /\ SF_vars(BeginClaim(j))
       /\ WF_vars((\A a \in Attempts : ~Alive(<<j, a>>) /\ <<j, a>> \notin submitting)
                  /\ Expire(j))
  /\ WF_vars(\E c \in claim : ClaimStep(c))
  /\ \A w \in Workers : /\ WF_vars(Submit(w)) /\ WF_vars(WorkerStep(w))
                         /\ SF_vars(RenderEnds(w) \/ RenderRaises(w))

FairSpec == Spec /\ Fairness

-----------------------------------------------------------------------------
(* Properties. *)

LeaseType == lease \in [Jobs -> [attempts : 0 .. MaxAttempts,
                                 until    : {"live", "expired", "renewing", "released"}]]
ClaimType == /\ claim \subseteq [job : Jobs, status : Unfinished, past : SUBSET Jobs]
             /\ \A c, d \in claim : c = d
             /\ submitting \subseteq Workers
StoreType == /\ lock \in [Jobs -> 0 .. MaxAttempts]
             /\ uploaded \in [Jobs -> SUBSET Attempts]
CreditType == /\ authorization \in [Jobs -> {"none", "reserved", "settled", "released"}]
              /\ available \in Nat

TypeOK == /\ JobType /\ OutcomeType /\ DispatchType /\ WorkerType
          /\ LeaseType /\ ClaimType /\ StoreType /\ CreditType
          /\ interruptions \in Nat

\* Credits are neither lost nor made: what is not available is reserved by an
\* unfinished job or was spent on a published one, whoever ends a job twice.
CreditsConserved ==
  available + MapThenSumSet(LAMBDA j : Price[j],
                {j \in Jobs : authorization[j] \in {"reserved", "settled"}}) = Allowance

\* Every way a job can end finalizes its reservation in the same transaction,
\* and nothing else does.
ReservedWhileUnfinished ==
  \A j \in Jobs : authorization[j] = "reserved" <=> status[j] \in Unfinished

\* The jobs that occupy an execution slot.
Live == {j \in Incomplete : lease[j].until = "live"}

\* "Current defaults are two simultaneous jobs globally" (deploy/README.md:92):
\* no more unfinished jobs than the limit have a live lease.
ActiveWithinLimit == Cardinality(Live) <= Limit

\* A claim starts an attempt only within the limit, whatever has expired, been
\* renewed or ended since it read the clock: it may count too much, never too
\* little.
ClaimsWithinLimit ==
  [][\A j \in Jobs : lease'[j].attempts # lease[j].attempts => Cardinality(Live') <= Limit]_vars

\* Exactly the succeeded jobs are charged.
SettlementMatchesOutcome ==
  \A j \in Jobs : authorization[j] = "settled" <=> status[j] = "succeeded"

\* Exactly the jobs whose artifact was published are charged: the claim that
\* overtakes a completed job can neither return the credits nor take them again.
ChargedIfPublished ==
  \A j \in Jobs : authorization[j] = "settled" <=> artifact[j] # 0

\* A job is published once, by an attempt that is the newest one at that moment,
\* however late an attempt that lost its lease asks for it.
PublishedOnceByNewest ==
  [][\A j \in Jobs : artifact'[j] # artifact[j] =>
       artifact[j] = 0 /\ artifact'[j] = lease[j].attempts]_vars

\* The hosted server keeps the promises of HostedLifecycle.
Lifecycle == INSTANCE HostedLifecycle WITH published <- [j \in Jobs |-> artifact[j] # 0]
LifecycleSpec == Lifecycle!HostedSpec

\* Whatever is lost, reserved credits are settled or released in the end.
ReservationEnds ==
  \A j \in Jobs : authorization[j] = "reserved" ~> authorization[j] # "reserved"
=============================================================================
