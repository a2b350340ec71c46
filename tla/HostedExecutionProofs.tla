------------------------ MODULE HostedExecutionProofs ------------------------
(***************************************************************************)
(* Proofs about HostedExecution, for any set of jobs, any limits, prices   *)
(* and bounds, and however the claims overlap other transactions.          *)
(***************************************************************************)
EXTENDS HostedExecution, JobTablesProofs, SumFacts, FiniteSetTheorems, TLAPS

(* The inductive invariant. *)

\* Nothing refers to a job before it is admitted.
UnadmittedIdle ==
  \A j \in Jobs : status[j] = NoJob =>
    /\ lease[j].until \notin {"live", "renewing"}
    /\ \A c \in claim : c.job # j
    /\ \A a \in Attempts : worker[<<j, a>>] = Idle /\ <<j, a>> \notin submitting

\* It has no history, and has taken no credits.
UnadmittedNew == \A j \in Jobs : status[j] = NoJob => version[j] = 0 /\ authorization[j] = "none"

\* Whoever has the lease row locked is the newest attempt.
LockNewest == \A j \in Jobs : lock[j] # 0 => lock[j] = lease[j].attempts

\* What a claim counts as expired is not live: a renewal that arrives is seen.
PastSound == \A c \in claim : \A i \in c.past : lease[i].until # "live"

\* The first event of a job is the first change after its admission.
QueuedFirst == \A j \in Jobs : version[j] = 0 => status[j] \in {NoJob, "queued"}

\* No event of an unfinished job ends it.
UnfinishedUnended ==
  \A j \in Jobs : status[j] \in Unfinished =>
    \A n \in 1 .. version[j] : StatusAfter[events[j][n]] \notin Terminal

\* The job of a claim was unfinished when it was read, and has ended once at
\* most since; a cancellation the claim has read about was requested.
ClaimSound ==
  \A c \in claim : /\ ~Lifecycle!Overtaken(c.job)
                   /\ c.status = "cancel_requested" => Lifecycle!CancellationRequested(c.job)

IInv == /\ TypeOK /\ HistoryMatchesSnapshot /\ ReservedWhileUnfinished /\ ChargedIfPublished
        /\ UnadmittedIdle /\ UnadmittedNew /\ SnapshotSound /\ LockNewest /\ PastSound
        /\ QueuedFirst /\ UnfinishedUnended /\ ClaimSound

-----------------------------------------------------------------------------
(* Type correctness. *)

\* A type survives a step that leaves its variables alone.
LEMMA Frame ==
  ASSUME TypeOK
  PROVE  /\ UNCHANGED jobRow => JobType'
         /\ UNCHANGED <<artifact, failure>> => OutcomeType'
         /\ UNCHANGED dispatch => DispatchType'
         /\ UNCHANGED worker => WorkerType'
         /\ UNCHANGED lease => LeaseType'
         /\ UNCHANGED <<claim, submitting>> => ClaimType'
         /\ UNCHANGED <<lock, uploaded>> => StoreType'
         /\ UNCHANGED credits => CreditType'
         /\ UNCHANGED interruptions => interruptions' \in Nat
BY DEF TypeOK, jobRow, JobType, OutcomeType, DispatchType, WorkerType, LeaseType, ClaimType,
       StoreType, credits, CreditType

LEMMA InterruptType == TypeOK /\ Interrupt => interruptions' \in Nat
BY DEF TypeOK, Interrupt

\* The end of a claim leaves no claim.
LEMMA ClaimEnds ==
  ASSUME TypeOK, claim' = {}, submitting' \subseteq Workers
  PROVE  ClaimType'
BY DEF ClaimType

\* A claim that recounts keeps its job and what it read of it.
LEMMA RecountFacts ==
  ASSUME TypeOK, NEW j \in Jobs, NEW c \in claim
  PROVE  Recounted(c, j) = [job |-> c.job, status |-> c.status, past |-> c.past \ {j}]
BY DEF TypeOK, ClaimType, Recounted

LEMMA FinalizeType ==
  ASSUME CreditType, NEW j \in Jobs, NEW outcome \in {"settled", "released"},
         Finalize(j, outcome)
  PROVE  CreditType'
BY CreditAssumption DEF CreditType, Finalize, credits

LEMMA SettleType ==
  ASSUME CreditType, NEW j \in Jobs, NEW e, Settle(j, e)
  PROVE  CreditType'
<1>1. CASE StatusAfter[e] = "succeeded"
  BY <1>1, FinalizeType DEF Settle
<1>2. CASE StatusAfter[e] \in {"failed", "cancelled"}
  BY <1>2, FinalizeType DEF Settle
<1>3. CASE StatusAfter[e] \notin {"succeeded", "failed", "cancelled"}
  BY <1>3 DEF Settle, credits, CreditType
<1>. QED
  BY <1>1, <1>2, <1>3

LEMMA UnlockType ==
  ASSUME StoreType, NEW w \in Workers, Unlock(w), UNCHANGED uploaded
  PROVE  StoreType'
BY AttemptsAssumption, WorkerPair DEF StoreType, Unlock

LEMMA ApplyType ==
  ASSUME TypeOK, NEW w \in Workers, worker[w].pc \in Committing, Apply(w)
  PROVE  /\ JobType' /\ OutcomeType' /\ CreditType' /\ StoreType' /\ DispatchType'
         /\ LeaseType' /\ ClaimType'
<1>1. w[1] \in Jobs /\ w[2] \in Attempts
  BY WorkerPair
<1>2. JobType'
  BY <1>1, PCFacts, AppendEventType DEF TypeOK, Apply
<1>3. OutcomeType'
  BY <1>1, AttemptsAssumption DEF TypeOK, OutcomeType, Apply, Attempts
<1>4. CreditType'
  BY <1>1, SettleType DEF TypeOK, Apply
<1>5. StoreType'
  BY UnlockType DEF TypeOK, Apply
<1>. QED
  BY <1>2, <1>3, <1>4, <1>5, Frame DEF Apply, claims

LEMMA CancellationEvents ==
  ASSUME NEW j \in Jobs
  PROVE  CancellationEvent(j) \in EventType
BY DEF CancellationEvent, EventType, StatusAfter

LEMMA NextTypeOK == TypeOK /\ [Next]_vars => TypeOK'
<1> SUFFICES ASSUME TypeOK, [Next]_vars PROVE TypeOK'
  OBVIOUS
<1> USE AttemptsAssumption, LimitAssumption, BoundAssumption
<1>1. ASSUME NEW j \in Jobs, Admit(j) PROVE TypeOK'
  <2>1. JobType'
    BY <1>1 DEF TypeOK, Admit, JobType, JobStatus
  <2>2. DispatchType'
    BY <1>1 DEF TypeOK, Admit, DispatchType
  <2>3. available' \in Nat
    <3>1. Price[j] \in Nat /\ available \in Nat
      BY CreditAssumption DEF TypeOK, CreditType
    <3>2. available >= Price[j] /\ available' = available - Price[j]
      BY <1>1 DEF Admit
    <3>. QED
      BY <3>1, <3>2
  <2>4. CreditType'
    BY <1>1, <2>3 DEF TypeOK, Admit, CreditType
  <2>. QED
    BY <1>1, <2>1, <2>2, <2>4, Frame DEF TypeOK, Admit, claims
<1>2. ASSUME NEW j \in Jobs, Cancel(j) PROVE TypeOK'
  <2>1. JobType'
    BY <1>2, CancellationType DEF TypeOK, Cancel
  <2>2. CreditType'
    BY <1>2, SettleType DEF TypeOK, Cancel
  <2>. QED
    BY <1>2, <2>1, <2>2, Frame DEF TypeOK, Cancel, claims
<1>3. ASSUME NEW j \in Jobs, BeginClaim(j) PROVE TypeOK'
  <2> DEFINE c == [job |-> j, status |-> status[j],
                   past |-> {i \in Jobs : lease[i].until # "live"}]
  <2>1. claim' = {c} /\ c \in [job : Jobs, status : Unfinished, past : SUBSET Jobs]
    BY <1>3 DEF BeginClaim
  <2>2. submitting' \subseteq Workers
    BY <1>3 DEF TypeOK, ClaimType, BeginClaim
  <2>3. ClaimType'
    <3> HIDE DEF c
    <3>. QED
      BY <2>1, <2>2 DEF ClaimType
  <2>. QED
    BY <1>3, <2>3, Frame DEF TypeOK, BeginClaim, execution
<1>4. ASSUME NEW j \in Jobs, Expire(j) \/ ExpireUnderway(j) PROVE TypeOK'
  <2>1. LeaseType'
    BY <1>4 DEF TypeOK, Expire, ExpireUnderway, LeaseType
  <2>. QED
    BY <1>4, <2>1, Frame, InterruptType DEF TypeOK, Expire, ExpireUnderway, execution
<1>27. ASSUME NEW j \in Jobs, Renew(j) PROVE TypeOK'
  <2>1. LeaseType'
    BY <1>27 DEF TypeOK, Renew, LeaseType
  <2>2. ClaimType'
    <3>1. claim' = {Recounted(c, j) : c \in claim} /\ submitting' = submitting
      BY <1>27 DEF Renew
    <3>2. \A c \in claim :
            Recounted(c, j) \in [job : Jobs, status : Unfinished, past : SUBSET Jobs]
      BY RecountFacts DEF TypeOK, ClaimType
    <3>. QED
      BY <3>1, <3>2 DEF TypeOK, ClaimType
  <2>. QED
    BY <1>27, <2>1, <2>2, Frame DEF TypeOK, Renew, execution
<1>5. ASSUME NEW c \in claim, ClaimAttempt(c) PROVE TypeOK'
  <2>0. c.job \in Jobs
    BY DEF TypeOK, ClaimType
  <2>1. <<c.job, lease[c.job].attempts + 1>> \in Workers
    BY <1>5, <2>0 DEF TypeOK, ClaimAttempt, LeaseType, Workers, Attempts
  <2>2. ClaimType'
    BY <1>5, <2>1, ClaimEnds DEF TypeOK, ClaimAttempt, ClaimType
  <2>3. DispatchType'
    BY <1>5, <2>0, SetDispatchType DEF TypeOK, ClaimAttempt
  <2>4. LeaseType'
    BY <1>5, <2>0 DEF TypeOK, ClaimAttempt, LeaseType
  <2>. QED
    BY <1>5, <2>2, <2>3, <2>4, Frame DEF TypeOK, ClaimAttempt
<1>6. ASSUME NEW c \in claim, ClaimExhausts(c) PROVE TypeOK'
  <2>0. c.job \in Jobs
    BY DEF TypeOK, ClaimType
  <2>1. JobType'
    BY <1>6, <2>0, AppendEventType DEF TypeOK, ClaimExhausts, EventType, StatusAfter
  <2>2. DispatchType'
    BY <1>6, <2>0, SetDispatchType DEF TypeOK, ClaimExhausts
  <2>3. OutcomeType'
    BY <1>6, <2>0 DEF TypeOK, ClaimExhausts, OutcomeType
  <2>4. CreditType'
    BY <1>6, <2>0, FinalizeType DEF TypeOK, ClaimExhausts
  <2>5. ClaimType'
    BY <1>6, ClaimEnds DEF TypeOK, ClaimExhausts, ClaimType
  <2>. QED
    BY <1>6, <2>1, <2>2, <2>3, <2>4, <2>5, Frame DEF TypeOK, ClaimExhausts
<1>7. ASSUME NEW c \in claim, ClaimGivesUp(c) PROVE TypeOK'
  <2>1. ClaimType'
    BY <1>7, ClaimEnds DEF TypeOK, ClaimGivesUp, ClaimType
  <2>. QED
    BY <1>7, <2>1, Frame DEF TypeOK, ClaimGivesUp, execution
<1>8. ASSUME NEW c \in claim, ClaimAborts(c) PROVE TypeOK'
  <2>1. ClaimType'
    BY <1>8, ClaimEnds DEF TypeOK, ClaimAborts, ClaimType
  <2>. QED
    BY <1>8, <2>1, Frame, InterruptType DEF TypeOK, ClaimAborts, execution
<1>9. ASSUME NEW w \in Workers, Submit(w) PROVE TypeOK'
  <2>1. ClaimType'
    BY <1>9 DEF TypeOK, Submit, ClaimType
  <2>2. WorkerType'
    BY <1>9, PCNames DEF TypeOK, Submit, WorkerType, WorkerState
  <2>. QED
    BY <1>9, <2>1, <2>2, Frame DEF TypeOK, Submit, execution
<1>10. ASSUME NEW w \in Workers, SubmissionLost(w) PROVE TypeOK'
  <2>1. ClaimType'
    BY <1>10 DEF TypeOK, SubmissionLost, ClaimType
  <2>. QED
    BY <1>10, <2>1, Frame, InterruptType DEF TypeOK, SubmissionLost, execution
<1>11. ASSUME NEW w \in Workers, LoadDispatch(w) PROVE TypeOK'
  <2>1. WorkerType'
    BY <1>11, WorkerPair, PCNames, LoadType DEF TypeOK, LoadDispatch, DispatchType
  <2>. QED
    BY <1>11, <2>1, Frame DEF TypeOK, LoadDispatch, OnlyWorker, execution, claims
<1>12. ASSUME NEW w \in Workers, Read(w) PROVE TypeOK'
  <2>1. WorkerType'
    BY <1>12, WorkerPair, ReadFacts, ReadType DEF TypeOK, Read, JobType
  <2>. QED
    BY <1>12, <2>1, Frame DEF TypeOK, Read, OnlyWorker, execution, claims
<1>13. ASSUME NEW w \in Workers, Publish(w) PROVE TypeOK'
  <2>1. StoreType'
    BY <1>13, WorkerPair DEF TypeOK, Publish, StoreType
  <2>. QED
    BY <1>13, <2>1, Frame DEF TypeOK, Publish, execution, claims
<1>14. ASSUME NEW w \in Workers, PublishRaises(w) PROVE TypeOK'
  <2>1. StoreType'
    BY <1>14, WorkerPair DEF TypeOK, PublishRaises, StoreType
  <2>2. WorkerType'
    BY <1>14, PCNames, GotoType DEF TypeOK, PublishRaises
  <2>. QED
    BY <1>14, <2>1, <2>2, Frame DEF TypeOK, PublishRaises, execution, claims
<1>15. ASSUME NEW w \in Workers, Lock(w) PROVE TypeOK'
  <2>1. StoreType'
    BY <1>15, WorkerPair DEF TypeOK, Lock, StoreType, Attempts
  <2>. QED
    BY <1>15, <2>1, Frame DEF TypeOK, Lock, execution, claims
<1>16. ASSUME NEW w \in Workers, Commit(w) PROVE TypeOK'
  <2>1. WorkerType'
    BY <1>16, PCFacts, GotoType DEF TypeOK, Commit
  <2>. QED
    BY <1>16, <2>1, ApplyType, Frame DEF TypeOK, Commit
<1>17. ASSUME NEW w \in Workers, CommitStale(w) PROVE TypeOK'
  <2>1. WorkerType'
    BY <1>17, PCFacts, GotoType DEF TypeOK, CommitStale
  <2>2. StoreType'
    BY <1>17, UnlockType DEF TypeOK, CommitStale
  <2>. QED
    BY <1>17, <2>1, <2>2, Frame DEF TypeOK, CommitStale, execution, claims
<1>18. ASSUME NEW w \in Workers, ConnectionLost(w) PROVE TypeOK'
  <2>1. WorkerType'
    <3>1. PICK next \in AfterFailure(worker[w].pc) : Goto(w, next)
      BY <1>18 DEF ConnectionLost
    <3>2. next \in PC
      BY <3>1, PCNames DEF AfterFailure
    <3>. QED
      BY <3>1, <3>2, GotoType DEF TypeOK
  <2>2. CASE Apply(w)
    BY <1>18, <2>1, <2>2, ApplyType, InterruptType DEF TypeOK, ConnectionLost
  <2>3. CASE Unlock(w) /\ UNCHANGED <<execution, credits, claims, uploaded>>
    BY <1>18, <2>1, <2>3, UnlockType, Frame, InterruptType
       DEF TypeOK, ConnectionLost, execution, claims
  <2>. QED
    BY <1>18, <2>2, <2>3 DEF ConnectionLost
<1>19. ASSUME NEW w \in Workers, MarkRunning(w) \/ DropDispatch(w) PROVE TypeOK'
  <2>1. DispatchType' /\ WorkerType'
    BY <1>19, PCNames, UpdateDispatchType DEF TypeOK, MarkRunning, DropDispatch
  <2>. QED
    BY <1>19, <2>1, Frame DEF TypeOK, MarkRunning, DropDispatch, OnlyDispatch, claims
<1>20. ASSUME NEW w \in Workers, RenderEnds(w) \/ RenderRaises(w) \/ CloseRefused(w) PROVE TypeOK'
  <2>1. WorkerType'
    BY <1>20, PCNames, GotoType DEF TypeOK, RenderEnds, RenderRaises, CloseRefused
  <2>. QED
    BY <1>20, <2>1, Frame
       DEF TypeOK, RenderEnds, RenderRaises, CloseRefused, OnlyWorker, execution, claims
<1>21. ASSUME NEW w \in Workers, Finish(w) PROVE TypeOK'
  <2>1. WorkerType'
    BY <1>21, WorkerPair, PCNames, LoadType DEF TypeOK, Finish, DispatchType
  <2>. QED
    BY <1>21, <2>1, Frame DEF TypeOK, Finish, OnlyWorker, execution, claims
<1>22. ASSUME NEW w \in Workers, CloseDispatch(w) PROVE TypeOK'
  <2>1. WorkerType'
    BY <1>22, PCNames, GotoType DEF TypeOK, CloseDispatch
  <2>2. DispatchType'
    BY <1>22, WorkerPair, SetDispatchType DEF TypeOK, CloseDispatch, DispatchType
  <2>. QED
    BY <1>22, <2>1, <2>2, Frame DEF TypeOK, CloseDispatch, OnlyDispatch, claims
<1>23. ASSUME NEW w \in Workers, Exit(w) PROVE TypeOK'
  <2>1. WorkerType'
    BY <1>23, GoneType DEF TypeOK, Exit
  <2>2. LeaseType'
    BY <1>23, WorkerPair DEF TypeOK, Exit, LeaseType
  <2>. QED
    BY <1>23, <2>1, <2>2, Frame DEF TypeOK, Exit, execution
<1>24. ASSUME NEW w \in Workers, Unwind(w) PROVE TypeOK'
  <2>1. WorkerType'
    BY <1>24, PCNames, GotoType DEF TypeOK, Unwind
  <2>2. StoreType'
    BY <1>24, UnlockType DEF TypeOK, Unwind
  <2>. QED
    BY <1>24, <2>1, <2>2, Frame DEF TypeOK, Unwind, execution, claims
<1>25. ASSUME NEW w \in Workers, Die(w) PROVE TypeOK'
  <2>1. WorkerType'
    BY <1>25, GoneType DEF TypeOK, Die
  <2>2. StoreType'
    BY <1>25, UnlockType DEF TypeOK, Die
  <2>. QED
    BY <1>25, <2>1, <2>2, Frame, InterruptType DEF TypeOK, Die, execution, claims
<1>26. CASE UNCHANGED vars
  BY <1>26, Frame DEF vars, execution, claims, TypeOK
<1>. QED
  BY <1>1, <1>2, <1>3, <1>4, <1>5, <1>6, <1>7, <1>8, <1>9, <1>10, <1>11, <1>12, <1>13,
     <1>14, <1>15, <1>16, <1>17, <1>18, <1>19, <1>20, <1>21, <1>22, <1>23, <1>24, <1>25,
     <1>26, <1>27
     DEF Next, ClaimStep, WorkerStep

LEMMA InitTypeOK == Init => TypeOK
BY AttemptsAssumption, CreditAssumption, FS_EmptySet
   DEF Init, InitTables, TypeOK, JobType, OutcomeType, DispatchType, WorkerType, WorkerState,
       LeaseType, ClaimType, StoreType, CreditType, Idle, PC

\* Every variable keeps its type: attempts stay within their bound, at most one
\* claim is open, and the available credits never fall below zero.
THEOREM TypeCorrect == Spec => []TypeOK
<1>1. Init => TypeOK
  BY InitTypeOK
<1>2. TypeOK /\ [Next]_vars => TypeOK'
  BY NextTypeOK
<1>. QED
  BY <1>1, <1>2, PTL DEF Spec

-----------------------------------------------------------------------------
(* What a step may do to the jobs and their credits: nothing, the admission *)
(* of a job, or one event of one job, settled in the same transaction.      *)

Still == UNCHANGED <<jobRow, artifact, credits>>

\* The update of a worker commits, whether or not the worker learns of it.
Applies(w) == worker[w].pc \in Committing /\ Apply(w)

Moves(j, e) ==
  /\ AppendEvent(j, e)
  /\ Settle(j, e)
  /\ status[j] # NoJob
  /\ <<status[j], e>> \in Legal \cup StorageMoves \/ e \in {"failed", "cancelled"}
  /\ \A i \in Jobs \ {j} : artifact'[i] = artifact[i]
  /\ artifact'[j] = IF e = "completed" THEN lease[j].attempts ELSE artifact[j]
  /\ e = "completed" => lease[j].attempts # 0

LEMMA StillSteps ==
  ASSUME [Next]_vars
  PROVE  \/ Still
         \/ \E j \in Jobs : Admit(j) \/ Cancel(j)
         \/ \E c \in claim : ClaimExhausts(c)
         \/ \E w \in Workers : Applies(w)
<1>1. ASSUME NEW j \in Jobs, BeginClaim(j) \/ Expire(j) \/ ExpireUnderway(j) \/ Renew(j)
      PROVE  Still
  BY <1>1 DEF BeginClaim, Expire, ExpireUnderway, Renew, Still, execution
<1>2. ASSUME NEW c \in claim, ClaimAttempt(c) \/ ClaimGivesUp(c) \/ ClaimAborts(c) PROVE Still
  BY <1>2 DEF ClaimAttempt, ClaimGivesUp, ClaimAborts, Still, execution
<1>3. ASSUME NEW w \in Workers, Submit(w) \/ SubmissionLost(w) \/ Unwind(w) \/ Die(w) PROVE Still
  BY <1>3 DEF Submit, SubmissionLost, Unwind, Die, Still, execution
<1>4. ASSUME NEW w \in Workers, ConnectionLost(w) PROVE Still \/ Applies(w)
  BY <1>4 DEF ConnectionLost, Still, Applies, execution
<1>5. ASSUME NEW w \in Workers, WorkerStep(w) PROVE Still \/ Applies(w)
  <2>1. CASE Commit(w)
    BY <2>1 DEF Commit, Applies
  <2>2. CASE MarkRunning(w) \/ DropDispatch(w) \/ CloseDispatch(w)
    BY <2>2 DEF MarkRunning, DropDispatch, CloseDispatch, OnlyDispatch, Still
  <2>3. CASE \/ LoadDispatch(w) \/ Read(w) \/ RenderEnds(w) \/ RenderRaises(w)
             \/ Finish(w) \/ CloseRefused(w)
    BY <2>3 DEF LoadDispatch, Read, RenderEnds, RenderRaises, Finish, CloseRefused, OnlyWorker,
                Still, execution
  <2>4. CASE Publish(w) \/ PublishRaises(w) \/ Lock(w) \/ CommitStale(w) \/ Exit(w)
    BY <2>4 DEF Publish, PublishRaises, Lock, CommitStale, Exit, Still, execution
  <2>. QED
    BY <1>5, <2>1, <2>2, <2>3, <2>4 DEF WorkerStep
<1>6. CASE UNCHANGED vars
  BY <1>6 DEF vars, execution, Still
<1>. QED
  BY <1>1, <1>2, <1>3, <1>4, <1>5, <1>6 DEF Next, ClaimStep

LEMMA CancelMoves ==
  ASSUME NEW j \in Jobs, Cancel(j)
  PROVE  /\ Moves(j, CancellationEvent(j))
         /\ <<status[j], CancellationEvent(j)>> \in Legal \cup StorageMoves
BY DEF Cancel, Moves, RequestCancellation, CancellationEvent, Legal, StorageMoves, CancelledAtOnce,
       FailedInQueue, NoJob

LEMMA ExhaustMoves ==
  ASSUME TypeOK, UnadmittedIdle, NEW c \in claim, ClaimExhausts(c)
  PROVE  Moves(c.job, IF c.status = "cancel_requested" THEN "cancelled" ELSE "failed")
<1> DEFINE e == IF c.status = "cancel_requested" THEN "cancelled" ELSE "failed"
<1>1. c.job \in Jobs /\ status[c.job] # NoJob
  BY DEF TypeOK, ClaimType, UnadmittedIdle
<1>2. StatusAfter[e] \in {"failed", "cancelled"} /\ StatusAfter[e] # "succeeded"
  BY DEF StatusAfter
<1>3. Settle(c.job, e)
  BY <1>2 DEF Settle, ClaimExhausts
<1>. QED
  BY <1>1, <1>3 DEF ClaimExhausts, Moves

\* A commit is legal, and publishes the newest attempt.
LEMMA ApplyMoves ==
  ASSUME TypeOK, SnapshotSound, LockNewest, UnadmittedIdle, NEW w \in Workers, Applies(w)
  PROVE  /\ Moves(w[1], CommitEvent[worker[w].pc])
         /\ <<status[w[1]], CommitEvent[worker[w].pc]>> \in Legal
<1> DEFINE j == w[1]
           e == CommitEvent[worker[w].pc]
<1>1. j \in Jobs /\ w[2] \in Attempts /\ w[2] # 0
  BY WorkerPair, AttemptsAssumption DEF Attempts
<1>2. <<status[j], e>> \in Legal
  BY DEF Applies, Apply, SnapshotSound
<1>3. status[j] # NoJob
  BY <1>2, LegalFacts DEF NoJob
<1>4. artifact \in [Jobs -> 0 .. MaxAttempts]
  BY DEF TypeOK, OutcomeType
<1>5. lease[j].attempts = w[2]
  BY <1>1 DEF Applies, Apply, Locked, LockNewest
<1>6. /\ \A i \in Jobs \ {j} : artifact'[i] = artifact[i]
      /\ artifact'[j] = IF e = "completed" THEN w[2] ELSE artifact[j]
  BY <1>1, <1>4 DEF Applies, Apply
<1>7. AppendEvent(j, e) /\ Settle(j, e)
  BY DEF Applies, Apply
<1> HIDE DEF e
<1>8. Moves(j, e)
  BY <1>1, <1>2, <1>3, <1>5, <1>6, <1>7 DEF Moves
<1>. QED
  BY <1>2, <1>8 DEF e

LEMMA JobShape ==
  ASSUME TypeOK, UnadmittedIdle, SnapshotSound, LockNewest, [Next]_vars
  PROVE  Still \/ \E j \in Jobs : Admit(j) \/ \E e \in EventType : Moves(j, e)
<1>1. ASSUME NEW j \in Jobs, Cancel(j) PROVE \E e \in EventType : Moves(j, e)
  BY <1>1, CancelMoves, CancellationEvents
<1>2. ASSUME NEW c \in claim, ClaimExhausts(c)
      PROVE  \E j \in Jobs : \E e \in EventType : Moves(j, e)
  <2>1. c.job \in Jobs
    BY DEF TypeOK, ClaimType
  <2>2. "cancelled" \in EventType /\ "failed" \in EventType
    BY DEF EventType, StatusAfter
  <2>. QED
    BY <1>2, <2>1, <2>2, ExhaustMoves
<1>3. ASSUME NEW w \in Workers, Applies(w)
      PROVE  \E j \in Jobs : \E e \in EventType : Moves(j, e)
  BY <1>3, ApplyMoves, WorkerPair, PCFacts DEF Applies
<1>. QED
  BY <1>1, <1>2, <1>3, StillSteps

\* A job only moves forward: its status stands still, or its version grows.
LEMMA JobForward ==
  ASSUME TypeOK, UnadmittedIdle, SnapshotSound, LockNewest, [Next]_vars, NEW j \in Jobs
  PROVE  /\ version[j] <= version'[j]
         /\ version'[j] = version[j] => status'[j] = status[j] \/ status[j] = NoJob
         /\ status'[j] \in Unfinished => status[j] \in Unfinished \cup {NoJob}
         /\ status'[j] = NoJob => status[j] = NoJob
<1>1. JobType /\ version[j] \in Nat
  BY DEF TypeOK, JobType
<1>2. CASE Still
  BY <1>1, <1>2 DEF Still, jobRow
<1>3. ASSUME NEW i \in Jobs, Admit(i)
      PROVE  version'[j] = version[j] /\ (status'[j] = status[j]
                                          \/ (status[j] = NoJob /\ status'[j] = "queued"))
  BY <1>1, <1>3 DEF Admit, JobType
<1>4. ASSUME NEW i \in Jobs, NEW e \in EventType, Moves(i, e)
      PROVE  \/ version'[j] = version[j] /\ status'[j] = status[j]
             \/ /\ version'[j] = version[j] + 1
                /\ status'[j] = StatusAfter[e]
                /\ <<status[j], e>> \in Legal \cup StorageMoves \/ e \in {"failed", "cancelled"}
  BY <1>1, <1>4, MoveFacts DEF Moves
<1>5. CASE \E e \in EventType :
             /\ version'[j] = version[j] + 1
             /\ status'[j] = StatusAfter[e]
             /\ <<status[j], e>> \in Legal \cup StorageMoves \/ e \in {"failed", "cancelled"}
  <2>1. PICK e \in EventType :
             /\ version'[j] = version[j] + 1
             /\ status'[j] = StatusAfter[e]
             /\ <<status[j], e>> \in Legal \cup StorageMoves \/ e \in {"failed", "cancelled"}
    BY <1>5
  <2>2. status'[j] # NoJob
    BY <2>1, StatusFacts
  <2>3. status'[j] \in Unfinished => <<status[j], e>> \in Legal \cup StorageMoves
    BY <2>1 DEF Unfinished, Terminal, StatusAfter
  <2>4. status'[j] \in Unfinished => status[j] \in Unfinished
    BY <2>3, LegalFacts DEF Unfinished, Terminal, JobStatus
  <2>. QED
    BY <1>1, <2>1, <2>2, <2>4
<1>. QED
  BY <1>1, <1>2, <1>3, <1>4, <1>5, JobShape DEF Still, jobRow, NoJob, Unfinished, JobStatus

-----------------------------------------------------------------------------
(* What a step may do to the workers, the leases, their locks and the claim. *)

\* Only its own program, its start and its death change a worker.
LEMMA WorkerShape ==
  ASSUME TypeOK, [Next]_vars, NEW w \in Workers
  PROVE  \/ worker'[w] = worker[w]
         \/ WorkerStep(w) \/ Unwind(w) \/ Die(w) \/ ConnectionLost(w) \/ Submit(w)
<1>1. ASSUME NEW j \in Jobs, \/ Admit(j) \/ Cancel(j) \/ BeginClaim(j)
                             \/ Expire(j) \/ ExpireUnderway(j) \/ Renew(j)
      PROVE  worker' = worker
  BY <1>1 DEF Admit, Cancel, BeginClaim, Expire, ExpireUnderway, Renew
<1>2. ASSUME NEW c \in claim, ClaimStep(c) \/ ClaimAborts(c) PROVE worker' = worker
  BY <1>2 DEF ClaimStep, ClaimAttempt, ClaimExhausts, ClaimGivesUp, ClaimAborts
<1>3. ASSUME NEW u \in Workers, u # w,
             WorkerStep(u) \/ Unwind(u) \/ Die(u) \/ ConnectionLost(u) \/ Submit(u)
      PROVE  worker'[w] = worker[w]
  BY <1>3 DEF WorkerStep, LoadDispatch, Read, Publish, PublishRaises, Lock, Commit, CommitStale,
       MarkRunning, DropDispatch, UpdateDispatch, RenderEnds, RenderRaises, Finish,
       CloseDispatch, CloseRefused, Exit, Unwind, Die, ConnectionLost, Submit, Goto, Gone,
       TypeOK, WorkerType
<1>4. ASSUME NEW u \in Workers, SubmissionLost(u) PROVE worker' = worker
  BY <1>4 DEF SubmissionLost
<1>5. CASE UNCHANGED vars
  BY <1>5 DEF vars
<1>. QED
  BY <1>1, <1>2, <1>3, <1>4, <1>5 DEF Next

\* Every step of a worker other than a read leaves it at a point that does not
\* commit.
Quiet(w) == /\ worker'[w].pc \notin Committing
            /\ worker'[w].seen \in {0, worker[w].seen}

LEMMA GotoQuiet ==
  ASSUME WorkerType, NEW w \in Workers, NEW pc, pc \notin Committing, Goto(w, pc)
  PROVE  Quiet(w)
<1>1. worker'[w] = [pc |-> pc, seen |-> 0, dver |-> worker[w].dver]
  BY GotoFacts
<1>. QED
  BY <1>1 DEF Quiet

LEMMA QuietNames ==
  /\ {"starting", "loaded", "rendering", "rendered", "acking", "erring", "finishing",
      "closing", "exiting", "done"} \cap Committing = {}
  /\ \A pc \in Committing : /\ AfterCommit[pc] \notin Committing
                            /\ AfterStale[pc] \notin Committing
                            /\ AfterFailure(pc) \cap Committing = {}
BY DEF Committing, CommitEvent, AfterCommit, AfterStale, AfterFailure

LEMMA WorkerSteps ==
  ASSUME TypeOK, [Next]_vars, NEW w \in Workers
  PROVE  worker'[w] = worker[w] \/ Read(w) \/ Quiet(w)
<1>0. WorkerType
  BY DEF TypeOK
<1>1. CASE LoadDispatch(w) \/ Finish(w)
  <2>1. /\ worker'[w].pc \in {"loaded", "exiting", "closing"}
        /\ worker'[w].seen = worker[w].seen
    BY <1>0, <1>1 DEF LoadDispatch, Finish, WorkerType, WorkerState
  <2>. QED
    BY <2>1, QuietNames DEF Quiet
<1>2. CASE Submit(w)
  <2>1. worker'[w].pc = "starting" /\ worker'[w].seen = worker[w].seen
    BY <1>0, <1>2 DEF Submit, WorkerType, WorkerState
  <2>. QED
    BY <2>1, QuietNames DEF Quiet
<1>3. CASE Exit(w) \/ Die(w)
  <2>1. worker'[w] = [pc |-> "done", seen |-> 0, dver |-> 0]
    BY <1>0, <1>3, GoneFacts DEF Exit, Die
  <2>. QED
    BY <2>1, QuietNames DEF Quiet
<1>4. CASE Publish(w) \/ Lock(w)
  BY <1>4 DEF Publish, Lock
<1>5. CASE Commit(w) \/ CommitStale(w)
  BY <1>0, <1>5, GotoQuiet, QuietNames DEF Commit, CommitStale
<1>6. CASE ConnectionLost(w)
  BY <1>0, <1>6, GotoQuiet, QuietNames DEF ConnectionLost
<1>7. CASE MarkRunning(w) \/ DropDispatch(w) \/ CloseDispatch(w) \/ CloseRefused(w)
  BY <1>0, <1>7, GotoQuiet, QuietNames
     DEF MarkRunning, DropDispatch, CloseDispatch, CloseRefused, UpdateDispatch
<1>8. CASE PublishRaises(w) \/ RenderEnds(w) \/ RenderRaises(w) \/ Unwind(w)
  BY <1>0, <1>8, GotoQuiet, QuietNames DEF PublishRaises, RenderEnds, RenderRaises, Unwind
<1>. QED
  BY <1>1, <1>2, <1>3, <1>4, <1>5, <1>6, <1>7, <1>8, WorkerShape DEF WorkerStep

\* Only a claim counts an attempt, and only a claim or a renewal that is on its
\* way makes a lease live.
LEMMA LeaseShape ==
  ASSUME TypeOK, [Next]_vars, NEW j \in Jobs
  PROVE  \/ /\ lease'[j].attempts = lease[j].attempts
            /\ lease'[j].until = "live" => lease[j].until = "live"
            /\ lease'[j].until = "renewing" => lease[j].until \in {"live", "renewing"}
         \/ \E c \in claim : ClaimAttempt(c) /\ c.job = j
         \/ /\ Renew(j) /\ lease[j].until = "renewing"
            /\ lease'[j].attempts = lease[j].attempts
<1> DEFINE Kept == /\ lease'[j].attempts = lease[j].attempts
                   /\ lease'[j].until = "live" => lease[j].until = "live"
                   /\ lease'[j].until = "renewing" => lease[j].until \in {"live", "renewing"}
           Renewed == /\ Renew(j) /\ lease[j].until = "renewing"
                      /\ lease'[j].attempts = lease[j].attempts
<1>1. ASSUME NEW i \in Jobs, \/ Admit(i) \/ Cancel(i) \/ BeginClaim(i)
                             \/ Expire(i) \/ ExpireUnderway(i)
      PROVE  Kept
  BY <1>1 DEF Admit, Cancel, BeginClaim, Expire, ExpireUnderway, claims, TypeOK, LeaseType
<1>9. ASSUME NEW i \in Jobs, Renew(i) PROVE Kept \/ Renewed
  BY <1>9 DEF Renew, TypeOK, LeaseType
<1>2. ASSUME NEW c \in claim, ClaimStep(c) \/ ClaimAborts(c)
      PROVE  Kept \/ (ClaimAttempt(c) /\ c.job = j)
  BY <1>2 DEF ClaimStep, ClaimAttempt, ClaimExhausts, ClaimGivesUp, ClaimAborts, TypeOK,
              LeaseType, ClaimType
<1>3. ASSUME NEW u \in Workers, Exit(u) PROVE Kept
  BY <1>3, WorkerPair DEF Exit, TypeOK, LeaseType
<1>4. ASSUME NEW u \in Workers,
             \/ Submit(u) \/ SubmissionLost(u) \/ ConnectionLost(u) \/ Unwind(u) \/ Die(u)
      PROVE  lease' = lease
  BY <1>4 DEF Submit, SubmissionLost, ConnectionLost, Unwind, Die, Apply, claims
<1>5. ASSUME NEW u \in Workers, WorkerStep(u) PROVE lease' = lease \/ Exit(u)
  BY <1>5 DEF WorkerStep, LoadDispatch, Read, Publish, PublishRaises, Lock, Commit, CommitStale,
       MarkRunning, DropDispatch, RenderEnds, RenderRaises, Finish, CloseDispatch, CloseRefused,
       OnlyWorker, OnlyDispatch, Apply, claims
<1>6. CASE UNCHANGED vars
  BY <1>6 DEF vars, claims
<1>7. lease' = lease => Kept
  OBVIOUS
<1> HIDE DEF Kept
<1> HIDE DEF Renewed
<1>8. Kept \/ Renewed \/ \E c \in claim : ClaimAttempt(c) /\ c.job = j
  BY <1>1, <1>2, <1>3, <1>4, <1>5, <1>6, <1>7, <1>9 DEF Next, vars, claims
<1>. QED
  BY <1>8 DEF Kept, Renewed

\* Only a worker that holds the lease locks its row.
LEMMA LockShape ==
  ASSUME TypeOK, [Next]_vars, NEW j \in Jobs
  PROVE  \/ lock'[j] \in {0, lock[j]}
         \/ \E w \in Workers : Lock(w) /\ w[1] = j /\ lock'[j] = w[2]
<1>0. ASSUME NEW w \in Workers, Unlock(w) PROVE lock'[j] \in {0, lock[j]}
  BY <1>0 DEF Unlock, TypeOK, StoreType
<1>1. ASSUME NEW i \in Jobs, \/ Admit(i) \/ Cancel(i) \/ BeginClaim(i)
                             \/ Expire(i) \/ ExpireUnderway(i) \/ Renew(i)
      PROVE  lock' = lock
  BY <1>1 DEF Admit, Cancel, BeginClaim, Expire, ExpireUnderway, Renew
<1>2. ASSUME NEW c \in claim, ClaimStep(c) \/ ClaimAborts(c) PROVE lock' = lock
  BY <1>2 DEF ClaimStep, ClaimAttempt, ClaimExhausts, ClaimGivesUp, ClaimAborts
<1>3. ASSUME NEW u \in Workers,
             \/ Submit(u) \/ SubmissionLost(u) \/ ConnectionLost(u) \/ Unwind(u) \/ Die(u)
      PROVE  lock' = lock \/ Unlock(u)
  BY <1>3 DEF Submit, SubmissionLost, ConnectionLost, Unwind, Die, Apply
<1>4. ASSUME NEW u \in Workers, WorkerStep(u) PROVE lock' = lock \/ Unlock(u) \/ Lock(u)
  BY <1>4 DEF WorkerStep, LoadDispatch, Read, Publish, PublishRaises, Commit, CommitStale,
       MarkRunning, DropDispatch, RenderEnds, RenderRaises, Finish, CloseDispatch, CloseRefused,
       Exit, OnlyWorker, OnlyDispatch, Apply
<1>5. ASSUME NEW u \in Workers, Lock(u)
      PROVE  lock'[j] = lock[j] \/ (u[1] = j /\ lock'[j] = u[2])
  BY <1>5 DEF Lock, TypeOK, StoreType
<1>6. CASE UNCHANGED vars
  BY <1>6 DEF vars
<1>. QED
  BY <1>0, <1>1, <1>2, <1>3, <1>4, <1>5, <1>6 DEF Next

\* Claims begin alone, and a claim only ever recounts.
LEMMA ClaimShape ==
  ASSUME [Next]_vars
  PROVE  \/ claim' = {} \/ claim' = claim
         \/ \E j \in Jobs : BeginClaim(j)
         \/ \E j \in Jobs : Renew(j)
<1>1. ASSUME NEW i \in Jobs, Admit(i) \/ Cancel(i) \/ Expire(i) \/ ExpireUnderway(i)
      PROVE  claim' = claim
  BY <1>1 DEF Admit, Cancel, Expire, ExpireUnderway, claims
<1>2. ASSUME NEW c \in claim, ClaimStep(c) \/ ClaimAborts(c) PROVE claim' = {}
  BY <1>2 DEF ClaimStep, ClaimAttempt, ClaimExhausts, ClaimGivesUp, ClaimAborts
<1>3. ASSUME NEW u \in Workers,
             \/ Submit(u) \/ SubmissionLost(u) \/ ConnectionLost(u) \/ Unwind(u) \/ Die(u)
      PROVE  claim' = claim
  BY <1>3 DEF Submit, SubmissionLost, ConnectionLost, Unwind, Die, Apply, claims
<1>4. ASSUME NEW u \in Workers, WorkerStep(u) PROVE claim' = claim
  BY <1>4 DEF WorkerStep, LoadDispatch, Read, Publish, PublishRaises, Lock, Commit, CommitStale,
       MarkRunning, DropDispatch, RenderEnds, RenderRaises, Finish, CloseDispatch, CloseRefused,
       Exit, OnlyWorker, OnlyDispatch, Apply, claims
<1>5. CASE UNCHANGED vars
  BY <1>5 DEF vars, claims
<1>. QED
  BY <1>1, <1>2, <1>3, <1>4, <1>5 DEF Next

\* Only a claim adds to what is about to be submitted.
LEMMA SubmittingShape ==
  ASSUME [Next]_vars, NEW u \in submitting'
  PROVE  u \in submitting \/ \E c \in claim : ClaimAttempt(c) /\ u[1] = c.job
<1>1. ASSUME NEW i \in Jobs, \/ Admit(i) \/ Cancel(i) \/ BeginClaim(i)
                             \/ Expire(i) \/ ExpireUnderway(i) \/ Renew(i)
      PROVE  submitting' = submitting
  BY <1>1 DEF Admit, Cancel, Expire, ExpireUnderway, Renew, BeginClaim, claims
<1>2. ASSUME NEW c \in claim, ClaimStep(c) \/ ClaimAborts(c)
      PROVE  u \in submitting \/ (ClaimAttempt(c) /\ u[1] = c.job)
  BY <1>2 DEF ClaimStep, ClaimAttempt, ClaimExhausts, ClaimGivesUp, ClaimAborts
<1>3. ASSUME NEW w \in Workers,
             \/ Submit(w) \/ SubmissionLost(w) \/ ConnectionLost(w) \/ Unwind(w) \/ Die(w)
      PROVE  submitting' \subseteq submitting
  BY <1>3 DEF Submit, SubmissionLost, ConnectionLost, Unwind, Die, Apply, claims
<1>4. ASSUME NEW w \in Workers, WorkerStep(w) PROVE submitting' = submitting
  BY <1>4 DEF WorkerStep, LoadDispatch, Read, Publish, PublishRaises, Lock, Commit, CommitStale,
       MarkRunning, DropDispatch, RenderEnds, RenderRaises, Finish, CloseDispatch, CloseRefused,
       Exit, OnlyWorker, OnlyDispatch, Apply, claims
<1>5. CASE UNCHANGED vars
  BY <1>5 DEF vars, claims
<1>. QED
  BY <1>1, <1>2, <1>3, <1>4, <1>5 DEF Next

-----------------------------------------------------------------------------
(* The parts of the inductive invariant, however claims overlap. *)

LEMMA HistoryPreserved ==
  ASSUME IInv, [Next]_vars
  PROVE  HistoryMatchesSnapshot'
<1>1. \A j \in Jobs : Admit(j) => Enters(j)
  BY DEF Admit, Enters
<1>2. \A j \in Jobs, e \in EventType : Moves(j, e) => AppendEvent(j, e)
  BY DEF Moves
<1>. QED
  BY <1>1, <1>2, JobShape, HistoryKept DEF IInv, TypeOK, Still

\* What the end of one job does to the authorization of another, and its own.
LEMMA SettleFacts ==
  ASSUME CreditType, NEW i \in Jobs, NEW e \in EventType, Settle(i, e), NEW j \in Jobs
  PROVE  /\ i # j => authorization'[j] = authorization[j]
         /\ i = j => authorization'[j] =
              IF authorization[j] # "reserved" THEN authorization[j]
              ELSE CASE StatusAfter[e] = "succeeded" -> "settled"
                     [] StatusAfter[e] \in {"failed", "cancelled"} -> "released"
                     [] OTHER -> "reserved"
BY DEF CreditType, Settle, Finalize, credits

LEMMA ReservedPreserved ==
  ASSUME IInv, [Next]_vars
  PROVE  ReservedWhileUnfinished'
<1> SUFFICES ASSUME NEW j \in Jobs
             PROVE  authorization'[j] = "reserved" <=> status'[j] \in Unfinished
  BY DEF ReservedWhileUnfinished
<1>1. TypeOK /\ JobType /\ CreditType
  BY DEF IInv, TypeOK
<1>2. authorization[j] = "reserved" <=> status[j] \in Unfinished
  BY DEF IInv, ReservedWhileUnfinished
<1>3. CASE Still
  BY <1>2, <1>3 DEF Still, jobRow, credits
<1>4. ASSUME NEW i \in Jobs, Admit(i)
      PROVE  authorization'[j] = "reserved" <=> status'[j] \in Unfinished
  <2>1. CASE i = j
    BY <1>1, <1>4, <2>1 DEF Admit, JobType, CreditType, Unfinished, JobStatus, Terminal
  <2>2. CASE i # j
    BY <1>1, <1>2, <1>4, <2>2 DEF Admit, JobType, CreditType
  <2>. QED
    BY <2>1, <2>2
<1>5. ASSUME NEW i \in Jobs, NEW e \in EventType, Moves(i, e)
      PROVE  authorization'[j] = "reserved" <=> status'[j] \in Unfinished
  <2>0. AppendEvent(i, e) /\ Settle(i, e)
    BY <1>5 DEF Moves
  <2>1. CASE i # j
    BY <1>1, <1>2, <2>0, <2>1, MoveFacts, SettleFacts
  <2>2. CASE i = j
    <3>1. status'[j] = StatusAfter[e] /\ StatusAfter[e] \in JobStatus
      BY <1>1, <2>0, <2>2, MoveFacts, PCFacts
    <3>2. StatusAfter[e] \in Unfinished => status[j] \in Unfinished
      <4>1. StatusAfter[e] \in Unfinished => <<status[j], e>> \in Legal \cup StorageMoves
        BY <1>5, <2>2 DEF Moves, Unfinished, Terminal, StatusAfter
      <4>. QED
        BY <4>1, LegalFacts DEF Unfinished, JobStatus, Terminal
    <3>3. authorization'[j] =
              IF authorization[j] # "reserved" THEN authorization[j]
              ELSE CASE StatusAfter[e] = "succeeded" -> "settled"
                     [] StatusAfter[e] \in {"failed", "cancelled"} -> "released"
                     [] OTHER -> "reserved"
      BY <1>1, <2>0, <2>2, SettleFacts
    <3>. QED
      BY <1>2, <3>1, <3>2, <3>3 DEF Unfinished, Terminal
  <2>. QED
    BY <2>1, <2>2
<1>. QED
  BY <1>1, <1>3, <1>4, <1>5, JobShape DEF IInv

LEMMA UnadmittedPreserved ==
  ASSUME IInv, [Next]_vars
  PROVE  UnadmittedIdle'
<1> SUFFICES ASSUME NEW j \in Jobs, status'[j] = NoJob
             PROVE  /\ lease'[j].until \notin {"live", "renewing"}
                    /\ \A c \in claim' : c.job # j
                    /\ \A a \in Attempts : /\ worker'[<<j, a>>] = Idle
                                           /\ <<j, a>> \notin submitting'
  BY DEF UnadmittedIdle
<1>0. TypeOK
  BY DEF IInv
<1>1. status[j] = NoJob
  BY JobForward DEF IInv
<1>2. /\ lease[j].until \notin {"live", "renewing"}
      /\ \A c \in claim : c.job # j
      /\ \A a \in Attempts : worker[<<j, a>>] = Idle /\ <<j, a>> \notin submitting
  BY <1>1 DEF IInv, UnadmittedIdle
<1>3. lease'[j].until \notin {"live", "renewing"}
  BY <1>0, <1>2, LeaseShape
<1>4. \A c \in claim' : c.job # j
  <2>1. ASSUME NEW i \in Jobs, BeginClaim(i) PROVE \A c \in claim' : c.job # j
    <3>1. i # j
      BY <1>1, <2>1 DEF BeginClaim, Unfinished, JobStatus, NoJob
    <3>. QED
      BY <2>1, <3>1 DEF BeginClaim
  <2>2. ASSUME NEW i \in Jobs, Renew(i) PROVE \A c \in claim' : c.job # j
    <3>1. claim' = {Recounted(c, i) : c \in claim}
      BY <2>2 DEF Renew
    <3>2. \A c \in claim : Recounted(c, i).job = c.job
      BY <1>0, RecountFacts
    <3>. QED
      BY <1>2, <3>1, <3>2
  <2>. QED
    BY <1>2, <2>1, <2>2, ClaimShape
<1>5. ASSUME NEW a \in Attempts PROVE worker'[<<j, a>>] = Idle /\ <<j, a>> \notin submitting'
  <2> DEFINE w == <<j, a>>
  <2>1. w \in Workers /\ w[1] = j
    BY DEF Workers
  <2>2. worker[w] = Idle /\ w \notin submitting
    BY <1>2
  <2>3. w \notin submitting'
    BY <1>2, <2>1, <2>2, SubmittingShape
  <2>4. worker[w].pc = "none"
    BY <2>2 DEF Idle
  <2>5. ~WorkerStep(w)
    BY <2>4 DEF WorkerStep, LoadDispatch, Read, Publish, PublishRaises, Unpublished, Lock, Commit,
       CommitStale, MarkRunning, DropDispatch, RenderEnds, RenderRaises, Finish, CloseDispatch,
       CloseRefused, Exit, Reading, Committing, CommitEvent
  <2>6. ~(Unwind(w) \/ Die(w) \/ ConnectionLost(w) \/ Submit(w))
    BY <2>2, <2>4 DEF Unwind, Die, ConnectionLost, Submit, Alive, Unwinding, Committing,
       CommitEvent
  <2>. QED
    BY <1>0, <2>1, <2>2, <2>3, <2>5, <2>6, WorkerShape
<1>. QED
  BY <1>3, <1>4, <1>5

LEMMA SnapshotPreserved ==
  ASSUME IInv, [Next]_vars
  PROVE  SnapshotSound'
<1> SUFFICES ASSUME NEW w \in Workers
             PROVE  /\ worker'[w].seen <= version'[w[1]]
                    /\ worker'[w].pc \in Committing /\ worker'[w].seen = version'[w[1]]
                         => <<status'[w[1]], CommitEvent[worker'[w].pc]>> \in Legal
  BY DEF SnapshotSound
<1> DEFINE j == w[1]
<1>0. TypeOK
  BY DEF IInv
<1>1. j \in Jobs /\ version[j] \in Nat /\ worker[w].seen \in Nat /\ WorkerType
  BY <1>0, WorkerPair DEF TypeOK, JobType, WorkerType, WorkerState
<1>2. /\ version[j] <= version'[j] /\ version'[j] \in Nat
      /\ version'[j] = version[j] => status'[j] = status[j] \/ status[j] = NoJob
  BY <1>1, JobForward, NextTypeOK DEF IInv, TypeOK, JobType
<1>3. /\ worker[w].seen <= version[j]
      /\ worker[w].pc \in Committing /\ worker[w].seen = version[j]
           => <<status[j], CommitEvent[worker[w].pc]>> \in Legal
  BY DEF IInv, SnapshotSound
<1>4. CASE worker'[w] = worker[w]
  <2>1. status[j] = NoJob => worker[w].pc \notin Committing
    BY <1>1, WorkerPair DEF IInv, UnadmittedIdle, Idle, Committing, CommitEvent
  <2>. QED
    BY <1>1, <1>2, <1>3, <1>4, <2>1
<1>5. CASE Read(w)
  <2>1. status' = status /\ version' = version
    BY <1>5 DEF Read, OnlyWorker, execution, jobRow
  <2>2. Reads(w)
    BY <1>5 DEF Read, Reads
  <2>. QED
    BY <1>1, <2>1, <2>2, ReadMemory
<1>6. CASE Quiet(w)
  BY <1>1, <1>2, <1>3, <1>6 DEF Quiet
<1>. QED
  BY <1>0, <1>4, <1>5, <1>6, WorkerSteps

LEMMA LockPreserved ==
  ASSUME IInv, [Next]_vars
  PROVE  LockNewest'
<1> SUFFICES ASSUME NEW j \in Jobs, lock'[j] # 0
             PROVE  lock'[j] = lease'[j].attempts
  BY DEF LockNewest
<1>0. TypeOK /\ LockNewest
  BY DEF IInv
<1>1. CASE lock'[j] \in {0, lock[j]}
  <2>1. lock[j] # 0 /\ lock'[j] = lease[j].attempts
    BY <1>0, <1>1 DEF LockNewest
  <2>2. \A c \in claim : ClaimAttempt(c) => c.job # j
    BY <2>1 DEF ClaimAttempt, Claimable
  <2>. QED
    BY <1>0, <2>1, <2>2, LeaseShape
<1>2. ASSUME NEW w \in Workers, Lock(w), w[1] = j, lock'[j] = w[2]
      PROVE  lock'[j] = lease'[j].attempts
  BY <1>2 DEF Lock, Holds, claims
<1>. QED
  BY <1>0, <1>1, <1>2, LockShape

LEMMA PastPreserved ==
  ASSUME IInv, [Next]_vars
  PROVE  PastSound'
<1> SUFFICES ASSUME NEW c \in claim', NEW i \in c.past
             PROVE  lease'[i].until # "live"
  BY DEF PastSound
<1>0. TypeOK /\ PastSound
  BY DEF IInv
<1>1. CASE claim' = claim
  <2>1. i \in Jobs /\ lease[i].until # "live"
    BY <1>0, <1>1 DEF PastSound, TypeOK, ClaimType
  <2>2. \A d \in claim : ~ClaimAttempt(d)
    BY <1>1 DEF ClaimAttempt
  <2>3. ~Renew(i)
    <3> SUFFICES ASSUME Renew(i) PROVE FALSE
      OBVIOUS
    <3>1. c = Recounted(c, i)
      BY <1>0, <1>1 DEF Renew, TypeOK, ClaimType
    <3>2. i \notin c.past
      BY <1>0, <1>1, <2>1, <3>1, RecountFacts
    <3>. QED
      BY <3>2
  <2>. QED
    BY <1>0, <2>1, <2>2, <2>3, LeaseShape
<1>2. ASSUME NEW j \in Jobs, BeginClaim(j) PROVE lease'[i].until # "live"
  BY <1>2 DEF BeginClaim
<1>3. ASSUME NEW j \in Jobs, Renew(j) PROVE lease'[i].until # "live"
  <2>1. PICK d \in claim : c = Recounted(d, j)
    BY <1>3 DEF Renew
  <2>2. c.past = d.past \ {j}
    BY <1>0, <2>1, RecountFacts
  <2>3. i \in d.past /\ i # j /\ i \in Jobs
    BY <1>0, <2>2 DEF TypeOK, ClaimType
  <2>4. lease'[i] = lease[i]
    BY <1>0, <1>3, <2>3 DEF Renew, TypeOK, LeaseType
  <2>. QED
    BY <1>0, <2>3, <2>4 DEF PastSound
<1>. QED
  BY <1>1, <1>2, <1>3, ClaimShape

\* What a step may do to the jobs, and whether the move is legal.
LegalMove(j, e) == Moves(j, e) /\ <<status[j], e>> \in Legal \cup StorageMoves

\* Every move but that of a claim that finds the attempts exhausted is legal.
LEMMA HostedShape ==
  ASSUME IInv, [Next]_vars
  PROVE  \/ Still
         \/ \E j \in Jobs : Admit(j) \/ \E e \in EventType : LegalMove(j, e)
         \/ \E c \in claim : ClaimExhausts(c)
<1>0. TypeOK /\ UnadmittedIdle /\ SnapshotSound /\ LockNewest
  BY DEF IInv
<1>1. ASSUME NEW j \in Jobs, Cancel(j) PROVE \E e \in EventType : LegalMove(j, e)
  BY <1>1, CancelMoves, CancellationEvents DEF LegalMove
<1>2. ASSUME NEW w \in Workers, Applies(w)
      PROVE  \E j \in Jobs : \E e \in EventType : LegalMove(j, e)
  <2>1. w[1] \in Jobs /\ CommitEvent[worker[w].pc] \in EventType
    BY <1>2, WorkerPair, PCFacts DEF Applies
  <2>2. LegalMove(w[1], CommitEvent[worker[w].pc])
    BY <1>0, <1>2, ApplyMoves DEF LegalMove
  <2>. QED
    BY <2>1, <2>2
<1>. QED
  BY <1>1, <1>2, StillSteps

LEMMA NewPreserved ==
  ASSUME IInv, [Next]_vars
  PROVE  UnadmittedNew'
<1> SUFFICES ASSUME NEW j \in Jobs, status'[j] = NoJob
             PROVE  version'[j] = 0 /\ authorization'[j] = "none"
  BY DEF UnadmittedNew
<1>1. TypeOK /\ JobType /\ CreditType
  BY DEF IInv, TypeOK
<1>2. status[j] = NoJob /\ version[j] = 0 /\ authorization[j] = "none"
  BY JobForward DEF IInv, UnadmittedNew
<1>3. CASE Still
  BY <1>2, <1>3 DEF Still, jobRow, credits
<1>4. ASSUME NEW i \in Jobs, Admit(i)
      PROVE  version'[j] = 0 /\ authorization'[j] = "none"
  BY <1>1, <1>2, <1>4 DEF Admit, JobType, CreditType, NoJob
<1>5. ASSUME NEW i \in Jobs, NEW e \in EventType, Moves(i, e)
      PROVE  version'[j] = 0 /\ authorization'[j] = "none"
  <2>1. i # j
    BY <1>2, <1>5 DEF Moves
  <2>2. AppendEvent(i, e) /\ Settle(i, e)
    BY <1>5 DEF Moves
  <2>. QED
    BY <1>1, <1>2, <2>1, <2>2, MoveFacts, SettleFacts
<1>. QED
  BY <1>1, <1>3, <1>4, <1>5, JobShape DEF IInv

\* A job that takes a legal move is unfinished, reserved and not published.
LEMMA LegalUnpublished ==
  ASSUME IInv, NEW j \in Jobs, NEW e \in EventType, <<status[j], e>> \in Legal \cup StorageMoves
  PROVE  /\ status[j] \in Unfinished
         /\ authorization[j] = "reserved"
         /\ artifact[j] = 0
<1>1. status[j] \in Unfinished
  BY LegalFacts DEF Unfinished, JobStatus, Terminal
<1>2. authorization[j] = "reserved"
  BY <1>1 DEF IInv, ReservedWhileUnfinished
<1>3. artifact[j] = 0
  BY <1>2 DEF IInv, ChargedIfPublished
<1>. QED
  BY <1>1, <1>2, <1>3

LEMMA ChargedPreserved ==
  ASSUME IInv, [Next]_vars
  PROVE  ChargedIfPublished'
<1> SUFFICES ASSUME NEW j \in Jobs
             PROVE  authorization'[j] = "settled" <=> artifact'[j] # 0
  BY DEF ChargedIfPublished
<1>1. /\ TypeOK /\ JobType /\ CreditType
      /\ authorization[j] = "settled" <=> artifact[j] # 0
  BY DEF IInv, TypeOK, ChargedIfPublished
<1>2. CASE Still
  BY <1>1, <1>2 DEF Still, credits
<1>3. ASSUME NEW i \in Jobs, Admit(i)
      PROVE  authorization'[j] = "settled" <=> artifact'[j] # 0
  <2>1. authorization[i] = "none"
    BY <1>3 DEF Admit, IInv, UnadmittedNew
  <2>. QED
    BY <1>1, <1>3, <2>1 DEF Admit, CreditType
<1>4. ASSUME NEW i \in Jobs, NEW e \in EventType, Moves(i, e)
      PROVE  authorization'[j] = "settled" <=> artifact'[j] # 0
  <2>0. Settle(i, e)
    BY <1>4 DEF Moves
  <2>1. CASE i # j
    BY <1>1, <1>4, <2>0, <2>1, SettleFacts DEF Moves
  <2>2. CASE i = j /\ e = "completed"
    <3>1. authorization[j] = "reserved"
      BY <1>4, <2>2, LegalUnpublished DEF Moves
    <3>2. StatusAfter[e] = "succeeded"
      BY <2>2 DEF StatusAfter
    <3>3. authorization'[j] = "settled"
      BY <1>1, <2>0, <2>2, <3>1, <3>2, SettleFacts
    <3>4. artifact'[j] # 0
      BY <1>4, <2>2 DEF Moves
    <3>. QED
      BY <3>3, <3>4
  <2>3. CASE i = j /\ e # "completed"
    <3>1. StatusAfter[e] # "succeeded"
      BY <2>3 DEF EventType, StatusAfter
    <3>2. authorization'[j] = "settled" <=> authorization[j] = "settled"
      BY <1>1, <2>0, <2>3, <3>1, SettleFacts
    <3>3. artifact'[j] = artifact[j]
      BY <1>4, <2>3 DEF Moves
    <3>. QED
      BY <1>1, <3>2, <3>3
  <2>. QED
    BY <2>1, <2>2, <2>3
<1>. QED
  BY <1>1, <1>2, <1>3, <1>4, JobShape DEF IInv

\* What an appended event does to the history of its job, and of others.
LEMMA AppendFacts ==
  ASSUME JobType, HistoryMatchesSnapshot, NEW i \in Jobs, NEW e \in EventType,
         AppendEvent(i, e), NEW j \in Jobs
  PROVE  /\ i # j => version'[j] = version[j] /\ events'[j] = events[j]
         /\ i = j => /\ version'[j] = version[j] + 1
                     /\ events'[j][version[j] + 1] = e
         /\ \A n \in 1 .. version[j] : events'[j][n] = events[j][n]
<1>1. /\ events \in [Jobs -> Seq(EventType)] /\ version[j] \in Nat
      /\ Len(events[j]) = version[j]
      /\ version \in [Jobs -> Nat]
  BY DEF JobType, HistoryMatchesSnapshot
<1>2. events'[j] = IF i = j THEN Append(events[j], e) ELSE events[j]
  BY <1>1 DEF AppendEvent
<1>3. version'[j] = IF i = j THEN version[j] + 1 ELSE version[j]
  BY <1>1 DEF AppendEvent
<1>4. events[j] \in Seq(EventType)
  BY <1>1
<1>5. /\ Append(events[j], e)[version[j] + 1] = e
      /\ \A n \in 1 .. version[j] : Append(events[j], e)[n] = events[j][n]
  BY <1>1, <1>4
<1>. QED
  BY <1>2, <1>3, <1>5

LEMMA QueuedPreserved ==
  ASSUME IInv, [Next]_vars
  PROVE  QueuedFirst'
<1> SUFFICES ASSUME NEW j \in Jobs, version'[j] = 0
             PROVE  status'[j] \in {NoJob, "queued"}
  BY DEF QueuedFirst
<1>1. /\ JobType /\ version[j] \in Nat
      /\ version[j] = 0 => status[j] \in {NoJob, "queued"}
  BY DEF IInv, TypeOK, JobType, QueuedFirst
<1>2. CASE Still
  BY <1>1, <1>2 DEF Still, jobRow
<1>3. ASSUME NEW i \in Jobs, Admit(i) PROVE status'[j] \in {NoJob, "queued"}
  BY <1>1, <1>3 DEF Admit, JobType
<1>4. ASSUME NEW i \in Jobs, NEW e \in EventType, Moves(i, e)
      PROVE  status'[j] \in {NoJob, "queued"}
  BY <1>1, <1>4, MoveFacts DEF Moves
<1>. QED
  BY <1>2, <1>3, <1>4, JobShape DEF IInv

LEMMA UnendedPreserved ==
  ASSUME IInv, [Next]_vars
  PROVE  UnfinishedUnended'
<1> SUFFICES ASSUME NEW j \in Jobs, status'[j] \in Unfinished, NEW n \in 1 .. version'[j]
             PROVE  StatusAfter[events'[j][n]] \notin Terminal
  BY DEF UnfinishedUnended
<1>1. TypeOK /\ JobType /\ HistoryMatchesSnapshot /\ version[j] \in Nat
  BY DEF IInv, TypeOK, JobType
<1>2. status[j] \in Unfinished \cup {NoJob}
  BY JobForward DEF IInv
<1>3. \A m \in 1 .. version[j] : StatusAfter[events[j][m]] \notin Terminal
  BY <1>2 DEF IInv, UnfinishedUnended, UnadmittedNew
<1>4. CASE Still
  BY <1>3, <1>4 DEF Still, jobRow
<1>5. ASSUME NEW i \in Jobs, Admit(i) PROVE StatusAfter[events'[j][n]] \notin Terminal
  BY <1>3, <1>5 DEF Admit
<1>6. ASSUME NEW i \in Jobs, NEW e \in EventType, Moves(i, e)
      PROVE  StatusAfter[events'[j][n]] \notin Terminal
  <2>0. AppendEvent(i, e)
    BY <1>6 DEF Moves
  <2>1. CASE n \in 1 .. version[j]
    BY <1>1, <1>3, <2>0, <2>1, AppendFacts
  <2>2. CASE n \notin 1 .. version[j]
    <3>1. i = j /\ n = version[j] + 1
      BY <1>1, <2>0, <2>2, AppendFacts
    <3>2. events'[j][n] = e /\ status'[j] = StatusAfter[e]
      BY <1>1, <2>0, <3>1, AppendFacts, MoveFacts
    <3>. QED
      BY <3>2 DEF Unfinished
  <2>. QED
    BY <2>1, <2>2
<1>. QED
  BY <1>1, <1>4, <1>5, <1>6, JobShape DEF IInv

\* HostedLifecycle extends the same tables.
LEMMA SameTables ==
  /\ Lifecycle!NoJob = NoJob
  /\ Lifecycle!Legal = Legal
  /\ Lifecycle!StorageMoves = StorageMoves
  /\ Lifecycle!StatusAfter = StatusAfter
  /\ Lifecycle!EventType = EventType
  /\ Lifecycle!Terminal = Terminal
BY DEF Lifecycle!NoJob, NoJob, Lifecycle!Legal, Legal, Lifecycle!StorageMoves, StorageMoves,
       Lifecycle!CancelledAtOnce, CancelledAtOnce, Lifecycle!FailedInQueue, FailedInQueue,
       Lifecycle!StatusAfter, StatusAfter, Lifecycle!EventType, EventType,
       Lifecycle!Terminal, Terminal

\* The part of ClaimSound about one claim.
Sound(c) == /\ ~Lifecycle!Overtaken(c.job)
            /\ c.status = "cancel_requested" => Lifecycle!CancellationRequested(c.job)

\* A legal move of its job leaves a claim sound: the job was unfinished.
LEMMA SoundAfterMove ==
  ASSUME IInv, NEW i \in Jobs, NEW e \in EventType, LegalMove(i, e),
         NEW c \in claim, Sound(c)
  PROVE  Sound(c)'
<1> DEFINE j == c.job
<1>1. /\ TypeOK /\ JobType /\ HistoryMatchesSnapshot /\ j \in Jobs /\ version[j] \in Nat
      /\ AppendEvent(i, e)
  BY DEF IInv, TypeOK, JobType, ClaimType, LegalMove, Moves
<1>2. Lifecycle!CancellationRequested(j) => Lifecycle!CancellationRequested(j)'
  <2>1. version'[j] \in Nat /\ version'[j] >= version[j]
    BY <1>1, AppendFacts
  <2>2. \A n \in 1 .. version[j] : events'[j][n] = events[j][n] /\ n \in 1 .. version'[j]
    BY <1>1, <2>1, AppendFacts
  <2>. QED
    BY <2>2 DEF Lifecycle!CancellationRequested
<1>3. CASE i # j
  <2>1. version'[j] = version[j] /\ events'[j] = events[j]
    BY <1>1, <1>3, AppendFacts
  <2>. QED
    BY <1>2, <2>1 DEF Sound, Lifecycle!Overtaken
<1>4. CASE i = j
  <2>1. status[j] \in Unfinished
    BY <1>4, LegalUnpublished DEF LegalMove
  <2>2. /\ version'[j] = version[j] + 1
        /\ \A n \in 1 .. version[j] : events'[j][n] = events[j][n]
    BY <1>1, <1>4, AppendFacts
  <2>3. version[j] > 0 => StatusAfter[events[j][version[j]]] \notin Terminal
    BY <1>1, <2>1 DEF IInv, UnfinishedUnended
  <2>4. ~Lifecycle!Overtaken(j)'
    BY <1>1, <2>2, <2>3, SameTables DEF Lifecycle!Overtaken
  <2>. QED
    BY <1>2, <2>4 DEF Sound
<1>. QED
  BY <1>3, <1>4

LEMMA ClaimSoundPreserved ==
  ASSUME IInv, [Next]_vars
  PROVE  ClaimSound'
<1> SUFFICES ASSUME NEW c \in claim' PROVE Sound(c)'
  BY DEF ClaimSound, Sound
<1>0. /\ TypeOK /\ JobType /\ \A d \in claim : Sound(d)
  BY DEF IInv, TypeOK, ClaimSound, Sound
<1>1. CASE claim' = claim
  <2>1. c \in claim /\ Sound(c) /\ c.job \in Jobs
    BY <1>0, <1>1 DEF TypeOK, ClaimType
  <2>2. CASE Still
    BY <2>1, <2>2 DEF Still, jobRow, Sound, Lifecycle!Overtaken, Lifecycle!CancellationRequested
  <2>3. ASSUME NEW i \in Jobs, Admit(i) PROVE Sound(c)'
    BY <2>1, <2>3 DEF Admit, Sound, Lifecycle!Overtaken, Lifecycle!CancellationRequested
  <2>4. ASSUME NEW i \in Jobs, NEW e \in EventType, LegalMove(i, e) PROVE Sound(c)'
    BY <2>1, <2>4, SoundAfterMove
  <2>5. ASSUME NEW d \in claim, ClaimExhausts(d) PROVE FALSE
    BY <1>1, <2>5 DEF ClaimExhausts
  <2>. QED
    BY <2>2, <2>3, <2>4, <2>5, HostedShape
<1>2. ASSUME NEW j \in Jobs, BeginClaim(j) PROVE Sound(c)'
  <2>1. /\ c.job = j /\ c.status = status[j] /\ status[j] \in Unfinished
        /\ version' = version /\ events' = events
    BY <1>2 DEF BeginClaim, execution, jobRow
  <2>2. version[j] \in Nat /\ HistoryMatchesSnapshot /\ UnfinishedUnended
    BY <1>0 DEF JobType, IInv
  <2>3. ~Lifecycle!Overtaken(j)
    BY <2>1, <2>2, SameTables DEF UnfinishedUnended, Lifecycle!Overtaken
  <2>4. ASSUME status[j] = "cancel_requested" PROVE Lifecycle!CancellationRequested(j)
    <3>1. version[j] > 0 /\ StatusAfter[events[j][version[j]]] = "cancel_requested"
      <4>1. version[j] # 0
        BY <2>4 DEF IInv, QueuedFirst, NoJob
      <4>. QED
        BY <2>2, <2>4, <4>1 DEF HistoryMatchesSnapshot
    <3>2. events[j][version[j]] \in EventType
      BY <1>0, <2>2, <3>1 DEF JobType, HistoryMatchesSnapshot
    <3>3. events[j][version[j]] = "cancel_requested"
      BY <3>1, <3>2 DEF EventType, StatusAfter
    <3>. QED
      BY <2>2, <3>1, <3>3 DEF Lifecycle!CancellationRequested
  <2>. QED
    BY <2>1, <2>3, <2>4 DEF Sound, Lifecycle!Overtaken, Lifecycle!CancellationRequested
<1>3. ASSUME NEW j \in Jobs, Renew(j) PROVE Sound(c)'
  <2>1. PICK d \in claim : c = Recounted(d, j)
    BY <1>3 DEF Renew
  <2>2. c.job = d.job /\ c.status = d.status
    BY <1>0, <2>1, RecountFacts
  <2>3. version' = version /\ events' = events
    BY <1>3 DEF Renew, execution, jobRow
  <2>. QED
    BY <1>0, <2>1, <2>2, <2>3 DEF Sound, Lifecycle!Overtaken, Lifecycle!CancellationRequested
<1>. QED
  BY <1>1, <1>2, <1>3, ClaimShape

LEMMA InitIInv == Init => IInv
<1> SUFFICES ASSUME Init PROVE IInv
  OBVIOUS
<1>1. TypeOK
  BY InitTypeOK
<1>2. HistoryMatchesSnapshot /\ ReservedWhileUnfinished /\ LockNewest /\ PastSound
  BY DEF Init, InitTables, HistoryMatchesSnapshot, ReservedWhileUnfinished, LockNewest, PastSound,
         NoJob, Unfinished, JobStatus
<1>3. UnadmittedIdle
  BY DEF Init, InitTables, UnadmittedIdle, Workers
<1>4. SnapshotSound
  BY WorkerPair DEF Init, InitTables, SnapshotSound, Idle, Committing, CommitEvent
<1>5. ChargedIfPublished /\ UnadmittedNew /\ QueuedFirst /\ UnfinishedUnended /\ ClaimSound
  BY DEF Init, InitTables, ChargedIfPublished, UnadmittedNew, QueuedFirst, UnfinishedUnended,
         ClaimSound, NoJob, Unfinished, JobStatus
<1>. QED
  BY <1>1, <1>2, <1>3, <1>4, <1>5 DEF IInv

LEMMA NextIInv == IInv /\ [Next]_vars => IInv'
<1> SUFFICES ASSUME IInv, [Next]_vars PROVE IInv'
  OBVIOUS
<1>1. TypeOK' /\ HistoryMatchesSnapshot' /\ ReservedWhileUnfinished' /\ ChargedIfPublished'
  BY NextTypeOK, HistoryPreserved, ReservedPreserved, ChargedPreserved DEF IInv
<1>2. UnadmittedIdle' /\ UnadmittedNew' /\ SnapshotSound' /\ LockNewest' /\ PastSound'
  BY UnadmittedPreserved, NewPreserved, SnapshotPreserved, LockPreserved, PastPreserved
<1>3. QueuedFirst' /\ UnfinishedUnended' /\ ClaimSound'
  BY QueuedPreserved, UnendedPreserved, ClaimSoundPreserved
<1>. QED
  BY <1>1, <1>2, <1>3 DEF IInv

\* The inductive invariant holds in every reachable state, however claims
\* overlap other transactions.
THEOREM Inductive == Spec => []IInv
<1>1. Init => IInv
  BY InitIInv
<1>2. IInv /\ [Next]_vars => IInv'
  BY NextIInv
<1>. QED
  BY <1>1, <1>2, PTL DEF Spec

\* The durable event log is dense and its last event explains the job's status,
\* even for a job that a racing claim ends a second time.
THEOREM HistoryCorrect == Spec => []HistoryMatchesSnapshot
<1>1. IInv => HistoryMatchesSnapshot
  BY DEF IInv
<1>. QED
  BY <1>1, Inductive, PTL

\* Every way a job can end finalizes its reservation, and nothing else does.
THEOREM ReservationCorrect == Spec => []ReservedWhileUnfinished
<1>1. IInv => ReservedWhileUnfinished
  BY DEF IInv
<1>. QED
  BY <1>1, Inductive, PTL

-----------------------------------------------------------------------------
(* The limit of live leases. *)

\* A claim sees every live lease of an unfinished job.
LEMMA LiveCounted ==
  ASSUME IInv, NEW c \in claim
  PROVE  Live \subseteq ActiveFor(c)
BY DEF IInv, PastSound, Live, ActiveFor, Past

LEMMA LimitStep ==
  ASSUME IInv, [Next]_vars, NEW j \in Jobs, lease'[j].attempts # lease[j].attempts
  PROVE  Cardinality(Live') <= Limit
<1>0. TypeOK
  BY DEF IInv
<1>1. IsFiniteSet(Live) /\ Cardinality(Live) \in Nat /\ Limit \in Nat
  <2>1. Live \subseteq Jobs
    BY DEF Live, Incomplete
  <2>. QED
    BY <2>1, FiniteAssumption, FS_Subset, FS_CardinalityType, LimitAssumption
<1>2. PICK c \in claim : ClaimAttempt(c)
  BY <1>0, LeaseShape
<1>3. c.job \in Jobs
  BY <1>0 DEF TypeOK, ClaimType
<1>4. Cardinality(Live) < Limit
  <2>1. IsFiniteSet(ActiveFor(c)) /\ Cardinality(ActiveFor(c)) \in Nat
    <3>1. ActiveFor(c) \subseteq Jobs
      BY DEF ActiveFor, Incomplete
    <3>. QED
      BY <3>1, FiniteAssumption, FS_Subset, FS_CardinalityType
  <2>2. Cardinality(Live) <= Cardinality(ActiveFor(c))
    BY <2>1, LiveCounted, SubsetBound
  <2>3. Cardinality(ActiveFor(c)) < Limit
    BY <1>2 DEF ClaimAttempt, Claimable
  <2>. QED
    BY <1>1, <2>1, <2>2, <2>3
<1>5. Live' \subseteq Live \cup {c.job}
  BY <1>0, <1>2, <1>3 DEF ClaimAttempt, Live, Incomplete, TypeOK, LeaseType, jobRow
<1>6. /\ IsFiniteSet(Live \cup {c.job})
      /\ Cardinality(Live \cup {c.job}) <= Cardinality(Live) + 1
      /\ Cardinality(Live \cup {c.job}) \in Nat
  BY <1>1, AddBound
<1>7. Cardinality(Live') <= Cardinality(Live \cup {c.job}) /\ Cardinality(Live') \in Nat
  BY <1>5, <1>6, SubsetBound
<1>. QED
  BY <1>1, <1>4, <1>6, <1>7

\* A claim that starts an attempt leaves no more live leases than the limit,
\* whatever has expired, been renewed or ended since it read the clock.
THEOREM LimitRespected == Spec => ClaimsWithinLimit
<1>1. IInv /\ [Next]_vars
      => [\A j \in Jobs : lease'[j].attempts # lease[j].attempts
            => Cardinality(Live') <= Limit]_vars
  BY LimitStep
<1>. QED
  BY <1>1, Inductive, PTL DEF Spec, ClaimsWithinLimit

-----------------------------------------------------------------------------
(* Credits. *)

Charged == {j \in Jobs : authorization[j] \in {"reserved", "settled"}}

Accounted == available + SumFunctionOnSet(Price, Charged) = Allowance

LEMMA ConservedIsSum == CreditsConserved <=> Accounted
BY DEF CreditsConserved, Charged, MapThenSumSet, Accounted, SumFunctionOnSet, FoldFunctionOnSet

\* The charged jobs have a sum, and a job more or less changes it by its price.
LEMMA ChargedSum ==
  /\ IsFiniteSet(Charged)
  /\ SumFunctionOnSet(Price, Charged) \in Nat
  /\ \A j \in Jobs : Price[j] \in Nat
<1>1. Charged \subseteq Jobs /\ Price \in [Jobs -> Nat]
  BY CreditAssumption DEF Charged
<1>2. IsFiniteSet(Charged) /\ \A j \in Charged : Price[j] \in Nat
  BY <1>1, FiniteAssumption, FS_Subset
<1>3. SumFunctionOnSet(Price, Charged) \in Nat
  BY <1>2, SumType
<1>. QED
  BY <1>1, <1>2, <1>3

LEMMA ConservedPreserved ==
  ASSUME IInv, CreditsConserved, [Next]_vars
  PROVE  CreditsConserved'
<1>1. TypeOK /\ JobType /\ CreditType /\ available \in Nat /\ Allowance \in Nat
  BY CreditAssumption DEF IInv, TypeOK, CreditType
<1>2. available + SumFunctionOnSet(Price, Charged) = Allowance
  BY ConservedIsSum DEF Accounted
<1>3. CreditsConserved' <=> Accounted'
  BY ConservedIsSum, PTL
<1>4. SUFFICES available' + SumFunctionOnSet(Price, Charged') = Allowance
  BY <1>3 DEF Accounted
<1>5. /\ IsFiniteSet(Charged) /\ SumFunctionOnSet(Price, Charged) \in Nat
      /\ \A i \in Jobs : Price[i] \in Int
  BY ChargedSum
<1>6. \A i \in Charged : Price[i] \in Int
  BY <1>5 DEF Charged
<1>7. CASE UNCHANGED credits
  BY <1>2, <1>7 DEF credits, Charged
<1>8. ASSUME NEW j \in Jobs, Admit(j)
      PROVE  available' + SumFunctionOnSet(Price, Charged') = Allowance
  <2>1. authorization[j] = "none"
    BY <1>8 DEF Admit, IInv, UnadmittedNew
  <2>2. j \notin Charged
    BY <2>1 DEF Charged
  <2>3. Charged' = Charged \cup {j}
    BY <1>1, <1>8 DEF Admit, Charged, CreditType
  <2>4. SumFunctionOnSet(Price, Charged \cup {j})
          = Price[j] + SumFunctionOnSet(Price, Charged)
    BY <1>5, <1>6, <2>2, SumAdd
  <2>5. available' = available - Price[j] /\ Price[j] \in Int
    BY <1>5, <1>8 DEF Admit
  <2>. QED
    BY <1>1, <1>2, <1>5, <2>3, <2>4, <2>5
<1>9. ASSUME NEW j \in Jobs, NEW outcome \in {"settled", "released"}, Finalize(j, outcome)
      PROVE  available' + SumFunctionOnSet(Price, Charged') = Allowance
  <2>1. CASE authorization[j] = "reserved" /\ outcome = "released"
    <3>1. j \in Charged /\ Charged' = Charged \ {j}
      BY <1>1, <1>9, <2>1 DEF Finalize, Charged, CreditType
    <3>2. SumFunctionOnSet(Price, Charged)
            = Price[j] + SumFunctionOnSet(Price, Charged \ {j})
      BY <1>5, <1>6, <3>1, SumElement
    <3>3. available' = available + Price[j] /\ Price[j] \in Int
      BY <1>5, <1>9, <2>1 DEF Finalize
    <3>4. SumFunctionOnSet(Price, Charged \ {j}) \in Int
      <4>1. IsFiniteSet(Charged \ {j})
        BY <1>5, FS_Subset
      <4>. QED
        BY <4>1, <1>6, SumType
    <3>. QED
      BY <1>1, <1>2, <1>5, <3>1, <3>2, <3>3, <3>4
  <2>2. CASE authorization[j] = "reserved" /\ outcome = "settled"
    <3>1. Charged' = Charged /\ available' = available
      BY <1>1, <1>9, <2>2 DEF Finalize, Charged, CreditType
    <3>. QED
      BY <1>2, <3>1
  <2>3. CASE authorization[j] # "reserved"
    BY <1>7, <1>9, <2>3 DEF Finalize
  <2>. QED
    BY <2>1, <2>2, <2>3
<1>10. ASSUME NEW j \in Jobs, NEW e \in EventType, Moves(j, e)
       PROVE  available' + SumFunctionOnSet(Price, Charged') = Allowance
  <2>1. Settle(j, e)
    BY <1>10 DEF Moves
  <2>. QED
    BY <2>1, <1>7, <1>9 DEF Settle
<1>11. Still => UNCHANGED credits
  BY DEF Still, credits
<1>. QED
  BY <1>1, <1>7, <1>8, <1>10, <1>11, JobShape DEF IInv

\* The balance, the credits reserved and those spent always come to the grant,
\* also where a racing claim ends a job a second time: finalize looks at the
\* authorization, not at the job.
THEOREM Conserved == Spec => []CreditsConserved
<1>1. Init => CreditsConserved
  <2>1. Init => Charged = {} /\ available = Allowance
    BY DEF Init, Charged
  <2>2. SumFunctionOnSet(Price, {}) = 0
    BY SumEmpty
  <2>. QED
    BY <2>1, <2>2, ConservedIsSum, CreditAssumption DEF Accounted
<1>2. IInv /\ CreditsConserved /\ [Next]_vars => CreditsConserved'
  BY ConservedPreserved
<1>. QED
  BY <1>1, <1>2, Inductive, PTL DEF Spec

-----------------------------------------------------------------------------
(* Outcomes. *)

\* Exactly the jobs whose artifact was published are charged, also where a
\* racing claim ends a job a second time.
THEOREM ChargedCorrect == Spec => []ChargedIfPublished
<1>1. IInv => ChargedIfPublished
  BY DEF IInv
<1>. QED
  BY <1>1, Inductive, PTL

LEMMA PublishStep ==
  ASSUME IInv, [Next]_vars, NEW j \in Jobs, artifact'[j] # artifact[j]
  PROVE  artifact[j] = 0 /\ artifact'[j] = lease[j].attempts
<1>1. PICK i \in Jobs, e \in EventType : Moves(i, e)
  BY JobShape DEF IInv, Still, Admit
<1>2. i = j /\ e = "completed"
  BY <1>1 DEF Moves
<1>3. <<status[j], e>> \in Legal \cup StorageMoves
  BY <1>1, <1>2 DEF Moves
<1>4. artifact[j] = 0
  BY <1>3, LegalUnpublished
<1>. QED
  BY <1>1, <1>2, <1>4 DEF Moves

\* A job is published once, by an attempt that is the newest one at that moment,
\* however late an attempt that lost its lease asks for it.
THEOREM NewestPublishes == Spec => PublishedOnceByNewest
<1>1. IInv /\ [Next]_vars
      => [\A j \in Jobs : artifact'[j] # artifact[j] =>
            artifact[j] = 0 /\ artifact'[j] = lease[j].attempts]_vars
  BY PublishStep
<1>. QED
  BY <1>1, Inductive, PTL DEF Spec, PublishedOnceByNewest

-----------------------------------------------------------------------------
(* The refinement of what the hosted server promises of a job. *)

LEMMA AdvanceStep ==
  ASSUME IInv, NEW j \in Jobs, NEW e \in EventType, LegalMove(j, e)
  PROVE  Lifecycle!Advance(j, e)
<1>1. /\ <<status[j], e>> \in Legal \cup StorageMoves
      /\ AppendEvent(j, e)
  BY DEF LegalMove, Moves
<1>2. artifact[j] = 0
  BY <1>1, LegalUnpublished
<1>3. (artifact'[j] # 0) = (e = "completed")
  BY <1>2 DEF LegalMove, Moves
<1>4. \A i \in Jobs \ {j} : artifact'[i] = artifact[i]
  BY DEF LegalMove, Moves
<1>5. [i \in Jobs |-> artifact'[i] # 0]
        = [[i \in Jobs |-> artifact[i] # 0] EXCEPT ![j] = (e = "completed")]
  BY <1>3, <1>4, Zenon
<1>. QED
  BY <1>1, <1>5, SameTables DEF AppendEvent, Lifecycle!Advance

\* The claim that finds the attempts exhausted may overtake the job it has read.
LEMMA OvertakeStep ==
  ASSUME IInv, NEW c \in claim, ClaimExhausts(c)
  PROVE  Lifecycle!HostedNext
<1> DEFINE j == c.job
           e == IF c.status = "cancel_requested" THEN "cancelled" ELSE "failed"
<1>1. j \in Jobs /\ e \in EventType /\ status[j] # NoJob
  BY DEF IInv, TypeOK, ClaimType, UnadmittedIdle, EventType, StatusAfter
<1>2. ~Lifecycle!Overtaken(j)
  BY DEF IInv, ClaimSound
<1>3. e = "failed" \/ (e = "cancelled" /\ Lifecycle!CancellationRequested(j))
  BY DEF IInv, ClaimSound
<1>4. AppendEvent(j, e) /\ artifact' = artifact
  BY DEF ClaimExhausts
<1>5. Lifecycle!Overtake(j, e)
  <2> HIDE DEF e
  <2>. QED
    BY <1>1, <1>2, <1>3, <1>4, SameTables DEF AppendEvent, Lifecycle!Overtake
<1>. QED
  BY <1>1, <1>5, SameTables DEF Lifecycle!HostedNext

LEMMA LifecycleStep ==
  ASSUME IInv, [Next]_vars
  PROVE  [Lifecycle!HostedNext]_(Lifecycle!vars)
<1>1. CASE Still
  BY <1>1 DEF Still, jobRow, Lifecycle!vars
<1>2. ASSUME NEW j \in Jobs, Admit(j) PROVE Lifecycle!HostedNext
  <2>1. Lifecycle!Admit(j)
    BY <1>2, SameTables DEF Admit, Lifecycle!Admit
  <2>. QED
    BY <2>1 DEF Lifecycle!HostedNext, Lifecycle!Next
<1>3. ASSUME NEW j \in Jobs, NEW e \in EventType, LegalMove(j, e)
      PROVE  Lifecycle!HostedNext
  BY <1>3, AdvanceStep, SameTables DEF Lifecycle!HostedNext, Lifecycle!Next
<1>. QED
  BY <1>1, <1>2, <1>3, OvertakeStep, HostedShape

\* The hosted server keeps the promises of HostedLifecycle, whatever dies,
\* whichever connection is lost and however late a renewal arrives.
THEOREM Implements == Spec => LifecycleSpec
<1>1. Init => Lifecycle!Init
  BY SameTables DEF Init, InitTables, Lifecycle!Init
<1>2. IInv /\ [Next]_vars => [Lifecycle!HostedNext]_(Lifecycle!vars)
  BY LifecycleStep
<1>. QED
  BY <1>1, <1>2, Inductive, PTL DEF Spec, LifecycleSpec, Lifecycle!HostedSpec
=============================================================================
