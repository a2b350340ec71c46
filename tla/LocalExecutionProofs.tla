------------------------ MODULE LocalExecutionProofs ------------------------
(***************************************************************************)
(* Proofs about LocalExecution, for any set of jobs and servers and any    *)
(* bounds.                                                                 *)
(***************************************************************************)
EXTENDS LocalExecution, JobTablesProofs, FiniteSetTheorems, TLAPS

-----------------------------------------------------------------------------
(* Type correctness. *)

LEMMA ReleaseType ==
  ASSUME LeaseType, NEW w \in Workers, ReleaseExecution(w)
  PROVE  LeaseType'
BY WorkerPair DEF LeaseType, ReleaseExecution

LEMMA SetServerType ==
  ASSUME ServerType, NEW s \in Servers, NEW r \in ServerState, SetServer(s, r)
  PROVE  ServerType'
BY DEF ServerType, SetServer

\* A type survives a step that leaves its variables alone.
LEMMA Frame ==
  ASSUME TypeOK
  PROVE  /\ UNCHANGED jobRow => JobType'
         /\ UNCHANGED <<artifact, failure>> => OutcomeType'
         /\ UNCHANGED dispatch => DispatchType'
         /\ UNCHANGED lease => LeaseType'
         /\ UNCHANGED worker => WorkerType'
         /\ UNCHANGED outputs => OutputType'
         /\ UNCHANGED server => ServerType'
BY DEF TypeOK, jobRow, JobType, OutcomeType, DispatchType, LeaseType, WorkerType,
       OutputType, ServerType

LEMMA NextTypeOK == TypeOK /\ [Next]_vars => TypeOK'
<1> SUFFICES ASSUME TypeOK, [Next]_vars PROVE TypeOK'
  OBVIOUS
<1> USE AttemptsAssumption, BoundsAssumption
<1>1. ASSUME NEW s \in Servers, Boot(s) PROVE TypeOK'
  <2>1. ServerType'
    BY <1>1, SetServerType DEF TypeOK, Boot, Down, Started, ServerType, ServerState
  <2>. QED
    BY <1>1, <2>1, Frame DEF TypeOK, Boot, tables, jobRow
<1>2. ASSUME NEW s \in Servers, Close(s) PROVE TypeOK'
  <2>1. ServerType'
    BY <1>2, SetServerType DEF TypeOK, Close, Leaving, ServerType, ServerState
  <2>. QED
    BY <1>2, <2>1, Frame DEF TypeOK, Close, tables, jobRow
<1>3. ASSUME NEW s \in Servers, SupervisorFails(s) PROVE TypeOK'
  <2>1. ServerType'
    BY <1>3, SetServerType DEF TypeOK, SupervisorFails, Leaving, ServerType, ServerState
  <2>. QED
    BY <1>3, <2>1, Frame DEF TypeOK, SupervisorFails, tables, jobRow
<1>4. ASSUME NEW s \in Servers, StopEnds(s) PROVE TypeOK'
  <2>1. ServerType'
    BY <1>4, SetServerType DEF TypeOK, StopEnds, ServerType, ServerState
  <2>. QED
    BY <1>4, <2>1, Frame DEF TypeOK, StopEnds, tables, jobRow
<1>5. ASSUME NEW s \in Servers, Closed(s) PROVE TypeOK'
  <2>1. ServerType'
    BY <1>5, SetServerType DEF TypeOK, Closed, Down, ServerType, ServerState
  <2>. QED
    BY <1>5, <2>1, Frame DEF TypeOK, Closed, tables, jobRow
<1>6. ASSUME NEW s \in Servers, Crash(s) PROVE TypeOK'
  <2>1. ServerType'
    BY <1>6, SetServerType DEF TypeOK, Crash, Down, ServerType, ServerState
  <2>. QED
    BY <1>6, <2>1, Frame DEF TypeOK, Crash, tables, jobRow
<1>7. ASSUME NEW s \in Servers, NEW j \in Jobs, Submit(s, j) PROVE TypeOK'
  <2>1. ServerType'
    BY <1>7, SetServerType DEF TypeOK, Submit, Started, ServerType, ServerState
  <2>2. JobType'
    BY <1>7 DEF TypeOK, Submit, JobType, JobStatus
  <2>3. DispatchType'
    BY <1>7 DEF TypeOK, Submit, DispatchType
  <2>. QED
    BY <1>7, <2>1, <2>2, <2>3, Frame DEF TypeOK, Submit, tables, jobRow
<1>8. ASSUME NEW s \in Servers, NEW j \in Jobs, Cancel(s, j) PROVE TypeOK'
  <2>1. JobType'
    BY <1>8, CancellationType DEF TypeOK, Cancel
  <2>. QED
    BY <1>8, <2>1, Frame DEF TypeOK, Cancel, tables, jobRow
<1>9. ASSUME NEW s \in Servers, NEW j \in Jobs, Claim(s, j) PROVE TypeOK'
  <2>1. <<j, lease[j].attempts + 1>> \in Workers
    BY <1>9 DEF TypeOK, Claim, LeaseType, Workers, Attempts
  <2>2. ServerType'
    BY <1>9, <2>1, SetServerType DEF TypeOK, Claim, ServerType, ServerState
  <2>3. DispatchType'
    BY <1>9, SetDispatchType DEF TypeOK, Claim
  <2>4. LeaseType'
    BY <1>9 DEF TypeOK, Claim, LeaseType
  <2>. QED
    BY <1>9, <2>1, <2>2, <2>3, <2>4, Frame DEF TypeOK, Claim, tables, jobRow
<1>10. ASSUME NEW s \in Servers, NEW j \in Jobs, Exhaust(s, j) PROVE TypeOK'
  <2>1. JobType'
    BY <1>10, AppendEventType DEF TypeOK, Exhaust, EventType, StatusAfter
  <2>2. DispatchType'
    BY <1>10, SetDispatchType DEF TypeOK, Exhaust
  <2>3. OutcomeType'
    BY <1>10 DEF TypeOK, Exhaust, OutcomeType
  <2>. QED
    BY <1>10, <2>1, <2>2, <2>3, Frame DEF TypeOK, Exhaust, tables, jobRow
<1>11. ASSUME NEW s \in Servers, NEW w \in Workers, Spawn(s, w) PROVE TypeOK'
  <2>1. ServerType'
    BY <1>11, SetServerType DEF TypeOK, Spawn, ServerType, ServerState
  <2>2. WorkerType'
    BY <1>11, PCNames DEF TypeOK, Spawn, WorkerType, WorkerState
  <2>. QED
    BY <1>11, <2>1, <2>2, Frame DEF TypeOK, Spawn, tables, jobRow
<1>12. ASSUME NEW s \in Servers, NEW w \in Workers, SpawnFails(s, w) PROVE TypeOK'
  <2>1. ServerType'
    BY <1>12, SetServerType DEF TypeOK, SpawnFails, ServerType, ServerState
  <2>2. LeaseType'
    BY <1>12, ReleaseType DEF TypeOK, SpawnFails
  <2>. QED
    BY <1>12, <2>1, <2>2, Frame DEF TypeOK, SpawnFails, tables, jobRow
<1>13. ASSUME NEW s \in Servers, NEW w \in Workers, Reap(s, w) PROVE TypeOK'
  <2>1. ServerType'
    BY <1>13, SetServerType DEF TypeOK, Reap, ServerType, ServerState
  <2>2. LeaseType'
    BY <1>13, ReleaseType DEF TypeOK, Reap
  <2>. QED
    BY <1>13, <2>1, <2>2, Frame DEF TypeOK, Reap, tables, jobRow
<1>14. ASSUME NEW s \in Servers, NEW w \in Workers, StopChild(s, w) PROVE TypeOK'
  <2>1. ServerType'
    BY <1>14, SetServerType DEF TypeOK, StopChild, ServerType, ServerState
  <2>2. JobType'
    BY <1>14, CancellationType, WorkerPair DEF TypeOK, StopChild
  <2>. QED
    BY <1>14, <2>1, <2>2, Frame DEF TypeOK, StopChild, tables, jobRow
<1>15. ASSUME NEW s \in Servers, NEW w \in Workers, ReapStopped(s, w) PROVE TypeOK'
  <2>1. ServerType'
    BY <1>15, SetServerType DEF TypeOK, ReapStopped, ServerType, ServerState
  <2>2. LeaseType'
    BY <1>15, ReleaseType DEF TypeOK, ReapStopped
  <2>. QED
    BY <1>15, <2>1, <2>2, Frame DEF TypeOK, ReapStopped, tables, jobRow
<1>16. ASSUME NEW w \in Workers, LoadDispatch(w) PROVE TypeOK'
  <2>1. WorkerType'
    BY <1>16, WorkerPair, PCNames, LoadType DEF TypeOK, LoadDispatch, DispatchType
  <2>. QED
    BY <1>16, <2>1, Frame DEF TypeOK, LoadDispatch, tables, jobRow
<1>17. ASSUME NEW w \in Workers, Read(w) PROVE TypeOK'
  <2>1. WorkerType'
    BY <1>17, WorkerPair, ReadFacts, ReadType DEF TypeOK, Read, JobType
  <2>2. OutputType'
    BY <1>17, WorkerPair DEF TypeOK, Read, OutputType
  <2>. QED
    BY <1>17, <2>1, <2>2, Frame DEF TypeOK, Read, tables, jobRow
<1>18. ASSUME NEW w \in Workers, Commit(w) PROVE TypeOK'
  <2>1. WorkerType'
    BY <1>18, PCFacts, GotoType DEF TypeOK, Commit
  <2>2. JobType'
    BY <1>18, WorkerPair, PCFacts, AppendEventType DEF TypeOK, Commit
  <2>3. OutcomeType'
    BY <1>18, WorkerPair DEF TypeOK, Commit, OutcomeType, Attempts
  <2>. QED
    BY <1>18, <2>1, <2>2, <2>3, Frame DEF TypeOK, Commit, tables, jobRow
<1>19. ASSUME NEW w \in Workers, CommitStale(w) PROVE TypeOK'
  <2>1. WorkerType'
    BY <1>19, PCFacts, GotoType DEF TypeOK, CommitStale
  <2>. QED
    BY <1>19, <2>1, Frame DEF TypeOK, CommitStale, tables, jobRow
<1>20. ASSUME NEW w \in Workers, MarkRunning(w) PROVE TypeOK'
  <2>1. DispatchType'
    BY <1>20, PCNames, UpdateDispatchType DEF TypeOK, MarkRunning
  <2>2. WorkerType'
    BY <1>20, PCNames, UpdateDispatchType DEF TypeOK, MarkRunning
  <2>. QED
    BY <1>20, <2>1, <2>2, Frame DEF TypeOK, MarkRunning, tables, jobRow
<1>21. ASSUME NEW w \in Workers, DropDispatch(w) PROVE TypeOK'
  <2>1. DispatchType'
    BY <1>21, PCNames, UpdateDispatchType DEF TypeOK, DropDispatch
  <2>2. WorkerType'
    BY <1>21, PCNames, UpdateDispatchType DEF TypeOK, DropDispatch
  <2>. QED
    BY <1>21, <2>1, <2>2, Frame DEF TypeOK, DropDispatch, tables, jobRow
<1>22. ASSUME NEW w \in Workers, RenderEnds(w) PROVE TypeOK'
  <2>1. WorkerType'
    BY <1>22, PCNames, GotoType DEF TypeOK, RenderEnds
  <2>2. OutputType'
    BY <1>22, WorkerPair DEF TypeOK, RenderEnds, OutputType
  <2>. QED
    BY <1>22, <2>1, <2>2, Frame DEF TypeOK, RenderEnds, tables, jobRow
<1>23. ASSUME NEW w \in Workers, RenderRaises(w) PROVE TypeOK'
  <2>1. WorkerType'
    BY <1>23, PCNames, GotoType DEF TypeOK, RenderRaises
  <2>. QED
    BY <1>23, <2>1, Frame DEF TypeOK, RenderRaises, tables, jobRow
<1>24. ASSUME NEW w \in Workers, Finish(w) PROVE TypeOK'
  <2>1. WorkerType'
    BY <1>24, WorkerPair, PCNames, LoadType DEF TypeOK, Finish, DispatchType
  <2>. QED
    BY <1>24, <2>1, Frame DEF TypeOK, Finish, tables, jobRow
<1>25. ASSUME NEW w \in Workers, CloseDispatch(w) PROVE TypeOK'
  <2>1. WorkerType'
    BY <1>25, PCNames, GotoType DEF TypeOK, CloseDispatch
  <2>2. DispatchType'
    BY <1>25, WorkerPair, SetDispatchType DEF TypeOK, CloseDispatch, DispatchType
  <2>. QED
    BY <1>25, <2>1, <2>2, Frame DEF TypeOK, CloseDispatch, tables, jobRow
<1>26. ASSUME NEW w \in Workers, CloseRefused(w) PROVE TypeOK'
  <2>1. WorkerType'
    BY <1>26, PCNames, GotoType DEF TypeOK, CloseRefused
  <2>2. OutputType'
    BY <1>26, WorkerPair DEF TypeOK, CloseRefused, OutputType
  <2>. QED
    BY <1>26, <2>1, <2>2, Frame DEF TypeOK, CloseRefused, tables, jobRow
<1>27. ASSUME NEW w \in Workers, Exit(w) PROVE TypeOK'
  <2>1. WorkerType'
    BY <1>27, GoneType DEF TypeOK, Exit
  <2>2. LeaseType'
    BY <1>27, ReleaseType DEF TypeOK, Exit
  <2>. QED
    BY <1>27, <2>1, <2>2, Frame DEF TypeOK, Exit, tables, jobRow
<1>28. ASSUME NEW w \in Workers, Unwind(w) PROVE TypeOK'
  <2>1. WorkerType'
    BY <1>28, PCNames, GotoType DEF TypeOK, Unwind
  <2>. QED
    BY <1>28, <2>1, Frame DEF TypeOK, Unwind, tables, jobRow
<1>29. ASSUME NEW w \in Workers, Die(w) PROVE TypeOK'
  <2>1. WorkerType'
    BY <1>29, GoneType DEF TypeOK, Die
  <2>. QED
    BY <1>29, <2>1, Frame DEF TypeOK, Die, tables, jobRow
<1>30. ASSUME NEW w \in Workers, KillTree(w) PROVE TypeOK'
  <2>1. WorkerType'
    BY <1>30, GoneType DEF TypeOK, KillTree
  <2>. QED
    BY <1>30, <2>1, Frame DEF TypeOK, KillTree, tables, jobRow
<1>31. ASSUME NEW j \in Jobs, Expire(j) PROVE TypeOK'
  <2>1. LeaseType'
    BY <1>31 DEF TypeOK, Expire, LeaseType
  <2>. QED
    BY <1>31, <2>1, Frame DEF TypeOK, Expire, tables, jobRow
<1>32. CASE UNCHANGED vars
  BY <1>32, Frame DEF vars, tables, TypeOK
<1>. QED
  BY <1>1, <1>2, <1>3, <1>4, <1>5, <1>6, <1>7, <1>8, <1>9, <1>10, <1>11,
     <1>12, <1>13, <1>14, <1>15, <1>16, <1>17, <1>18, <1>19, <1>20, <1>21,
     <1>22, <1>23, <1>24, <1>25, <1>26, <1>27, <1>28, <1>29, <1>30, <1>31,
     <1>32
     DEF Next, ServerStep, JobStep, ChildStep, WorkerStep

LEMMA InitTypeOK == Init => TypeOK
BY AttemptsAssumption, BoundsAssumption
   DEF Init, InitTables, TypeOK, JobType, OutcomeType, DispatchType, LeaseType, WorkerType, WorkerState,
       OutputType, ServerType, ServerState, Idle, Down, PC

\* Every variable keeps its type.
THEOREM TypeCorrect == Spec => []TypeOK
<1>1. Init => TypeOK
  BY InitTypeOK
<1>2. TypeOK /\ [Next]_vars => TypeOK'
  BY NextTypeOK
<1>. QED
  BY <1>1, <1>2, PTL DEF Spec

-----------------------------------------------------------------------------
(* What a step may do to the job tables: nothing, the admission of a job, or *)
(* one legal move of one job.                                                *)

Still == UNCHANGED <<jobRow, artifact, failure>>

Admits(j) == /\ status[j] = NoJob
             /\ status' = [status EXCEPT ![j] = "queued"]
             /\ dispatch' = [dispatch EXCEPT ![j] = [status |-> "pending", version |-> 0]]
             /\ UNCHANGED <<version, events, artifact, failure>>

Moves(j, e) ==
  /\ <<status[j], e>> \in Legal \cup StorageMoves
  /\ AppendEvent(j, e)
  /\ \A i \in Jobs \ {j} : artifact'[i] = artifact[i] /\ failure'[i] = failure[i]
  /\ IF e = "completed" THEN artifact'[j] \in outputs[j] /\ artifact'[j] = lease[j].attempts
     ELSE artifact'[j] = artifact[j]
  /\ e = "failed" => failure'[j] # "none"
  /\ e \notin {"failed", "cancelled"} => failure'[j] = failure[j]

LEMMA CancellationMoves ==
  ASSUME NEW j \in Jobs, RequestCancellation(j), UNCHANGED <<artifact, failure>>
  PROVE  Still \/ \E e \in EventType : Moves(j, e)
<1>1. CASE status[j] \in {"queued", "running"}
  <2>1. CancellationEvent(j) \in EventType
    BY DEF CancellationEvent, EventType, StatusAfter
  <2>2. Moves(j, CancellationEvent(j))
    BY <1>1 DEF Moves, RequestCancellation, CancellationEvent, Legal, StorageMoves, CancelledAtOnce,
       FailedInQueue
  <2>. QED
    BY <2>1, <2>2
<1>2. CASE status[j] \notin {"queued", "running"}
  BY <1>2 DEF RequestCancellation, Still
<1>. QED
  BY <1>1, <1>2

LEMMA CommitMoves ==
  ASSUME TypeOK, SnapshotSound, OutputWritten, NEW w \in Workers, Commit(w)
  PROVE  Moves(w[1], CommitEvent[worker[w].pc])
<1> DEFINE j == w[1]
           e == CommitEvent[worker[w].pc]
<1>1. <<status[j], e>> \in Legal
  BY DEF Commit, Accepted, SnapshotSound
<1>2. e = "completed" => worker[w].pc = "completing"
  BY DEF Commit, Committing, CommitEvent
<1>3. artifact \in [Jobs -> 0 .. MaxAttempts] /\ failure \in [Jobs -> {"none", "worker_lost", "execution_failed"}]
  BY DEF TypeOK, OutcomeType
<1>4. e = "completed" => artifact'[j] \in outputs[j] /\ artifact'[j] = lease[j].attempts
  BY <1>2, <1>3, WorkerPair DEF Commit, OutputWritten, Accepted, Holds
<1>5. e # "completed" => artifact'[j] = artifact[j]
  BY <1>3, WorkerPair DEF Commit
<1>6. \A i \in Jobs \ {j} : artifact'[i] = artifact[i] /\ failure'[i] = failure[i]
  BY <1>3, WorkerPair DEF Commit
<1>7. failure'[j] = IF e = "failed" THEN "execution_failed" ELSE failure[j]
  BY <1>3, WorkerPair DEF Commit
<1>. QED
  BY <1>1, <1>4, <1>5, <1>6, <1>7 DEF Moves, Commit

LEMMA ExhaustMoves ==
  ASSUME TypeOK, NEW s \in Servers, NEW j \in Jobs, Exhaust(s, j)
  PROVE  \E e \in EventType : Moves(j, e)
<1> DEFINE e == IF status[j] = "cancel_requested" THEN "cancelled" ELSE "failed"
<1>1. e \in EventType
  BY DEF EventType, StatusAfter
<1>2. status[j] \in {"queued", "running", "cancel_requested"}
  BY DEF Exhaust, Claimable, Incomplete, Unfinished, JobStatus, Terminal
<1>3. Moves(j, e)
  BY <1>2 DEF Exhaust, Moves, Legal, StorageMoves, CancelledAtOnce, FailedInQueue, TypeOK, OutcomeType
<1>. QED
  BY <1>1, <1>3

LEMMA JobShape ==
  ASSUME TypeOK, SnapshotSound, OutputWritten, [Next]_vars
  PROVE  Still \/ \E j \in Jobs : Admits(j) \/ \E e \in EventType : Moves(j, e)
<1>1. ASSUME NEW s \in Servers, ServerStep(s) PROVE Still
  BY <1>1 DEF ServerStep, Boot, Close, SupervisorFails, StopEnds, Closed, Crash, Still, tables
<1>2. ASSUME NEW s \in Servers, NEW j \in Jobs, JobStep(s, j)
      PROVE  Still \/ Admits(j) \/ \E e \in EventType : Moves(j, e)
  <2>1. CASE Submit(s, j)
    BY <2>1 DEF Submit, Admits
  <2>2. CASE Cancel(s, j)
    BY <2>2, CancellationMoves DEF Cancel
  <2>3. CASE Claim(s, j)
    BY <2>3 DEF Claim, Still
  <2>4. CASE Exhaust(s, j)
    BY <2>4, ExhaustMoves
  <2>. QED
    BY <1>2, <2>1, <2>2, <2>3, <2>4 DEF JobStep
<1>3. ASSUME NEW s \in Servers, NEW w \in Workers, ChildStep(s, w)
      PROVE  Still \/ \E e \in EventType : Moves(w[1], e)
  <2>1. CASE StopChild(s, w)
    BY <2>1, CancellationMoves, WorkerPair DEF StopChild
  <2>2. CASE Spawn(s, w) \/ SpawnFails(s, w) \/ Reap(s, w) \/ ReapStopped(s, w)
    BY <2>2 DEF Spawn, SpawnFails, Reap, ReapStopped, Still, tables
  <2>. QED
    BY <1>3, <2>1, <2>2 DEF ChildStep
<1>4. ASSUME NEW w \in Workers, WorkerStep(w)
      PROVE  Still \/ \E e \in EventType : Moves(w[1], e)
  <2>1. CASE Commit(w)
    BY <2>1, CommitMoves, PCFacts DEF Commit
  <2>2. CASE \/ LoadDispatch(w) \/ Read(w) \/ CommitStale(w) \/ MarkRunning(w)
             \/ DropDispatch(w) \/ RenderEnds(w) \/ RenderRaises(w) \/ Finish(w)
             \/ CloseDispatch(w) \/ CloseRefused(w) \/ Exit(w)
    BY <2>2 DEF LoadDispatch, Read, CommitStale, MarkRunning, DropDispatch, RenderEnds,
                RenderRaises, Finish, CloseDispatch, CloseRefused, Exit, Still, tables
  <2>. QED
    BY <1>4, <2>1, <2>2 DEF WorkerStep
<1>5. ASSUME NEW w \in Workers, Unwind(w) \/ Die(w) \/ KillTree(w) PROVE Still
  BY <1>5 DEF Unwind, Die, KillTree, Still, tables
<1>6. ASSUME NEW j \in Jobs, Expire(j) PROVE Still
  BY <1>6 DEF Expire, Still
<1>7. CASE UNCHANGED vars
  BY <1>7 DEF vars, tables, Still
<1>. QED
  BY <1>1, <1>2, <1>3, <1>4, <1>5, <1>6, <1>7, WorkerPair DEF Next

-----------------------------------------------------------------------------
(* The invariants of the job tables. *)

LEMMA AdmitFacts ==
  ASSUME JobType, NEW i \in Jobs, Admits(i), NEW j \in Jobs
  PROVE  /\ version'[j] = version[j]
         /\ events'[j] = events[j]
         /\ status'[j] = IF i = j THEN "queued" ELSE status[j]
BY DEF JobType, Admits

LEMMA HistoryPreserved ==
  ASSUME TypeOK, HistoryMatchesSnapshot, SnapshotSound, OutputWritten, [Next]_vars
  PROVE  HistoryMatchesSnapshot'
<1>1. \A j \in Jobs : Admits(j) => Enters(j)
  BY DEF Admits, Enters
<1>2. \A j \in Jobs, e \in EventType : Moves(j, e) => AppendEvent(j, e)
  BY DEF Moves
<1>. QED
  BY <1>1, <1>2, JobShape, HistoryKept DEF TypeOK, Still

LEMMA OutcomePreserved ==
  ASSUME TypeOK, OutcomeRecorded, SnapshotSound, OutputWritten, [Next]_vars
  PROVE  OutcomeRecorded'
<1> SUFFICES ASSUME NEW j \in Jobs
             PROVE  /\ artifact'[j] # 0 <=> status'[j] = "succeeded"
                    /\ status'[j] = "failed" => failure'[j] # "none"
                    /\ failure'[j] # "none" => status'[j] \in {"failed", "cancelled"}
  BY DEF OutcomeRecorded
<1>1. JobType /\ outputs[j] \subseteq Attempts
  BY DEF TypeOK, OutputType
<1>2. /\ artifact[j] # 0 <=> status[j] = "succeeded"
      /\ status[j] = "failed" => failure[j] # "none"
      /\ failure[j] # "none" => status[j] \in {"failed", "cancelled"}
  BY DEF OutcomeRecorded
<1>3. CASE Still
  BY <1>2, <1>3 DEF Still, jobRow
<1>4. ASSUME NEW i \in Jobs, Admits(i)
      PROVE  /\ artifact'[j] # 0 <=> status'[j] = "succeeded"
             /\ status'[j] = "failed" => failure'[j] # "none"
             /\ failure'[j] # "none" => status'[j] \in {"failed", "cancelled"}
  BY <1>1, <1>2, <1>4, AdmitFacts DEF Admits, NoJob
<1>5. ASSUME NEW i \in Jobs, NEW e \in EventType, Moves(i, e)
      PROVE  /\ artifact'[j] # 0 <=> status'[j] = "succeeded"
             /\ status'[j] = "failed" => failure'[j] # "none"
             /\ failure'[j] # "none" => status'[j] \in {"failed", "cancelled"}
  <2>0. AppendEvent(i, e)
    BY <1>5 DEF Moves
  <2>1. CASE i # j
    BY <1>1, <1>2, <1>5, <2>0, <2>1, MoveFacts DEF Moves
  <2>2. CASE i = j
    <3>1. status'[j] = StatusAfter[e]
      BY <1>1, <2>0, <2>2, MoveFacts
    <3>2. status[j] \in {"queued", "running", "cancel_requested"}
      BY <1>5, <2>2, LegalFacts DEF Moves
    <3>3. artifact[j] = 0 /\ failure[j] = "none"
      BY <1>2, <3>2
    <3>4. 0 \notin outputs[j]
      BY <1>1, AttemptsAssumption, BoundsAssumption DEF Attempts
    <3>. QED
      BY <1>5, <2>2, <3>1, <3>3, <3>4, StatusFacts DEF Moves
  <2>. QED
    BY <2>1, <2>2
<1>. QED
  BY <1>3, <1>4, <1>5, JobShape

-----------------------------------------------------------------------------
(* What a step may do to the rest. *)

\* A job only moves forward: its status stands still, or its version grows.
LEMMA JobForward ==
  ASSUME TypeOK, SnapshotSound, OutputWritten, [Next]_vars, NEW j \in Jobs
  PROVE  /\ version[j] <= version'[j]
         /\ version'[j] = version[j] => status'[j] = status[j] \/ status[j] = NoJob
         /\ status[j] \in Terminal \cup {"cancel_requested"}
              => status'[j] \in Terminal \cup {"cancel_requested"}
         /\ status[j] \in Terminal => status'[j] \in Terminal
         /\ status'[j] \in {"queued", "running"}
              => status[j] \in {"queued", "running", NoJob}
         /\ status[j] # NoJob => status'[j] # NoJob
<1>1. JobType /\ version[j] \in Nat
  BY DEF TypeOK, JobType
<1>2. CASE Still
  BY <1>1, <1>2 DEF Still, jobRow
<1>3. ASSUME NEW i \in Jobs, Admits(i)
      PROVE  version'[j] = version[j] /\ (status'[j] = status[j] \/ (status[j] = NoJob /\ status'[j] = "queued"))
  BY <1>1, <1>3, AdmitFacts DEF Admits
<1>4. ASSUME NEW i \in Jobs, NEW e \in EventType, Moves(i, e)
      PROVE  \/ version'[j] = version[j] /\ status'[j] = status[j]
             \/ /\ version'[j] = version[j] + 1
                /\ status'[j] = StatusAfter[e]
                /\ <<status[j], e>> \in Legal \cup StorageMoves
  BY <1>1, <1>4, MoveFacts DEF Moves
<1>5. CASE \E e \in EventType : /\ version'[j] = version[j] + 1
                                /\ status'[j] = StatusAfter[e]
                                /\ <<status[j], e>> \in Legal \cup StorageMoves
  BY <1>1, <1>5, LegalFacts, StatusFacts DEF Terminal, NoJob
<1>. QED
  BY <1>1, <1>2, <1>3, <1>4, <1>5, JobShape DEF Still, jobRow, NoJob, Terminal

\* Only its own program, its start and its death change a worker.
LEMMA WorkerShape ==
  ASSUME TypeOK, [Next]_vars, NEW w \in Workers
  PROVE  \/ worker'[w] = worker[w]
         \/ WorkerStep(w) \/ Unwind(w) \/ Die(w) \/ KillTree(w)
         \/ \E s \in Servers : Spawn(s, w)
<1>1. ASSUME NEW s \in Servers, ServerStep(s) PROVE worker' = worker
  BY <1>1 DEF ServerStep, Boot, Close, SupervisorFails, StopEnds, Closed, Crash
<1>2. ASSUME NEW s \in Servers, NEW j \in Jobs, JobStep(s, j) PROVE worker' = worker
  BY <1>2 DEF JobStep, Submit, Cancel, Claim, Exhaust
<1>3. ASSUME NEW s \in Servers, NEW u \in Workers, ChildStep(s, u)
      PROVE  worker'[w] = worker[w] \/ Spawn(s, w)
  BY <1>3 DEF ChildStep, Spawn, SpawnFails, Reap, StopChild, ReapStopped, TypeOK, WorkerType
<1>4. ASSUME NEW u \in Workers, u # w, WorkerStep(u) \/ Unwind(u) \/ Die(u) \/ KillTree(u)
      PROVE  worker'[w] = worker[w]
  BY <1>4 DEF WorkerStep, LoadDispatch, Read, Commit, CommitStale, MarkRunning, DropDispatch,
       UpdateDispatch, RenderEnds, RenderRaises, Finish, CloseDispatch, CloseRefused, Exit,
       Unwind, Die, KillTree, Goto, Gone, TypeOK, WorkerType
<1>5. ASSUME NEW j \in Jobs, Expire(j) PROVE worker' = worker
  BY <1>5 DEF Expire
<1>6. CASE UNCHANGED vars
  BY <1>6 DEF vars
<1>. QED
  BY <1>1, <1>2, <1>3, <1>4, <1>5, <1>6 DEF Next

\* Every step of a worker other than a read and a successful commit leaves it
\* at a point that neither commits nor marks its dispatch.
Quiet(w) ==
  /\ worker'[w].pc \notin Committing \cup {"marking", "earlyAcking"}
  /\ worker'[w].seen \in {0, worker[w].seen}
  /\ \/ worker'[w].dver \in {0, worker[w].dver}
     \/ worker'[w].dver = dispatch[w[1]].version /\ dispatch' = dispatch
  /\ worker'[w].pc = "rendered" => RenderEnds(w)
  /\ worker'[w].pc = "dropping" => worker[w].pc = "earlyCancelling"

LEMMA GotoQuiet ==
  ASSUME WorkerType, NEW w \in Workers,
         NEW pc \in PC \ (Committing \cup {"marking", "earlyAcking", "rendered", "dropping"}),
         Goto(w, pc)
  PROVE  Quiet(w)
<1>1. worker'[w] = [pc |-> pc, seen |-> 0, dver |-> worker[w].dver]
  BY GotoFacts
<1>2. worker'[w].pc = pc /\ worker'[w].seen = 0 /\ worker'[w].dver = worker[w].dver
  BY <1>1
<1>3. /\ pc \notin Committing \cup {"marking", "earlyAcking"}
      /\ pc # "rendered" /\ pc # "dropping"
  OBVIOUS
<1>. QED
  BY <1>2, <1>3 DEF Quiet

LEMMA GoneQuiet ==
  ASSUME WorkerType, NEW w \in Workers, Gone(w)
  PROVE  Quiet(w)
BY GoneFacts DEF Quiet, Committing, CommitEvent

LEMMA QuietNames ==
  {"starting", "loaded", "rendering", "acking", "erring", "finishing", "closing",
   "exiting", "done"}
    \subseteq PC \ (Committing \cup {"marking", "earlyAcking", "rendered", "dropping"})
BY DEF PC, Reading, Committing, CommitEvent

LEMMA WorkerSteps ==
  ASSUME TypeOK, [Next]_vars, NEW w \in Workers
  PROVE  worker'[w] = worker[w] \/ Read(w) \/ Commit(w) \/ Quiet(w)
<1>0. WorkerType
  BY DEF TypeOK
<1>1. CASE LoadDispatch(w)
  <2>1. /\ worker'[w].pc \in {"loaded", "exiting"}
        /\ worker'[w].seen = worker[w].seen
        /\ worker'[w].dver = dispatch[w[1]].version
    BY <1>0, <1>1 DEF LoadDispatch, WorkerType, WorkerState
  <2>. QED
    BY <1>1, <2>1 DEF Quiet, LoadDispatch, tables, Committing, CommitEvent
<1>2. CASE CommitStale(w)
  <2>1. /\ worker[w].pc \in Committing
        /\ worker'[w] = [pc |-> AfterStale[worker[w].pc], seen |-> 0, dver |-> worker[w].dver]
    BY <1>0, <1>2, GotoFacts DEF CommitStale
  <2>2. worker'[w].pc = AfterStale[worker[w].pc]
    BY <2>1
  <2>3. /\ worker'[w].pc \notin Committing \cup {"marking", "earlyAcking", "rendered"}
        /\ worker'[w].pc = "dropping" => worker[w].pc = "earlyCancelling"
    BY <2>1, <2>2 DEF Committing, CommitEvent, AfterStale
  <2>. QED
    BY <2>1, <2>3 DEF Quiet
<1>3. CASE MarkRunning(w)
  BY <1>0, <1>3, GotoQuiet, QuietNames DEF MarkRunning, UpdateDispatch
<1>4. CASE DropDispatch(w)
  BY <1>0, <1>4, GotoQuiet, QuietNames DEF DropDispatch, UpdateDispatch
<1>5. CASE RenderEnds(w)
  <2>1. worker'[w] = [pc |-> "rendered", seen |-> 0, dver |-> worker[w].dver]
    BY <1>0, <1>5, GotoFacts DEF RenderEnds
  <2>. QED
    BY <1>5, <2>1 DEF Quiet, Committing, CommitEvent
<1>6. CASE RenderRaises(w)
  BY <1>0, <1>6, GotoQuiet, QuietNames DEF RenderRaises
<1>7. CASE Finish(w)
  <2>1. /\ worker'[w].pc \in {"closing", "exiting"}
        /\ worker'[w].seen = worker[w].seen
        /\ worker'[w].dver = dispatch[w[1]].version
    BY <1>0, <1>7 DEF Finish, WorkerType, WorkerState
  <2>. QED
    BY <1>7, <2>1 DEF Quiet, Finish, tables, Committing, CommitEvent
<1>8. CASE CloseDispatch(w)
  BY <1>0, <1>8, GotoQuiet, QuietNames DEF CloseDispatch
<1>9. CASE CloseRefused(w)
  BY <1>0, <1>9, GotoQuiet, QuietNames DEF CloseRefused
<1>10. CASE Exit(w)
  BY <1>0, <1>10, GoneQuiet DEF Exit
<1>11. CASE Unwind(w)
  BY <1>0, <1>11, GotoQuiet, QuietNames DEF Unwind
<1>12. CASE Die(w) \/ KillTree(w)
  BY <1>0, <1>12, GoneQuiet DEF Die, KillTree
<1>13. ASSUME NEW s \in Servers, Spawn(s, w) PROVE Quiet(w)
  <2>1. worker'[w] = [pc |-> "starting", seen |-> worker[w].seen, dver |-> worker[w].dver]
    BY <1>0, <1>13 DEF Spawn, WorkerType, WorkerState
  <2>. QED
    BY <2>1 DEF Quiet, Committing, CommitEvent
<1>. QED
  BY <1>1, <1>2, <1>3, <1>4, <1>5, <1>6, <1>7, <1>8, <1>9, <1>10, <1>11, <1>12, <1>13,
     WorkerShape DEF WorkerStep

\* What a read and a commit do to their worker.
LEMMA ReadWorker ==
  ASSUME WorkerType, NEW w \in Workers, Read(w)
  PROVE  /\ worker[w].pc \in Reading
         /\ worker'[w].pc = AfterRead(worker[w].pc, status[w[1]])
         /\ worker'[w].seen = IF worker'[w].pc \in Committing THEN version[w[1]] ELSE 0
         /\ worker'[w].dver = worker[w].dver
         /\ worker'[w].pc \in Committing
              => <<status[w[1]], CommitEvent[worker'[w].pc]>> \in Legal
         /\ worker'[w].pc \notin {"marking", "rendered"}
         /\ worker'[w].pc = "completing"
              => worker[w].pc = "rendered" /\ status[w[1]] # "cancel_requested"
         /\ worker'[w].pc \in {"earlyAcking", "earlyCancelling"}
              => status[w[1]] = "cancel_requested"
         /\ worker'[w].pc = "dropping"
              => worker[w].pc = "earlyAcking" \/ status[w[1]] = "cancelled"
BY ReadMemory DEF Read, Reads

LEMMA CommitWorker ==
  ASSUME WorkerType, NEW w \in Workers, Commit(w)
  PROVE  /\ worker[w].pc \in Committing
         /\ worker'[w].pc = AfterCommit[worker[w].pc]
         /\ worker'[w].pc \notin Committing \cup {"earlyAcking", "rendered"}
         /\ worker'[w].pc = "dropping" => worker[w].pc = "earlyCancelling"
         /\ worker'[w].seen = 0
         /\ worker'[w].dver = worker[w].dver
<1>1. /\ worker[w].pc \in Committing
      /\ worker'[w] = [pc |-> AfterCommit[worker[w].pc], seen |-> 0, dver |-> worker[w].dver]
  BY GotoFacts DEF Commit
<1>2. worker'[w].pc = AfterCommit[worker[w].pc]
  BY <1>1
<1>3. /\ worker'[w].pc \notin Committing \cup {"earlyAcking", "rendered"}
      /\ worker'[w].pc = "dropping" => worker[w].pc = "earlyCancelling"
  BY <1>1, <1>2 DEF Committing, CommitEvent, AfterCommit
<1>. QED
  BY <1>1, <1>2, <1>3

\* What a step may do to the dispatch of job j.
DispatchMay(j) ==
  \/ dispatch'[j] = dispatch[j]
  \/ /\ status[j] = NoJob
     /\ dispatch'[j] = [status |-> "pending", version |-> 0]
  \/ /\ dispatch'[j].version = dispatch[j].version + 1
     /\ \/ dispatch'[j].status = "pending" /\ status[j] \in Unfinished /\ Still
        \/ dispatch'[j].status = "running" /\ Still
             /\ \E a \in Attempts : worker[<<j, a>>].pc = "marking"
        \/ dispatch'[j].status = "cancelled" /\ Still
             /\ status[j] \in Terminal \cup {"cancel_requested"}
        \/ dispatch'[j].status = "done" /\ status'[j] \in Terminal

LEMMA DispatchShape ==
  ASSUME TypeOK, SkipSound, [Next]_vars, NEW j \in Jobs
  PROVE  DispatchMay(j)
<1>0. DispatchType /\ JobType
  BY DEF TypeOK
<1>1. ASSUME NEW s \in Servers, ServerStep(s) PROVE dispatch' = dispatch
  BY <1>1 DEF ServerStep, Boot, Close, SupervisorFails, StopEnds, Closed, Crash, tables
<1>2. ASSUME NEW s \in Servers, NEW i \in Jobs, JobStep(s, i) PROVE DispatchMay(j)
  <2>1. CASE Submit(s, i)
    BY <1>0, <2>1 DEF Submit, DispatchMay, DispatchType
  <2>2. CASE Cancel(s, i)
    BY <2>2 DEF Cancel, DispatchMay
  <2>3. CASE Claim(s, i)
    BY <1>0, <2>3, SetDispatchFacts DEF Claim, DispatchMay, Claimable, Incomplete, Still
  <2>4. CASE Exhaust(s, i)
    <3>1. i = j => status'[j] \in Terminal
      BY <1>0, <2>4 DEF Exhaust, AppendEvent, JobType, StatusAfter, Terminal
    <3>. QED
      BY <1>0, <2>4, <3>1, SetDispatchFacts DEF Exhaust, DispatchMay
  <2>. QED
    BY <1>2, <2>1, <2>2, <2>3, <2>4 DEF JobStep
<1>3. ASSUME NEW s \in Servers, NEW u \in Workers, ChildStep(s, u) PROVE dispatch' = dispatch
  BY <1>3 DEF ChildStep, Spawn, SpawnFails, Reap, StopChild, ReapStopped, tables
<1>4. ASSUME NEW u \in Workers, WorkerStep(u) PROVE DispatchMay(j)
  <2>1. CASE MarkRunning(u)
    <3>1. u[1] = j => worker[<<j, u[2]>>].pc = "marking"
      BY <2>1, WorkerPair DEF MarkRunning
    <3>. QED
      BY <1>0, <2>1, <3>1, WorkerPair, SetDispatchFacts
         DEF MarkRunning, UpdateDispatch, DispatchMay, Still
  <2>2. CASE DropDispatch(u)
    BY <1>0, <2>2, WorkerPair, SetDispatchFacts
       DEF DropDispatch, UpdateDispatch, DispatchMay, Still, SkipSound
  <2>3. CASE CloseDispatch(u)
    BY <1>0, <2>3, WorkerPair, SetDispatchFacts DEF CloseDispatch, DispatchMay, jobRow
  <2>4. CASE \/ LoadDispatch(u) \/ Read(u) \/ Commit(u) \/ CommitStale(u) \/ RenderEnds(u)
             \/ RenderRaises(u) \/ Finish(u) \/ CloseRefused(u) \/ Exit(u)
    BY <2>4 DEF LoadDispatch, Read, Commit, CommitStale, RenderEnds, RenderRaises, Finish,
                CloseRefused, Exit, tables, DispatchMay
  <2>. QED
    BY <1>4, <2>1, <2>2, <2>3, <2>4 DEF WorkerStep
<1>5. ASSUME NEW u \in Workers, Unwind(u) \/ Die(u) \/ KillTree(u) PROVE dispatch' = dispatch
  BY <1>5 DEF Unwind, Die, KillTree, tables
<1>6. ASSUME NEW i \in Jobs, Expire(i) PROVE dispatch' = dispatch
  BY <1>6 DEF Expire
<1>7. ASSUME UNCHANGED vars PROVE dispatch' = dispatch
  BY <1>7 DEF vars, tables
<1>. QED
  BY <1>1, <1>2, <1>3, <1>4, <1>5, <1>6, <1>7 DEF Next, DispatchMay

\* Only a claim makes a lease live or counts an attempt.
LEMMA LeaseShape ==
  ASSUME TypeOK, [Next]_vars, NEW j \in Jobs
  PROVE  \/ /\ lease'[j].attempts = lease[j].attempts
            /\ lease'[j].live => lease[j].live
         \/ \E s \in Servers : Claim(s, j)
<1> DEFINE Kept == lease'[j].attempts = lease[j].attempts /\ (lease'[j].live => lease[j].live)
<1>0. ASSUME NEW w \in Workers, ReleaseExecution(w) PROVE Kept
  BY <1>0, WorkerPair DEF ReleaseExecution, TypeOK, LeaseType
<1>1. ASSUME NEW s \in Servers, ServerStep(s) PROVE lease' = lease
  BY <1>1 DEF ServerStep, Boot, Close, SupervisorFails, StopEnds, Closed, Crash, tables
<1>2. ASSUME NEW s \in Servers, NEW i \in Jobs, JobStep(s, i)
      PROVE  lease'[j] = lease[j] \/ Claim(s, j)
  BY <1>2 DEF JobStep, Submit, Cancel, Claim, Exhaust, TypeOK, LeaseType
<1>3. ASSUME NEW s \in Servers, NEW u \in Workers, ChildStep(s, u)
      PROVE  Kept
  BY <1>0, <1>3 DEF ChildStep, Spawn, SpawnFails, Reap, StopChild, ReapStopped, tables
<1>4. ASSUME NEW u \in Workers, WorkerStep(u) \/ Unwind(u) \/ Die(u) \/ KillTree(u)
      PROVE  Kept
  BY <1>0, <1>4 DEF WorkerStep, LoadDispatch, Read, Commit, CommitStale, MarkRunning, DropDispatch,
       RenderEnds, RenderRaises, Finish, CloseDispatch, CloseRefused, Exit,
       Unwind, Die, KillTree, tables
<1>5. ASSUME NEW i \in Jobs, Expire(i) PROVE Kept
  BY <1>5 DEF Expire, TypeOK, LeaseType
<1>6. ASSUME UNCHANGED vars PROVE lease' = lease
  BY <1>6 DEF vars, tables
<1>7. lease' = lease => Kept
  OBVIOUS
<1> HIDE DEF Kept
<1>8. Kept \/ \E s \in Servers : Claim(s, j)
  <2>1. lease'[j] = lease[j] => Kept
    BY DEF Kept
  <2>. QED
    <3>1. CASE \E s \in Servers, i \in Jobs : JobStep(s, i)
      BY <1>2, <2>1, <3>1
    <3>. QED
      BY <1>1, <1>3, <1>4, <1>5, <1>6, <1>7, <3>1 DEF Next
<1>. QED
  BY <1>8 DEF Kept

\* A worker unlinks its own output and no other, and only of a job whose
\* cancellation is requested.
LEMMA OutputShape ==
  ASSUME TypeOK, [Next]_vars, NEW w \in Workers, w[2] \in outputs[w[1]],
         w[2] \notin outputs'[w[1]]
  PROVE  /\ CloseRefused(w) \/ (Read(w) /\ Discards(worker[w].pc, status[w[1]]))
         /\ status[w[1]] = "cancel_requested"
         /\ Still
<1>1. ASSUME NEW s \in Servers, ServerStep(s) PROVE outputs' = outputs
  BY <1>1 DEF ServerStep, Boot, Close, SupervisorFails, StopEnds, Closed, Crash
<1>2. ASSUME NEW s \in Servers, NEW i \in Jobs, JobStep(s, i) PROVE outputs' = outputs
  BY <1>2 DEF JobStep, Submit, Cancel, Claim, Exhaust
<1>3. ASSUME NEW s \in Servers, NEW u \in Workers, ChildStep(s, u) PROVE outputs' = outputs
  BY <1>3 DEF ChildStep, Spawn, SpawnFails, Reap, StopChild, ReapStopped
<1>4. ASSUME NEW u \in Workers, WorkerStep(u)
      PROVE  CloseRefused(w) \/ (Read(w) /\ Discards(worker[w].pc, status[w[1]]))
  <2>1. CASE CloseRefused(u)
    <3>1. u[1] = w[1] /\ u[2] = w[2]
      BY <2>1, WorkerPair DEF CloseRefused, TypeOK, OutputType
    <3>2. u = <<u[1], u[2]>> /\ w = <<w[1], w[2]>>
      BY WorkerPair
    <3>3. u = w
      BY <3>1, <3>2, Zenon
    <3>. QED
      BY <2>1, <3>3
  <2>2. CASE Read(u)
    BY <2>2, WorkerPair DEF Read, TypeOK, OutputType
  <2>3. CASE RenderEnds(u)
    BY <2>3, WorkerPair DEF RenderEnds, TypeOK, OutputType
  <2>4. CASE \/ LoadDispatch(u) \/ Commit(u) \/ CommitStale(u) \/ MarkRunning(u)
             \/ DropDispatch(u) \/ RenderRaises(u) \/ Finish(u) \/ CloseDispatch(u) \/ Exit(u)
    BY <2>4 DEF LoadDispatch, Commit, CommitStale, MarkRunning, DropDispatch, RenderRaises,
                Finish, CloseDispatch, Exit
  <2>. QED
    BY <1>4, <2>1, <2>2, <2>3, <2>4 DEF WorkerStep
<1>5. ASSUME NEW u \in Workers, Unwind(u) \/ Die(u) \/ KillTree(u) PROVE outputs' = outputs
  BY <1>5 DEF Unwind, Die, KillTree
<1>6. ASSUME NEW i \in Jobs, Expire(i) PROVE outputs' = outputs
  BY <1>6 DEF Expire
<1>7. CASE UNCHANGED vars
  BY <1>7 DEF vars
<1>8. CloseRefused(w) \/ (Read(w) /\ Discards(worker[w].pc, status[w[1]]))
  BY <1>1, <1>2, <1>3, <1>4, <1>5, <1>6, <1>7 DEF Next
<1>. QED
  BY <1>8 DEF CloseRefused, Read, Discards, Still, tables

-----------------------------------------------------------------------------
(* The remaining conjuncts of the inductive invariant. *)

LEMMA PublishedPreserved ==
  ASSUME TypeOK, OutcomeRecorded, PublishedFileKept, SnapshotSound, OutputWritten, [Next]_vars
  PROVE  PublishedFileKept'
<1> SUFFICES ASSUME NEW j \in Jobs, artifact'[j] # 0
             PROVE  artifact'[j] \in outputs'[j]
  BY DEF PublishedFileKept
<1>1. outputs[j] \subseteq Attempts /\ JobType
  BY DEF TypeOK, OutputType
<1>2. artifact'[j] \in outputs[j]
  BY <1>1, JobShape DEF PublishedFileKept, Still, Admits, Moves
<1>3. CASE artifact'[j] \notin outputs'[j]
  <2> DEFINE w == <<j, artifact'[j]>>
  <2>1. w \in Workers /\ w[1] = j /\ w[2] = artifact'[j]
    BY <1>1, <1>2 DEF Workers
  <2>2. Still /\ status[j] = "cancel_requested"
    BY <1>2, <1>3, <2>1, OutputShape
  <2>. QED
    BY <2>2 DEF Still, OutcomeRecorded
<1>. QED
  BY <1>3

LEMMA NewestPreserved ==
  ASSUME TypeOK, OutcomeRecorded, NewestPublishes, SnapshotSound, OutputWritten, [Next]_vars
  PROVE  NewestPublishes'
<1> SUFFICES ASSUME NEW j \in Jobs, artifact'[j] # 0
             PROVE  artifact'[j] = lease'[j].attempts
  BY DEF NewestPublishes
<1>1. artifact'[j] = lease[j].attempts
  BY JobShape DEF NewestPublishes, Still, Admits, Moves
<1>2. ASSUME NEW s \in Servers, Claim(s, j) PROVE FALSE
  <2>1. artifact'[j] = artifact[j] /\ status[j] \in Unfinished
    BY <1>2 DEF Claim, Claimable, Incomplete
  <2>. QED
    BY <2>1 DEF OutcomeRecorded, Unfinished, Terminal
<1>. QED
  BY <1>1, <1>2, LeaseShape

LEMMA DispatchTracksPreserved ==
  ASSUME TypeOK, DispatchTracksJob, SnapshotSound, OutputWritten, SkipSound, [Next]_vars
  PROVE  DispatchTracksJob'
<1> SUFFICES ASSUME NEW j \in Jobs
             PROVE  /\ dispatch'[j].status = "done" => status'[j] \in Terminal
                    /\ status'[j] \in {"queued", "running"}
                         => dispatch'[j].status \in {"pending", "running"}
  BY DEF DispatchTracksJob
<1>1. /\ status[j] \in Terminal => status'[j] \in Terminal
      /\ status'[j] \in {"queued", "running"} => status[j] \in {"queued", "running", NoJob}
      /\ status[j] \in Terminal \cup {"cancel_requested"}
           => status'[j] \in Terminal \cup {"cancel_requested"}
  BY JobForward
<1>0. JobType /\ DispatchType
  BY DEF TypeOK
<1>2. /\ dispatch[j].status = "done" => status[j] \in Terminal
      /\ status[j] \in {"queued", "running"} => dispatch[j].status \in {"pending", "running"}
  BY DEF DispatchTracksJob
<1>3. status[j] = NoJob /\ status'[j] = "queued" => dispatch'[j].status = "pending"
  <2>1. ASSUME NEW i \in Jobs, Admits(i), status[j] = NoJob, status'[j] = "queued"
        PROVE  dispatch'[j].status = "pending"
    BY <1>0, <2>1, AdmitFacts DEF Admits, DispatchType, NoJob
  <2>2. ASSUME NEW i \in Jobs, NEW e \in EventType, Moves(i, e), status[j] = NoJob
        PROVE  status'[j] # "queued"
    BY <1>0, <2>2, MoveFacts, StatusFacts DEF Moves, NoJob
  <2>3. CASE Still
    BY <2>3 DEF Still, jobRow, NoJob
  <2>. QED
    BY <2>1, <2>2, <2>3, JobShape
<1>4. status[j] = NoJob => status'[j] # "running"
  BY <1>0, JobShape, AdmitFacts, MoveFacts, LegalFacts DEF Moves, Still, jobRow, NoJob
<1>5. CASE dispatch'[j] = dispatch[j]
  BY <1>1, <1>2, <1>3, <1>4, <1>5
<1>6. CASE dispatch'[j].status = "pending" /\ status[j] \in Unfinished
  BY <1>6
<1>7. CASE status[j] = NoJob /\ dispatch'[j] = [status |-> "pending", version |-> 0]
  BY <1>7
<1>8. CASE dispatch'[j].status = "running"
  BY <1>8
<1>9. CASE /\ dispatch'[j].status = "cancelled"
           /\ status[j] \in Terminal \cup {"cancel_requested"}
  BY <1>1, <1>9 DEF Terminal
<1>10. CASE dispatch'[j].status = "done" /\ status'[j] \in Terminal
  BY <1>10 DEF Terminal
<1>. QED
  BY <1>5, <1>6, <1>7, <1>8, <1>9, <1>10, DispatchShape DEF DispatchMay

\* Only a claim of its supervisor adds to what a server is about to spawn.
LEMMA ClaimedShape ==
  ASSUME TypeOK, [Next]_vars, NEW s \in Servers, NEW j \in Jobs, NEW a,
         <<j, a>> \in server'[s].claimed
  PROVE  <<j, a>> \in server[s].claimed \/ Claim(s, j)
<1>0. ServerType
  BY DEF TypeOK
<1>s. ASSUME NEW t \in Servers, NEW r, SetServer(t, r), r.claimed \subseteq server[t].claimed
      PROVE  <<j, a>> \in server[s].claimed
  BY <1>0, <1>s DEF SetServer, ServerType
<1>1. ASSUME NEW t \in Servers, ServerStep(t) PROVE <<j, a>> \in server[s].claimed
  <2>0. server[t] \in ServerState
    BY <1>0 DEF ServerType
  <2>1. CASE Boot(t)
    BY <1>s, <2>0, <2>1 DEF Boot, Down, Started
  <2>2. CASE Close(t)
    BY <1>s, <2>0, <2>2 DEF Close, Leaving, ServerState
  <2>3. CASE SupervisorFails(t)
    BY <1>s, <2>0, <2>3 DEF SupervisorFails, Leaving, ServerState
  <2>4. CASE StopEnds(t)
    BY <1>s, <2>0, <2>4 DEF StopEnds, ServerState
  <2>5. CASE Closed(t) \/ Crash(t)
    BY <1>s, <2>0, <2>5 DEF Closed, Crash, Down
  <2>. QED
    BY <1>1, <2>1, <2>2, <2>3, <2>4, <2>5 DEF ServerStep
<1>2. ASSUME NEW t \in Servers, NEW i \in Jobs, JobStep(t, i)
      PROVE  <<j, a>> \in server[s].claimed \/ Claim(s, j)
  <2>1. CASE Claim(t, i)
    <3>1. t # s \/ i # j => <<j, a>> \in server[s].claimed
      BY <1>0, <2>1 DEF Claim, SetServer, ServerType, ServerState
    <3>. QED
      BY <2>1, <3>1
  <2>2. CASE Submit(t, i) \/ Cancel(t, i) \/ Exhaust(t, i)
    BY <1>0, <2>2 DEF Submit, Cancel, Exhaust, SetServer, Started, ServerType, ServerState
  <2>. QED
    BY <1>2, <2>1, <2>2 DEF JobStep
<1>3. ASSUME NEW t \in Servers, NEW u \in Workers, ChildStep(t, u)
      PROVE  <<j, a>> \in server[s].claimed
  <2>0. server[t] \in ServerState
    BY <1>0 DEF ServerType
  <2>1. CASE Spawn(t, u) \/ SpawnFails(t, u)
    BY <1>s, <2>0, <2>1 DEF Spawn, SpawnFails, ServerState
  <2>2. CASE Reap(t, u)
    BY <1>s, <2>0, <2>2 DEF Reap, ServerState
  <2>3. CASE StopChild(t, u) \/ ReapStopped(t, u)
    BY <1>s, <2>0, <2>3 DEF StopChild, ReapStopped, ServerState
  <2>. QED
    BY <1>3, <2>1, <2>2, <2>3 DEF ChildStep
<1>4. ASSUME NEW u \in Workers, WorkerStep(u) \/ Unwind(u) \/ Die(u) \/ KillTree(u)
      PROVE  server' = server
  BY <1>4 DEF WorkerStep, LoadDispatch, Read, Commit, CommitStale, MarkRunning, DropDispatch,
       RenderEnds, RenderRaises, Finish, CloseDispatch, CloseRefused, Exit,
       Unwind, Die, KillTree
<1>5. ASSUME NEW i \in Jobs, Expire(i) PROVE server' = server
  BY <1>5 DEF Expire
<1>6. ASSUME UNCHANGED vars PROVE server' = server
  BY <1>6 DEF vars
<1>. QED
  BY <1>1, <1>2, <1>3, <1>4, <1>5, <1>6 DEF Next

LEMMA UnadmittedPreserved ==
  ASSUME TypeOK, UnadmittedIdle, SnapshotSound, OutputWritten, SkipSound, [Next]_vars
  PROVE  UnadmittedIdle'
<1> SUFFICES ASSUME NEW j \in Jobs, status'[j] = NoJob
             PROVE  /\ dispatch'[j].version = 0
                    /\ ~lease'[j].live
                    /\ \A a \in Attempts :
                         /\ worker'[<<j, a>>] = Idle
                         /\ \A s \in Servers : <<j, a>> \notin server'[s].claimed
  BY DEF UnadmittedIdle
<1>1. status[j] = NoJob
  BY JobForward
<1>2. j \notin Incomplete
  BY <1>1 DEF Incomplete, Unfinished, JobStatus, NoJob
<1>3. ~lease'[j].live
  BY <1>1, <1>2, LeaseShape DEF UnadmittedIdle, Claim, Claimable
<1>4. dispatch'[j].version = 0
  <2>1. status[j] \notin Unfinished \cup Terminal \cup {"cancel_requested"}
    BY <1>1 DEF Unfinished, JobStatus, Terminal, NoJob
  <2>2. dispatch'[j].status # "done" \/ status'[j] \notin Terminal
    BY DEF Terminal, NoJob
  <2>3. dispatch[j].version = 0
    BY <1>1 DEF UnadmittedIdle
  <2>4. \A a \in Attempts : worker[<<j, a>>].pc # "marking"
    BY <1>1 DEF UnadmittedIdle, Idle
  <2>5. status[j] \notin Unfinished /\ status[j] \notin Terminal /\ status'[j] \notin Terminal
    BY <1>1 DEF Unfinished, JobStatus, Terminal, NoJob
  <2>6. ~\E a \in Attempts : worker[<<j, a>>].pc = "marking"
    BY <2>4
  <2>7. DispatchMay(j)
    BY DispatchShape
  <2>8. dispatch'[j] = dispatch[j] \/ dispatch'[j] = [status |-> "pending", version |-> 0]
    BY <2>1, <2>5, <2>6, <2>7, Zenon DEF DispatchMay
  <2>. QED
    BY <2>3, <2>8
<1>5. ASSUME NEW a \in Attempts PROVE worker'[<<j, a>>] = Idle
  <2> DEFINE w == <<j, a>>
  <2>1. w \in Workers /\ w[1] = j
    BY DEF Workers
  <2>2. worker[w] = Idle /\ \A s \in Servers : w \notin server[s].claimed
    BY <1>1 DEF UnadmittedIdle
  <2>3. worker[w].pc = "none"
    BY <2>2 DEF Idle
  <2>4. ~WorkerStep(w)
    BY <2>3 DEF WorkerStep, LoadDispatch, Read, Commit, CommitStale, MarkRunning, DropDispatch,
         RenderEnds, RenderRaises, Finish, CloseDispatch, CloseRefused, Exit, Reading,
         Committing, CommitEvent
  <2>5. ~(Unwind(w) \/ Die(w) \/ KillTree(w))
    BY <2>3 DEF Unwind, Die, KillTree, Alive, Unwinding
  <2>6. \A s \in Servers : ~Spawn(s, w)
    BY <2>2 DEF Spawn
  <2>. QED
    BY <2>1, <2>2, <2>4, <2>5, <2>6, WorkerShape
<1>6. ASSUME NEW a \in Attempts, NEW s \in Servers PROVE <<j, a>> \notin server'[s].claimed
  <2>1. <<j, a>> \notin server[s].claimed
    BY <1>1 DEF UnadmittedIdle
  <2>2. \A i \in Jobs : Claim(s, i) => i # j
    BY <1>2 DEF Claim, Claimable
  <2>. QED
    BY <2>1, <2>2, ClaimedShape
<1>. QED
  BY <1>3, <1>4, <1>5, <1>6

LEMMA SnapshotPreserved ==
  ASSUME TypeOK, UnadmittedIdle, SnapshotSound, OutputWritten, [Next]_vars
  PROVE  SnapshotSound'
<1> SUFFICES ASSUME NEW w \in Workers
             PROVE  /\ worker'[w].seen <= version'[w[1]]
                    /\ worker'[w].pc \in Committing /\ worker'[w].seen = version'[w[1]]
                         => <<status'[w[1]], CommitEvent[worker'[w].pc]>> \in Legal
  BY DEF SnapshotSound
<1> DEFINE j == w[1]
<1>1. j \in Jobs /\ version[j] \in Nat /\ worker[w].seen \in Nat /\ WorkerType
  BY WorkerPair DEF TypeOK, JobType, WorkerType, WorkerState
<1>2. /\ version[j] <= version'[j] /\ version'[j] \in Nat
      /\ version'[j] = version[j] => status'[j] = status[j] \/ status[j] = NoJob
  BY <1>1, JobForward, NextTypeOK DEF TypeOK, JobType
<1>3. worker[w].seen <= version[j]
  BY DEF SnapshotSound
<1>4. CASE worker'[w] = worker[w]
  <2>1. status[j] = NoJob => worker[w].pc \notin Committing
    BY <1>1, WorkerPair DEF UnadmittedIdle, Idle, Committing, CommitEvent
  <2>. QED
    BY <1>1, <1>2, <1>3, <1>4, <2>1 DEF SnapshotSound
<1>5. CASE Read(w)
  <2>1. status' = status /\ version' = version
    BY <1>5 DEF Read, tables, jobRow
  <2>. QED
    BY <1>1, <1>5, <2>1, ReadWorker
<1>6. CASE Commit(w)
  BY <1>1, <1>2, <1>6, CommitWorker
<1>7. CASE Quiet(w)
  BY <1>1, <1>2, <1>3, <1>7 DEF Quiet
<1>. QED
  BY <1>4, <1>5, <1>6, <1>7, WorkerSteps

LEMMA SkipPreserved ==
  ASSUME TypeOK, SnapshotSound, OutputWritten, SkipSound, [Next]_vars
  PROVE  SkipSound'
<1> DEFINE Skipping == {"earlyAcking", "earlyCancelling", "dropping"}
           Over(st) == st \in Terminal \cup {"cancel_requested"}
<1> SUFFICES ASSUME NEW w \in Workers, worker'[w].pc \in Skipping
             PROVE  Over(status'[w[1]])
  BY DEF SkipSound
<1>1. w[1] \in Jobs /\ WorkerType
  BY WorkerPair DEF TypeOK
<1>2. Over(status[w[1]]) => Over(status'[w[1]])
  BY <1>1, JobForward
<1>3. worker[w].pc \in Skipping => Over(status[w[1]])
  BY DEF SkipSound
<1>4. CASE Read(w)
  <2>1. Over(status[w[1]])
    BY <1>1, <1>3, <1>4, ReadWorker DEF Terminal
  <2>. QED
    BY <1>2, <2>1
<1>5. CASE Commit(w) \/ Quiet(w)
  <2>1. worker[w].pc \in Skipping
    BY <1>1, <1>5, CommitWorker DEF Quiet, Committing, CommitEvent
  <2>. QED
    BY <1>2, <1>3, <2>1
<1>. QED
  BY <1>2, <1>3, <1>4, <1>5, WorkerSteps

LEMMA OutputPreserved ==
  ASSUME TypeOK, OutputWritten, [Next]_vars
  PROVE  OutputWritten'
<1> DEFINE Written == {"rendered", "completing"}
<1> SUFFICES ASSUME NEW w \in Workers, worker'[w].pc \in Written
             PROVE  w[2] \in outputs'[w[1]]
  BY DEF OutputWritten
<1>1. w[1] \in Jobs /\ WorkerType /\ OutputType
  BY WorkerPair DEF TypeOK
<1>2. worker[w].pc \in Written => w[2] \in outputs[w[1]]
  BY DEF OutputWritten
<1>3. CASE Read(w)
  <2>1. worker[w].pc = "rendered" /\ status[w[1]] # "cancel_requested"
    BY <1>1, <1>3, ReadWorker
  <2>. QED
    BY <1>1, <1>2, <1>3, <2>1 DEF Read, Discards, OutputType
<1>4. CASE RenderEnds(w)
  BY <1>1, <1>4 DEF RenderEnds, OutputType
<1>5. CASE Commit(w)
  BY <1>1, <1>5, CommitWorker DEF Committing, CommitEvent
<1>6. CASE Quiet(w)
  BY <1>4, <1>6 DEF Quiet, Committing, CommitEvent
<1>7. CASE worker'[w] = worker[w]
  <2>1. CASE CloseRefused(w)
    BY <1>1, <1>7, <2>1, GotoFacts DEF CloseRefused
  <2>2. CASE Read(w) /\ Discards(worker[w].pc, status[w[1]])
    BY <1>3, <2>2
  <2>. QED
    BY <1>2, <1>7, <2>1, <2>2, OutputShape
<1>. QED
  BY <1>3, <1>5, <1>6, <1>7, WorkerSteps

LEMMA DispatchSnapshotPreserved ==
  ASSUME TypeOK, UnadmittedIdle, SkipSound, DispatchSnapshotSound, [Next]_vars
  PROVE  DispatchSnapshotSound'
<1> SUFFICES ASSUME NEW w \in Workers
             PROVE  /\ worker'[w].dver <= dispatch'[w[1]].version
                    /\ worker'[w].pc = "marking" =>
                         \/ lease'[w[1]].attempts = w[2]
                         \/ worker'[w].dver < dispatch'[w[1]].version
  BY DEF DispatchSnapshotSound
<1> DEFINE j == w[1]
<1>1. /\ j \in Jobs /\ WorkerType /\ DispatchType
      /\ dispatch[j].version \in Nat /\ worker[w].dver \in Nat
  BY WorkerPair DEF TypeOK, DispatchType, WorkerType, WorkerState
<1>2. dispatch'[j].version \in Nat
  BY <1>1, NextTypeOK DEF TypeOK, DispatchType
<1>3. dispatch[j].version <= dispatch'[j].version
  BY <1>1, DispatchShape DEF DispatchMay, UnadmittedIdle
<1>4. \/ lease'[j].attempts = lease[j].attempts
      \/ dispatch[j].version < dispatch'[j].version
  <2>1. ASSUME NEW s \in Servers, Claim(s, j) PROVE dispatch[j].version < dispatch'[j].version
    BY <1>1, <2>1, SetDispatchFacts DEF Claim
  <2>. QED
    BY <1>1, <2>1, LeaseShape
<1>5. /\ worker[w].dver <= dispatch[j].version
      /\ worker[w].pc = "marking" => \/ lease[j].attempts = w[2]
                                    \/ worker[w].dver < dispatch[j].version
  BY DEF DispatchSnapshotSound
<1>6. CASE worker'[w] = worker[w]
  BY <1>1, <1>2, <1>3, <1>4, <1>5, <1>6
<1>7. CASE Quiet(w)
  BY <1>1, <1>2, <1>3, <1>5, <1>7 DEF Quiet
<1>8. CASE Commit(w)
  <2>1. worker'[w].dver = worker[w].dver /\ dispatch' = dispatch /\ lease' = lease
    BY <1>1, <1>8, CommitWorker DEF Commit
  <2>. QED
    BY <1>5, <1>8, <2>1 DEF Commit, Accepted, Holds
<1>9. CASE Read(w)
  <2>1. worker'[w].pc # "marking" /\ worker'[w].dver = worker[w].dver
    BY <1>1, <1>9, ReadWorker
  <2>. QED
    BY <1>1, <1>2, <1>3, <1>5, <2>1
<1>. QED
  BY <1>6, <1>7, <1>8, <1>9, WorkerSteps

-----------------------------------------------------------------------------
(* The inductive invariant and what follows from it. *)

LEMMA InitIInv == Init => IInv
<1> SUFFICES ASSUME Init PROVE IInv
  OBVIOUS
<1>1. TypeOK
  BY InitTypeOK
<1>2. /\ HistoryMatchesSnapshot /\ OutcomeRecorded /\ PublishedFileKept /\ NewestPublishes
      /\ DispatchTracksJob
  BY DEF Init, InitTables, HistoryMatchesSnapshot, OutcomeRecorded, PublishedFileKept, NewestPublishes,
         DispatchTracksJob, NoJob
<1>3. UnadmittedIdle
  BY DEF Init, InitTables, UnadmittedIdle, Down, Workers
<1>4. SnapshotSound /\ SkipSound /\ OutputWritten /\ DispatchSnapshotSound
  BY WorkerPair DEF Init, InitTables, SnapshotSound, SkipSound, OutputWritten, DispatchSnapshotSound, Idle,
         Committing, CommitEvent
<1>. QED
  BY <1>1, <1>2, <1>3, <1>4 DEF IInv

LEMMA NextIInv == IInv /\ [Next]_vars => IInv'
BY NextTypeOK, HistoryPreserved, OutcomePreserved, PublishedPreserved, NewestPreserved, DispatchTracksPreserved,
   UnadmittedPreserved, SnapshotPreserved, SkipPreserved, OutputPreserved,
   DispatchSnapshotPreserved DEF IInv

\* The inductive invariant holds in every reachable state.
THEOREM Inductive == Spec => []IInv
<1>1. Init => IInv
  BY InitIInv
<1>2. IInv /\ [Next]_vars => IInv'
  BY NextIInv
<1>. QED
  BY <1>1, <1>2, PTL DEF Spec

\* The durable event log is dense and its last event explains the job's status.
THEOREM HistoryCorrect == Spec => []HistoryMatchesSnapshot
<1>1. IInv => HistoryMatchesSnapshot
  BY DEF IInv
<1>. QED
  BY <1>1, Inductive, PTL

\* Artifact and failure rows agree with the outcome of the job.
THEOREM OutcomeCorrect == Spec => []OutcomeRecorded
<1>1. IInv => OutcomeRecorded
  BY DEF IInv
<1>. QED
  BY <1>1, Inductive, PTL

\* No attempt ever unlinks the file that a published artifact names.
THEOREM PublishedFileSafe == Spec => []PublishedFileKept
<1>1. IInv => PublishedFileKept
  BY DEF IInv
<1>. QED
  BY <1>1, Inductive, PTL

\* A finished dispatch has a finished job, an open job an open dispatch.
THEOREM DispatchCorrect == Spec => []DispatchTracksJob
<1>1. IInv => DispatchTracksJob
  BY DEF IInv
<1>. QED
  BY <1>1, Inductive, PTL

\* Only the newest attempt ever publishes.
THEOREM NewestPublishesSafe == Spec => []NewestPublishes
<1>1. IInv => NewestPublishes
  BY DEF IInv
<1>. QED
  BY <1>1, Inductive, PTL

-----------------------------------------------------------------------------
(* The action property, the refinement and the limit. *)

LEMMA MarkStep ==
  ASSUME IInv, [Next]_vars, NEW w \in Workers,
         worker'[w].pc # worker[w].pc, dispatch' # dispatch,
         dispatch'[w[1]].status \in {"running", "done"}
  PROVE  lease[w[1]].attempts = w[2]
<1>1. TypeOK /\ DispatchType /\ DispatchSnapshotSound /\ w[1] \in Jobs
  BY WorkerPair DEF IInv, TypeOK
<1>2. WorkerStep(w) \/ \E s \in Servers : Spawn(s, w)
  BY <1>1, WorkerShape DEF Unwind, Die, KillTree, tables
<1>3. MarkRunning(w) \/ DropDispatch(w) \/ CloseDispatch(w)
  BY <1>2 DEF WorkerStep, LoadDispatch, Read, Commit, CommitStale, RenderEnds, RenderRaises,
              Finish, CloseRefused, Exit, Spawn, tables
<1>4. CASE MarkRunning(w)
  <2>1. worker[w].pc = "marking" /\ dispatch[w[1]].version = worker[w].dver
    BY <1>4 DEF MarkRunning, UpdateDispatch
  <2>2. dispatch[w[1]].version \in Nat
    BY <1>1 DEF DispatchType
  <2>. QED
    BY <1>1, <2>1, <2>2 DEF DispatchSnapshotSound
<1>5. CASE DropDispatch(w)
  BY <1>1, <1>5, SetDispatchFacts DEF DropDispatch, UpdateDispatch
<1>6. CASE CloseDispatch(w)
  BY <1>6 DEF CloseDispatch, Holds
<1>. QED
  BY <1>3, <1>4, <1>5, <1>6

\* Only the newest attempt of a job marks its dispatch running or done.
THEOREM NewestMarks == Spec => NewestAttemptMarks
<1>1. IInv /\ [Next]_vars =>
        [\A w \in Workers :
           worker'[w].pc # worker[w].pc /\ dispatch' # dispatch /\
           dispatch'[w[1]].status \in {"running", "done"} => lease[w[1]].attempts = w[2]]_vars
  BY MarkStep
<1>. QED
  BY <1>1, Inductive, PTL DEF Spec, NewestAttemptMarks

\* JobLifecycle extends the same tables.
LEMMA SameTables ==
  /\ Lifecycle!NoJob = NoJob
  /\ Lifecycle!Legal = Legal
  /\ Lifecycle!StorageMoves = StorageMoves
  /\ Lifecycle!StatusAfter = StatusAfter
  /\ Lifecycle!EventType = EventType
BY DEF Lifecycle!NoJob, NoJob, Lifecycle!Legal, Legal, Lifecycle!StorageMoves, StorageMoves,
       Lifecycle!CancelledAtOnce, CancelledAtOnce, Lifecycle!FailedInQueue, FailedInQueue,
       Lifecycle!StatusAfter, StatusAfter, Lifecycle!EventType, EventType

LEMMA LifecycleStep ==
  ASSUME IInv, [Next]_vars
  PROVE  [Lifecycle!Next]_(Lifecycle!vars)
<1>0. TypeOK /\ OutcomeRecorded /\ SnapshotSound /\ OutputWritten /\ JobType
  BY DEF IInv, TypeOK
<1>1. CASE Still
  BY <1>1 DEF Still, jobRow, Lifecycle!vars
<1>2. ASSUME NEW j \in Jobs, Admits(j) PROVE Lifecycle!Admit(j)
  BY <1>2, SameTables DEF Admits, Lifecycle!Admit
<1>3. ASSUME NEW j \in Jobs, NEW e \in EventType, Moves(j, e) PROVE Lifecycle!Advance(j, e)
  <2>1. /\ <<status[j], e>> \in Legal \cup StorageMoves
        /\ AppendEvent(j, e)
    BY <1>3 DEF Moves
  <2>2. artifact[j] = 0
    BY <1>0, <2>1, LegalFacts DEF OutcomeRecorded
  <2>3. 0 \notin outputs[j]
    BY <1>0, AttemptsAssumption, BoundsAssumption DEF TypeOK, OutputType, Attempts
  <2>4. (artifact'[j] # 0) = (e = "completed")
    BY <1>3, <2>2, <2>3 DEF Moves
  <2>5. \A i \in Jobs \ {j} : artifact'[i] = artifact[i]
    BY <1>3 DEF Moves
  <2>6. [i \in Jobs |-> artifact'[i] # 0]
          = [[i \in Jobs |-> artifact[i] # 0] EXCEPT ![j] = (e = "completed")]
    BY <2>4, <2>5, Zenon
  <2>. QED
    BY <2>1, <2>6, SameTables DEF AppendEvent, Lifecycle!Advance
<1>. QED
  BY <1>0, <1>1, <1>2, <1>3, JobShape, SameTables DEF Lifecycle!Next

\* The local server implements the abstract life of a job.
THEOREM Implements == Spec => LifecycleSpec
<1>1. Init => Lifecycle!Init
  BY SameTables DEF Init, InitTables, Lifecycle!Init
<1>2. IInv /\ [Next]_vars => [Lifecycle!Next]_(Lifecycle!vars)
  BY LifecycleStep
<1>. QED
  BY <1>1, <1>2, Inductive, PTL DEF Spec, LifecycleSpec, Lifecycle!Spec

LEMMA LimitStep ==
  ASSUME IInv, [Next]_vars, ActiveWithinLimit
  PROVE  ActiveWithinLimit'
<1>0. TypeOK /\ UnadmittedIdle /\ SnapshotSound /\ OutputWritten
  BY DEF IInv
<1>1. IsFiniteSet(ActiveLeases) /\ Cardinality(ActiveLeases) \in Nat /\ Limit \in Nat
  <2>1. ActiveLeases \subseteq Jobs
    BY DEF ActiveLeases, Incomplete
  <2>. QED
    BY <2>1, FiniteAssumption, FS_Subset, FS_CardinalityType, AttemptsAssumption, BoundsAssumption
<1>2. ASSUME NEW i \in Jobs, i \in ActiveLeases', i \notin ActiveLeases
      PROVE  \E s \in Servers : Claim(s, i)
  <2>1. i \in Incomplete' /\ lease'[i].live
    BY <1>2 DEF ActiveLeases
  <2>2. status[i] \in Unfinished \/ status[i] = NoJob
    BY <1>0, <2>1, JobForward DEF Incomplete, Unfinished, JobStatus, TypeOK, JobType
  <2>3. ~(lease[i].live)
    BY <1>0, <1>2, <2>2 DEF ActiveLeases, Incomplete, UnadmittedIdle
  <2>. QED
    BY <1>0, <2>1, <2>3, LeaseShape
<1>3. CASE ActiveLeases' \subseteq ActiveLeases
  <2>1. Cardinality(ActiveLeases') <= Cardinality(ActiveLeases) /\ Cardinality(ActiveLeases') \in Nat
    BY <1>1, <1>3, SubsetBound
  <2>. QED
    BY <1>1, <2>1 DEF ActiveWithinLimit
<1>4. ASSUME NEW s \in Servers, NEW j \in Jobs, Claim(s, j)
      PROVE  ActiveWithinLimit'
  <2>1. Cardinality(ActiveLeases) < Limit
    BY <1>4 DEF Claim, Claimable
  <2>2. ActiveLeases' \subseteq ActiveLeases \cup {j}
    BY <1>0, <1>4 DEF Claim, ActiveLeases, Incomplete, TypeOK, LeaseType, jobRow
  <2>3. /\ IsFiniteSet(ActiveLeases \cup {j})
        /\ Cardinality(ActiveLeases \cup {j}) <= Cardinality(ActiveLeases) + 1
        /\ Cardinality(ActiveLeases \cup {j}) \in Nat
    BY <1>1, AddBound
  <2>4. Cardinality(ActiveLeases') <= Cardinality(ActiveLeases \cup {j})
        /\ Cardinality(ActiveLeases') \in Nat
    BY <2>2, <2>3, SubsetBound
  <2>. QED
    BY <1>1, <2>1, <2>3, <2>4 DEF ActiveWithinLimit
<1>5. ActiveLeases' \subseteq Jobs
  BY DEF ActiveLeases, Incomplete
<1>. QED
  BY <1>2, <1>3, <1>4, <1>5

\* All supervisors together never run more jobs than the limit.
THEOREM LimitCorrect == Spec => []ActiveWithinLimit
<1>1. Init => ActiveWithinLimit
  <2>1. Init => ActiveLeases = {}
    BY DEF Init, InitTables, ActiveLeases, Incomplete
  <2>. QED
    BY <2>1, FS_EmptySet, AttemptsAssumption, BoundsAssumption DEF ActiveWithinLimit
<1>2. IInv /\ [Next]_vars /\ ActiveWithinLimit => ActiveWithinLimit'
  BY LimitStep
<1>. QED
  BY <1>1, <1>2, Inductive, PTL DEF Spec
=============================================================================
