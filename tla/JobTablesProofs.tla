--------------------------- MODULE JobTablesProofs ---------------------------
(***************************************************************************)
(* What the proofs about the executors of jobs share: facts about the      *)
(* tables of the worker program, the types of JobTables under the updates  *)
(* that both executors make, the memory of a worker, and the event log.    *)
(***************************************************************************)
EXTENDS JobTables, FiniteSetTheorems, TLAPS

(* The worker program and the legal moves. *)

\* Every commit appends an event and leads to a point of the program.
LEMMA PCFacts ==
  /\ \A pc \in Committing : /\ pc \in PC
                            /\ CommitEvent[pc] \in EventType
                            /\ AfterCommit[pc] \in PC
                            /\ AfterStale[pc] \in PC
  /\ \A e \in EventType : StatusAfter[e] \in JobStatus
BY DEF Committing, CommitEvent, AfterCommit, AfterStale, PC, EventType, StatusAfter,
       JobStatus, Reading

\* The names the actions use are points of the program.
LEMMA PCNames ==
  {"none", "starting", "loaded", "marking", "dropping", "rendering", "rendered",
   "acking", "erring", "finishing", "closing", "exiting", "done"} \subseteq PC
BY DEF PC, Reading

\* What a read leads to, and what the status must have been for it.
LEMMA ReadFacts ==
  ASSUME NEW pc \in Reading, NEW st
  PROVE  LET next == AfterRead(pc, st) IN
         /\ next \in PC
         /\ next \in Committing => <<st, CommitEvent[next]>> \in Legal
         /\ next # "marking"
         /\ next = "completing" => pc = "rendered" /\ st # "cancel_requested"
         /\ next # "rendered"
         /\ next \in {"earlyAcking", "earlyCancelling"} => st = "cancel_requested"
         /\ next = "dropping" => pc = "earlyAcking" \/ st = "cancelled"
<1>1. CASE pc = "loaded"
  BY <1>1 DEF AfterRead, PC, Committing, CommitEvent, Legal, Reading
<1>2. CASE pc = "earlyAcking"
  BY <1>2 DEF AfterRead, PC, Committing, CommitEvent, Legal, Reading
<1>3. CASE pc = "rendering"
  BY <1>3 DEF AfterRead, PC, Committing, CommitEvent, Legal, Reading
<1>4. CASE pc = "rendered"
  BY <1>4 DEF AfterRead, PC, Committing, CommitEvent, Legal, Reading
<1>5. CASE pc = "contended"
  BY <1>5 DEF AfterRead, PC, Committing, CommitEvent, Legal, Reading
<1>6. CASE pc = "acking"
  BY <1>6 DEF AfterRead, PC, Committing, CommitEvent, Legal, Reading
<1>7. CASE pc = "erring"
  BY <1>7 DEF AfterRead, PC, Committing, CommitEvent, Legal, Reading
<1>8. CASE pc = "failChecking"
  BY <1>8 DEF AfterRead, PC, Committing, CommitEvent, Legal, Reading
<1>. QED
  BY <1>1, <1>2, <1>3, <1>4, <1>5, <1>6, <1>7, <1>8 DEF Reading

\* Only an unfinished job moves, and none moves back.
LEMMA LegalFacts ==
  \A m \in Legal \cup StorageMoves :
    /\ m[1] \in {"queued", "running", "cancel_requested"}
    /\ m[1] = "cancel_requested" => StatusAfter[m[2]] \in Terminal \cup {"cancel_requested"}
    /\ StatusAfter[m[2]] \in {"queued", "running"} => m[1] \in {"queued", "running"}
BY DEF Legal, StorageMoves, CancelledAtOnce, FailedInQueue, StatusAfter, Terminal

\* No event makes a job absent or queued again.
LEMMA StatusFacts ==
  \A e \in EventType : /\ StatusAfter[e] # NoJob
                       /\ StatusAfter[e] # "queued"
                       /\ StatusAfter[e] = "succeeded" <=> e = "completed"
                       /\ StatusAfter[e] = "failed" <=> e = "failed"
                       /\ StatusAfter[e] = "cancelled" <=> e = "cancelled"
BY DEF EventType, StatusAfter, NoJob

-----------------------------------------------------------------------------
(* Types. *)

\* A worker is a job and one of its attempts.
LEMMA WorkerPair ==
  ASSUME NEW w \in Workers
  PROVE  w[1] \in Jobs /\ w[2] \in Attempts /\ w = <<w[1], w[2]>>
BY DEF Workers

\* An appended event keeps the job tables well typed.
LEMMA AppendEventType ==
  ASSUME JobType, NEW j \in Jobs, NEW e \in EventType, AppendEvent(j, e)
  PROVE  JobType'
BY PCFacts DEF JobType, AppendEvent

\* So does a cancellation.
LEMMA CancellationType ==
  ASSUME JobType, NEW j \in Jobs, RequestCancellation(j)
  PROVE  JobType'
BY AppendEventType DEF RequestCancellation, CancellationEvent, EventType,
   StatusAfter, JobType, jobRow

\* A dispatch update keeps the table well typed.
LEMMA SetDispatchType ==
  ASSUME DispatchType, NEW j \in Jobs, NEW st \in {"pending", "running", "done", "cancelled"},
         SetDispatch(j, st)
  PROVE  DispatchType'
BY DEF DispatchType, SetDispatch

\* The ways a worker moves keep its memory well typed.
LEMMA GotoType ==
  ASSUME WorkerType, NEW w \in Workers, NEW pc \in PC, Goto(w, pc)
  PROVE  WorkerType'
BY DEF WorkerType, WorkerState, Goto

\* The same for a read of the dispatch.
LEMMA LoadType ==
  ASSUME WorkerType, NEW w \in Workers, NEW pc \in PC, NEW v \in Nat,
         worker' = [worker EXCEPT ![w].pc = pc, ![w].dver = v]
  PROVE  WorkerType'
BY DEF WorkerType, WorkerState

\* The same for a read of the job.
LEMMA ReadType ==
  ASSUME WorkerType, NEW w \in Workers, NEW pc \in PC, NEW v \in Nat,
         worker' = [worker EXCEPT ![w].pc = pc, ![w].seen = v]
  PROVE  WorkerType'
BY DEF WorkerType, WorkerState

\* The same for the end of the process.
LEMMA GoneType ==
  ASSUME WorkerType, NEW w \in Workers, Gone(w)
  PROVE  WorkerType'
BY DEF WorkerType, WorkerState, Gone, Idle, PC

\* The same for a guarded update of the dispatch.
LEMMA UpdateDispatchType ==
  ASSUME DispatchType, WorkerType, NEW w \in Workers, NEW st \in {"running", "cancelled"},
         NEW pc \in PC, UpdateDispatch(w, st, pc)
  PROVE  DispatchType' /\ WorkerType'
BY WorkerPair, SetDispatchType, GotoType DEF UpdateDispatch, PC, DispatchType

-----------------------------------------------------------------------------
(* What the updates say of one job and of one worker. *)

\* What the move of job i says of job j.
LEMMA MoveFacts ==
  ASSUME JobType, NEW i \in Jobs, NEW e \in EventType, AppendEvent(i, e), NEW j \in Jobs
  PROVE  /\ i # j => /\ status'[j] = status[j]
                     /\ version'[j] = version[j]
                     /\ events'[j] = events[j]
         /\ i = j => /\ status'[j] = StatusAfter[e]
                     /\ version'[j] = version[j] + 1
                     /\ events'[j] = Append(events[j], e)
BY DEF JobType, AppendEvent

\* A dispatch update concerns one job and counts one version.
LEMMA SetDispatchFacts ==
  ASSUME DispatchType, NEW i \in Jobs, NEW st, SetDispatch(i, st), NEW j \in Jobs
  PROVE  /\ i # j => dispatch'[j] = dispatch[j]
         /\ i = j => /\ dispatch'[j].status = st
                     /\ dispatch'[j].version = dispatch[j].version + 1
BY DEF DispatchType, SetDispatch

\* Goto forgets the version that was read and keeps the one of the dispatch.
LEMMA GotoFacts ==
  ASSUME WorkerType, NEW w \in Workers, NEW pc, Goto(w, pc)
  PROVE  worker'[w] = [pc |-> pc, seen |-> 0, dver |-> worker[w].dver]
BY DEF WorkerType, WorkerState, Goto

\* A process that ended remembers nothing.
LEMMA GoneFacts ==
  ASSUME WorkerType, NEW w \in Workers, Gone(w)
  PROVE  worker'[w] = [pc |-> "done", seen |-> 0, dver |-> 0]
BY DEF WorkerType, Gone, Idle

\* A worker reads its job: the memory both executors give it.
Reads(w) ==
  LET next == AfterRead(worker[w].pc, status[w[1]])
  IN  /\ worker[w].pc \in Reading
      /\ worker' = [worker EXCEPT ![w].pc = next,
                                  ![w].seen = IF next \in Committing
                                              THEN version[w[1]] ELSE 0]

\* Whoever is about to commit has read a status that allows its event.
LEMMA ReadMemory ==
  ASSUME WorkerType, NEW w \in Workers, Reads(w)
  PROVE  /\ worker[w].pc \in Reading
         /\ worker'[w].pc = AfterRead(worker[w].pc, status[w[1]])
         /\ worker'[w].seen = IF worker'[w].pc \in Committing THEN version[w[1]] ELSE 0
         /\ worker'[w].dver = worker[w].dver
         /\ worker'[w].pc \in Committing
              => <<status[w[1]], CommitEvent[worker'[w].pc]>> \in Legal
         /\ worker'[w].pc \notin {"marking", "rendered"}
         /\ worker'[w].pc = "completing"
              => worker[w].pc = "rendered" /\ status[w[1]] # "cancel_requested"
         /\ worker'[w].pc \in {"earlyAcking", "earlyCancelling"}
              => status[w[1]] = "cancel_requested"
         /\ worker'[w].pc = "dropping"
              => worker[w].pc = "earlyAcking" \/ status[w[1]] = "cancelled"
<1>1. /\ worker[w].pc \in Reading
      /\ worker'[w].pc = AfterRead(worker[w].pc, status[w[1]])
      /\ worker'[w].seen = IF worker'[w].pc \in Committing THEN version[w[1]] ELSE 0
      /\ worker'[w].dver = worker[w].dver
  BY DEF Reads, WorkerType, WorkerState
<1> DEFINE next == AfterRead(worker[w].pc, status[w[1]])
<1>2. /\ next \in Committing => <<status[w[1]], CommitEvent[next]>> \in Legal
      /\ next # "marking" /\ next # "rendered"
      /\ next = "completing" => worker[w].pc = "rendered" /\ status[w[1]] # "cancel_requested"
      /\ next \in {"earlyAcking", "earlyCancelling"} => status[w[1]] = "cancel_requested"
      /\ next = "dropping" => worker[w].pc = "earlyAcking" \/ status[w[1]] = "cancelled"
  <2> HIDE DEF next
  <2>1. worker[w].pc \in Reading
    BY <1>1
  <2>. QED
    BY <2>1, ReadFacts DEF next
<1>. QED
  BY <1>1, <1>2

-----------------------------------------------------------------------------
(* The event log. *)

\* A job row is inserted.
Enters(j) == /\ status[j] = NoJob
             /\ status' = [status EXCEPT ![j] = "queued"]
             /\ UNCHANGED <<version, events>>

\* What an admission says of one job.
LEMMA EnterFacts ==
  ASSUME JobType, NEW i \in Jobs, Enters(i), NEW j \in Jobs
  PROVE  /\ version'[j] = version[j]
         /\ events'[j] = events[j]
         /\ status'[j] = IF i = j THEN "queued" ELSE status[j]
BY DEF JobType, Enters

\* Admissions and appended events keep the log dense and true.
LEMMA HistoryKept ==
  ASSUME JobType, HistoryMatchesSnapshot,
         \/ UNCHANGED jobRow
         \/ \E j \in Jobs : Enters(j) \/ \E e \in EventType : AppendEvent(j, e)
  PROVE  HistoryMatchesSnapshot'
<1> DEFINE Told(j) == /\ Len(events'[j]) = version'[j]
                      /\ version'[j] > 0 => status'[j] = StatusAfter[events'[j][version'[j]]]
<1> SUFFICES ASSUME NEW j \in Jobs PROVE Told(j)
  BY DEF HistoryMatchesSnapshot
<1>1. events[j] \in Seq(EventType) /\ version[j] \in Nat
  BY DEF JobType
<1>2. /\ Len(events[j]) = version[j]
      /\ version[j] > 0 => status[j] = StatusAfter[events[j][version[j]]]
  BY DEF HistoryMatchesSnapshot
<1>3. CASE UNCHANGED jobRow
  BY <1>2, <1>3 DEF jobRow
<1>4. ASSUME NEW i \in Jobs, Enters(i) PROVE Told(j)
  <2>1. CASE i # j
    BY <1>1, <1>2, <1>4, <2>1, EnterFacts
  <2>2. CASE i = j
    <3>1. status[j] = NoJob
      BY <1>4, <2>2 DEF Enters
    <3>2. version[j] = 0
      <4>1. version[j] > 0 => events[j][version[j]] \in EventType
        BY <1>1, <1>2
      <4>. QED
        BY <1>1, <1>2, <3>1, <4>1, StatusFacts
    <3>. QED
      BY <1>1, <1>2, <1>4, <3>2, EnterFacts
  <2>. QED
    BY <2>1, <2>2
<1>5. ASSUME NEW i \in Jobs, NEW e \in EventType, AppendEvent(i, e) PROVE Told(j)
  <2>1. CASE i # j
    BY <1>1, <1>2, <1>5, <2>1, MoveFacts
  <2>2. CASE i = j
    <3>1. /\ status'[j] = StatusAfter[e]
          /\ version'[j] = version[j] + 1
          /\ events'[j] = Append(events[j], e)
      BY <1>5, <2>2, MoveFacts
    <3>2. /\ Len(Append(events[j], e)) = version[j] + 1
          /\ Append(events[j], e)[version[j] + 1] = e
      BY <1>1, <1>2
    <3>. QED
      BY <3>1, <3>2
  <2>. QED
    BY <2>1, <2>2
<1>. QED
  BY <1>3, <1>4, <1>5

-----------------------------------------------------------------------------
(* Cardinalities. *)

\* A subset has no more elements.
LEMMA SubsetBound ==
  ASSUME NEW S, IsFiniteSet(S), NEW T, T \subseteq S
  PROVE  Cardinality(T) <= Cardinality(S) /\ Cardinality(T) \in Nat
<1>1. T \in SUBSET S
  OBVIOUS
<1>2. IsFiniteSet(T) /\ Cardinality(T) <= Cardinality(S)
  BY <1>1, FS_Subset
<1>. QED
  BY <1>2, FS_CardinalityType

\* One element more counts at most one more.
LEMMA AddBound ==
  ASSUME NEW S, IsFiniteSet(S), NEW x
  PROVE  /\ IsFiniteSet(S \cup {x})
         /\ Cardinality(S \cup {x}) <= Cardinality(S) + 1
         /\ Cardinality(S \cup {x}) \in Nat
<1>1. Cardinality(S) \in Nat
  BY FS_CardinalityType
<1>2. /\ IsFiniteSet(S \cup {x})
      /\ Cardinality(S \cup {x}) = IF x \in S THEN Cardinality(S) ELSE Cardinality(S) + 1
  BY FS_AddElement
<1>3. Cardinality(S \cup {x}) \in {Cardinality(S), Cardinality(S) + 1}
  BY <1>2
<1>. QED
  BY <1>1, <1>2, <1>3
=============================================================================
