--------------------------- MODULE RetentionProofs ---------------------------
(***************************************************************************)
(* Proofs about Retention and the attempts of HostedCheckpoints, for any   *)
(* set of jobs, keys and sources and any bounds.                           *)
(***************************************************************************)
EXTENDS Retention, FiniteSetTheorems, TLAPS

(* The inductive invariant. *)

Version(w) == container[w].version

\* The rows of a sweep, by the table they are in.
RowsOf(kind) == CASE kind = "source"     -> Sources
                  [] kind = "checkpoint" -> Versions
                  [] OTHER               -> Workers

SweepType ==
  \/ sweep = Idle
  \/ /\ sweep \in [at : {"lock", "delete"}, kind : Kinds,
                   rows : SUBSET RowsOf(sweep.kind), gone : SUBSET RowsOf(sweep.kind)]
     /\ sweep.gone \subseteq sweep.rows

\* Containers start with a claim of their own attempt, and write after that.
BegunOnce ==
  /\ \A j \in Jobs, a \in Attempts : a > lease[j].attempts => At(<<j, a>>, "none")
  /\ \A v \in checkpoints : ~At(v[1], "none")
  /\ \A w \in outputs : ~At(w, "none")

\* Time counts for a job once it is over and its containers are gone.
RestQuiet ==
  \A j \in Jobs : rest[j] > 0 => /\ status[j] \in Terminal
                                  /\ \A a \in Attempts : ~Alive(<<j, a>>)

\* A request creates its job once.
AdmittedOnce == \A j \in Jobs : request[j].at # "admitted" => status[j] = NoJob

\* The transaction that has the lease row locked is of the newest attempt.
LockHeld ==
  \A w \in Workers : At(w, "inserting") \/ At(w, "selecting") => lease[w[1]].attempts = w[2]

\* The saves of a running attempt are numbered in order.
SavesNumbered ==
  /\ \A v \in checkpoints : Alive(v[1]) => v[3] <= Cardinality(Saves(v[1], v[2]))
  /\ \A w \in Workers : At(w, "inserting") =>
       /\ Version(w) \in Versions /\ Version(w)[1] = w
       /\ Version(w)[3] = Cardinality(Saves(w, Version(w)[2])) + 1

\* A version on its way has its row, and its object once it is uploaded.
VersionSound ==
  \A w \in Workers :
    /\ At(w, "uploading") \/ At(w, "uploaded") \/ At(w, "selecting") =>
         Version(w) \in checkpoints \ ready /\ Version(w)[1] = w
    /\ At(w, "uploaded") \/ At(w, "selecting") => Object("checkpoint", Version(w)) \in store
    /\ At(w, "downloading") => JobOf(Version(w)) = w[1]
    /\ At(w, "downloading") /\ lease[w[1]].attempts = w[2] => Version(w) \in ready

\* So has an output.
OutputSound ==
  \A w \in Workers :
    /\ At(w, "publishing") \/ At(w, "completing") => w \in outputs
    /\ At(w, "completing") => Object("artifact", w) \in store

\* A selected version of a job that is not over can be restored.
ReadyStored ==
  \A v \in ready : rest[JobOf(v)] = 0 => Object("checkpoint", v) \in store

\* What a sweep has selected stays expired until it commits ...
SweptRow(kind, row) ==
  CASE kind = "source"     -> row \in assets
    [] kind = "published"  -> artifact[row[1]] = row[2] /\ rest[row[1]] = 3
    [] kind = "temporary"  -> row \in outputs /\ At(row, "done") /\ artifact[row[1]] # row[2]
    [] kind = "checkpoint" -> /\ row \in checkpoints /\ At(row[1], "done")
                              /\ row \notin ready \/ rest[JobOf(row)] > 0

\* ... and what it has deleted stays deleted.
SweepSound ==
  /\ \A row \in sweep.rows : SweptRow(sweep.kind, row)
  /\ \A row \in sweep.gone : SweptObject(sweep.kind, row) \notin store

IInv == /\ TypeOK /\ SweepType /\ BegunOnce /\ RestQuiet /\ AdmittedOnce /\ LockHeld
        /\ SavesNumbered /\ VersionSound /\ OutputSound /\ ReadyStored /\ SweepSound
        /\ ObjectsTracked /\ ArtifactKept

-----------------------------------------------------------------------------
(* Shapes: what a step may do to each variable. *)

LEMMA WorkerPair ==
  ASSUME NEW w \in Workers
  PROVE  w[1] \in Jobs /\ w[2] \in Attempts /\ w = <<w[1], w[2]>>
BY DEF Workers

LEMMA VersionParts ==
  ASSUME NEW v \in Versions
  PROVE  /\ v[1] \in Workers /\ v[2] \in Keys /\ v[3] \in 1 .. MaxSaves
         /\ JobOf(v) \in Jobs /\ AttemptOf(v) \in Attempts
         /\ v[1] = <<JobOf(v), AttemptOf(v)>> /\ v = <<v[1], v[2], v[3]>>
BY DEF Versions, Workers, JobOf, AttemptOf

LEMMA MoveFacts ==
  ASSUME TypeOK, NEW w \in Workers, NEW at, NEW v, GotoWith(w, at, v)
  PROVE  /\ container'[w].at = at /\ container'[w].version = v
         /\ \A x \in Workers : x # w => container'[x] = container[x]
BY DEF TypeOK, AttemptsTypeOK, GotoWith

LEMMA GotoFacts ==
  ASSUME TypeOK, NEW w \in Workers, NEW at, Goto(w, at)
  PROVE  /\ container'[w].at = at
         /\ \A x \in Workers : x # w => container'[x] = container[x]
BY DEF TypeOK, AttemptsTypeOK, Goto

\* Only these steps leave a container where it was.
LEMMA ContainerStays ==
  ASSUME [Next]_vars
  PROVE  \/ UNCHANGED container
         \/ \E j \in Jobs : Claim(j)
         \/ \E w \in Workers : \/ Die(w) \/ Refused(w) \/ BeginSave(w) \/ Insert(w)
                               \/ UploadCheckpoint(w) \/ UploadRaises(w) \/ BeginSelect(w)
                               \/ Select(w) \/ TransactionRaises(w) \/ Restore(w)
                               \/ Download(w) \/ DownloadRaises(w) \/ RegisterOutput(w)
                               \/ UploadOutput(w) \/ PublishRaises(w) \/ Complete(w) \/ Exit(w)
BY DEF Next, vars, execution, AttemptsNext, ContainerStep, Exhaust, Cancel, Expire, EndJob,
       SweepStep, PutSource, RecordAsset, UploadDies, Inspect, Preflight, Admit, Rest,
       SweepSelect, SweepLock, SweepDelete, SweepCommit, SweepFails, OnlySweep

\* By which step a container gets to where it is.
Arrived(w) ==
  /\ At(w, "done") => container'[w] = container[w]
  /\ ~At(w, "none") => ~At(w, "none")'
  /\ At(w, "none") /\ ~At(w, "none")' => Claim(w[1]) /\ w[2] = lease[w[1]].attempts + 1
  /\ container'[w] # container[w] =>
       /\ At(w, "inserting")'   => BeginSave(w)
       /\ At(w, "uploading")'   => Insert(w)
       /\ At(w, "uploaded")'    => UploadCheckpoint(w)
       /\ At(w, "selecting")'   => BeginSelect(w)
       /\ At(w, "downloading")' => Restore(w)
       /\ At(w, "publishing")'  => RegisterOutput(w)
       /\ At(w, "completing")'  => UploadOutput(w)

LEMMA Arrivals ==
  ASSUME TypeOK, BegunOnce, [Next]_vars, NEW w \in Workers
  PROVE  Arrived(w)
<1>0. container'[w] = container[w] => Arrived(w)
  BY DEF At, Arrived
<1>1. ASSUME NEW j \in Jobs, Claim(j) PROVE Arrived(w)
  <2> DEFINE x == <<j, lease[j].attempts + 1>>
  <2>1. x \in Workers /\ x[1] = j /\ x[2] = lease[j].attempts + 1
    BY <1>1 DEF Claim, TypeOK, AttemptsTypeOK, Workers, Attempts
  <2>2. Goto(x, "rendering")
    BY <1>1 DEF Claim
  <2> HIDE DEF x
  <2>3. container'[x].at = "rendering" /\ (w # x => container'[w] = container[w])
    BY <2>1, <2>2, GotoFacts
  <2>4. At(x, "none")
    <3>1. lease[j].attempts \in Nat
      BY DEF TypeOK, AttemptsTypeOK
    <3>. QED
      BY <2>1, <3>1, WorkerPair DEF BegunOnce
  <2>. QED
    BY <1>0, <1>1, <2>1, <2>3, <2>4 DEF At, Arrived
<1>2. ASSUME NEW x \in Workers, Alive(x), NEW at \in {"rendering", "ending", "done"},
             Goto(x, at)
      PROVE  Arrived(w)
  <2>1. container'[x].at = at
    BY <1>2, GotoFacts
  <2>2. CASE w = x
    BY <1>2, <2>1, <2>2 DEF At, Alive, Arrived
  <2>3. CASE w # x
    BY <1>0, <1>2, <2>3, GotoFacts
  <2>. QED
    BY <2>2, <2>3
<1>3. ASSUME NEW x \in Workers, Alive(x), NEW at, NEW v, GotoWith(x, at, v),
             \/ at = "inserting" /\ BeginSave(x)
             \/ at = "uploading" /\ Insert(x)
             \/ at = "uploaded" /\ UploadCheckpoint(x)
             \/ at = "selecting" /\ BeginSelect(x)
             \/ at = "downloading" /\ Restore(x)
      PROVE  Arrived(w)
  <2>1. container'[x].at = at
    BY <1>3, MoveFacts
  <2>2. CASE w = x
    BY <1>3, <2>1, <2>2 DEF At, Alive, Arrived
  <2>3. CASE w # x
    BY <1>0, <1>3, <2>3, MoveFacts
  <2>. QED
    BY <2>2, <2>3
<1>4. ASSUME NEW x \in Workers, Alive(x), NEW at, Goto(x, at),
             \/ at = "publishing" /\ RegisterOutput(x)
             \/ at = "completing" /\ UploadOutput(x)
      PROVE  Arrived(w)
  <2>1. container'[x].at = at
    BY <1>4, GotoFacts
  <2>2. CASE w = x
    BY <1>4, <2>1, <2>2 DEF At, Alive, Arrived
  <2>3. CASE w # x
    BY <1>0, <1>4, <2>3, GotoFacts
  <2>. QED
    BY <2>2, <2>3
<1>5. ASSUME NEW x \in Workers, Die(x) PROVE Arrived(w)
  BY <1>2, <1>5 DEF Die
<1>6. ASSUME NEW x \in Workers,
             \/ Refused(x) \/ UploadRaises(x) \/ TransactionRaises(x) \/ DownloadRaises(x)
             \/ PublishRaises(x) \/ Complete(x)
      PROVE  Arrived(w)
  <2>1. Goto(x, "ending") /\ Alive(x)
    BY <1>6 DEF Refused, UploadRaises, TransactionRaises, DownloadRaises, PublishRaises, Complete,
                Alive, At
  <2>. QED
    BY <2>1, <1>2
<1>7. ASSUME NEW x \in Workers, Select(x) \/ Download(x) PROVE Arrived(w)
  <2>1. Goto(x, "rendering") /\ Alive(x)
    BY <1>7 DEF Select, Download, Alive, At
  <2>. QED
    BY <2>1, <1>2
<1>8. ASSUME NEW x \in Workers, Exit(x) PROVE Arrived(w)
  <2>1. Goto(x, "done") /\ Alive(x)
    BY <1>8 DEF Exit, Alive, At
  <2>. QED
    BY <2>1, <1>2
<1>9. ASSUME NEW x \in Workers, BeginSave(x) PROVE Arrived(w)
  <2>1. Alive(x)
    BY <1>9 DEF BeginSave, Alive, At
  <2>2. \E v : GotoWith(x, "inserting", v)
    BY <1>9 DEF BeginSave
  <2>. QED
    BY <2>1, <2>2, <1>9, <1>3
<1>10. ASSUME NEW x \in Workers, Insert(x) PROVE Arrived(w)
  <2>1. Alive(x)
    BY <1>10 DEF Insert, Alive, At
  <2>2. \E v : GotoWith(x, "uploading", v)
    BY <1>10 DEF Insert
  <2>. QED
    BY <2>1, <2>2, <1>10, <1>3
<1>11. ASSUME NEW x \in Workers, UploadCheckpoint(x) PROVE Arrived(w)
  <2>1. Alive(x)
    BY <1>11 DEF UploadCheckpoint, Alive, At
  <2>2. \E v : GotoWith(x, "uploaded", v)
    BY <1>11 DEF UploadCheckpoint
  <2>. QED
    BY <2>1, <2>2, <1>11, <1>3
<1>12. ASSUME NEW x \in Workers, BeginSelect(x) PROVE Arrived(w)
  <2>1. Alive(x)
    BY <1>12 DEF BeginSelect, Alive, At
  <2>2. \E v : GotoWith(x, "selecting", v)
    BY <1>12 DEF BeginSelect
  <2>. QED
    BY <2>1, <2>2, <1>12, <1>3
<1>13. ASSUME NEW x \in Workers, Restore(x) PROVE Arrived(w)
  <2>1. Alive(x)
    BY <1>13 DEF Restore, Alive, At
  <2>2. \E v : GotoWith(x, "downloading", v)
    BY <1>13 DEF Restore
  <2>. QED
    BY <2>1, <2>2, <1>13, <1>3
<1>14. ASSUME NEW x \in Workers, RegisterOutput(x) PROVE Arrived(w)
  <2>1. Goto(x, "publishing") /\ Alive(x)
    BY <1>14 DEF RegisterOutput, Alive, At
  <2>. QED
    BY <2>1, <1>14, <1>4
<1>15. ASSUME NEW x \in Workers, UploadOutput(x) PROVE Arrived(w)
  <2>1. Goto(x, "completing") /\ Alive(x)
    BY <1>15 DEF UploadOutput, Alive, At
  <2>. QED
    BY <2>1, <1>15, <1>4
<1>. QED
  BY <1>0, <1>1, <1>5, <1>6, <1>7, <1>8, <1>9, <1>10, <1>11, <1>12, <1>13, <1>14, <1>15,
     ContainerStays

\* What a step does to the jobs: to their leases ...
LEMMA LeaseStays ==
  ASSUME [Next]_vars
  PROVE  \/ UNCHANGED lease
         \/ \E j \in Jobs : Claim(j) \/ Expire(j)
         \/ \E w \in Workers : Exit(w)
BY DEF Next, vars, execution, AttemptsNext, ContainerStep, Exhaust, Cancel, EndJob, Die,
      Refused, BeginSave, Insert, UploadCheckpoint, UploadRaises, BeginSelect, Select,
      TransactionRaises, Restore, Download, DownloadRaises, RegisterOutput, UploadOutput,
      PublishRaises, Complete, SweepStep, PutSource, RecordAsset, UploadDies, Inspect,
      Preflight, Admit, Rest, SweepSelect, SweepLock, SweepDelete, SweepCommit, SweepFails,
      OnlySweep

LEMMA LeaseMoves ==
  ASSUME TypeOK, [Next]_vars, NEW j \in Jobs
  PROVE  \/ lease'[j].attempts = lease[j].attempts
         \/ Claim(j) /\ lease'[j].attempts = lease[j].attempts + 1
<1>1. CASE UNCHANGED lease
  BY <1>1
<1>2. ASSUME NEW i \in Jobs, Claim(i)
      PROVE  \/ lease'[j].attempts = lease[j].attempts
             \/ Claim(j) /\ lease'[j].attempts = lease[j].attempts + 1
  BY <1>2 DEF Claim, TypeOK, AttemptsTypeOK
<1>3. ASSUME NEW i \in Jobs, lease' = [lease EXCEPT ![i].live = FALSE]
      PROVE  lease'[j].attempts = lease[j].attempts
  BY <1>3 DEF TypeOK, AttemptsTypeOK
<1>4. ASSUME NEW i \in Jobs, Expire(i) PROVE lease'[j].attempts = lease[j].attempts
  BY <1>3, <1>4 DEF Expire
<1>5. ASSUME NEW w \in Workers, Exit(w) PROVE lease'[j].attempts = lease[j].attempts
  BY <1>3, <1>5, WorkerPair DEF Exit
<1>. QED
  BY <1>1, <1>2, <1>4, <1>5, LeaseStays

\* ... and to their statuses.
StatusMove(j) ==
  \/ status'[j] = status[j]
  \/ status[j] \in Unfinished /\ status'[j] \in JobStatus
  \/ request[j].at = "checked" /\ request'[j].at = "admitted" /\ status'[j] = "queued"

LEMMA StatusMoves ==
  ASSUME TypeOK, [Next]_vars
  PROVE  /\ \A j \in Jobs : StatusMove(j)
         /\ status' \in [Jobs -> JobStatus \cup {NoJob}]
<1> DEFINE Goal == /\ \A j \in Jobs : StatusMove(j)
                   /\ status' \in [Jobs -> JobStatus \cup {NoJob}]
<1>0. status \in [Jobs -> JobStatus \cup {NoJob}]
  BY DEF TypeOK, AttemptsTypeOK
<1>1. ASSUME NEW i \in Jobs, status[i] \in Unfinished, NEW st \in JobStatus,
             status' = [status EXCEPT ![i] = st]
      PROVE  Goal
  BY <1>0, <1>1 DEF StatusMove
<1>2. CASE UNCHANGED status
  BY <1>0, <1>2 DEF StatusMove
<1>3. ASSUME NEW i \in Jobs, Claim(i) \/ Exhaust(i) \/ Cancel(i) PROVE Goal
  <2>1. \E st \in JobStatus : status' = [status EXCEPT ![i] = st]
    BY <1>0, <1>3 DEF Claim, Exhaust, Cancel, JobStatus, Unfinished
  <2>2. status[i] \in Unfinished
    BY <1>3 DEF Claim, Exhaust, Cancel, JobStatus, Terminal, Unfinished
  <2>. QED
    BY <1>1, <2>1, <2>2
<1>4. ASSUME NEW w \in Workers, EndJob(w) \/ Complete(w) PROVE Goal
  <2>1. w[1] \in Jobs
    BY WorkerPair
  <2>2. \/ UNCHANGED status
        \/ /\ status[w[1]] \in Unfinished
           /\ \E st \in JobStatus : status' = [status EXCEPT ![w[1]] = st]
    BY <1>0, <1>4, <2>1 DEF EndJob, Complete, Check, JobStatus, Terminal, Unfinished
  <2>. QED
    BY <1>1, <1>2, <2>1, <2>2
<1>5. ASSUME NEW j \in Jobs, Admit(j) PROVE Goal
  <2>1. CASE UNCHANGED status
    BY <1>2, <2>1
  <2>2. CASE /\ request' = [request EXCEPT ![j].at = "admitted"]
             /\ status' = [status EXCEPT ![j] = "queued"]
    <3>1. request'[j].at = "admitted"
      BY <2>2 DEF TypeOK
    <3>. QED
      BY <1>0, <1>5, <2>2, <3>1 DEF Admit, StatusMove, JobStatus
  <2>. QED
    BY <1>5, <2>1, <2>2 DEF Admit
<1>6. \/ UNCHANGED status
      \/ \E j \in Jobs : Claim(j) \/ Exhaust(j) \/ Cancel(j) \/ Admit(j)
      \/ \E w \in Workers : EndJob(w) \/ Complete(w)
  BY DEF Next, vars, execution, AttemptsNext, ContainerStep, Expire, Die, Exit,
      Refused, BeginSave, Insert, UploadCheckpoint, UploadRaises, BeginSelect, Select,
      TransactionRaises, Restore, Download, DownloadRaises, RegisterOutput, UploadOutput,
      PublishRaises, SweepStep, PutSource, RecordAsset, UploadDies, Inspect,
      Preflight, Rest, SweepSelect, SweepLock, SweepDelete, SweepCommit, SweepFails,
      OnlySweep
<1>7. Goal
  BY <1>2, <1>3, <1>4, <1>5, <1>6
<1>. QED
  BY <1>7 DEF Goal

\* What a step does to the tables.  Only a sweep removes rows.
CommitOf(kind) == SweepCommit /\ sweep.kind = kind

CheckpointMove(v) ==
  /\ v \in checkpoints' \ checkpoints =>
       \E w \in Workers : /\ At(w, "inserting") /\ v = Version(w)
                          /\ ~At(w, "inserting")' /\ UNCHANGED ready
  /\ v \in checkpoints \ checkpoints' => CommitOf("checkpoint") /\ v \in sweep.rows

ReadyMove(v) ==
  /\ v \in ready' \ ready =>
       \E w \in Workers : /\ At(w, "selecting") /\ v = Version(w) /\ ~At(w, "selecting")'
                          /\ SelectRow(w)
  /\ v \in ready \ ready' =>
       \/ CommitOf("checkpoint") /\ v \in sweep.rows
       \/ \E w \in Workers : At(w, "selecting") /\ SelectRow(w) /\ SameKey(v, Version(w))

OutputMove(w) ==
  /\ w \in outputs' \ outputs => RegisterOutput(w)
  /\ w \in outputs \ outputs' => CommitOf("temporary") /\ w \in sweep.rows

ArtifactMove(j) ==
  \/ artifact'[j] = artifact[j]
  \/ \E w \in Workers : /\ w[1] = j /\ At(w, "completing") /\ Complete(w)
                        /\ artifact'[j] = w[2]
  \/ /\ CommitOf("published") /\ artifact'[j] = 0
     /\ <<j, artifact[j]>> \in sweep.rows

\* Steps that leave the tables alone.
LEMMA TablesStay ==
  ASSUME [Next]_vars
  PROVE  \/ UNCHANGED tables
         \/ SweepCommit
         \/ \E w \in Workers : \/ Insert(w) \/ Select(w) \/ TransactionRaises(w)
                               \/ RegisterOutput(w) \/ Complete(w)
BY DEF Next, vars, AttemptsNext, ContainerStep, Claim, Exhaust, Cancel, Expire, EndJob,
       Die, Exit, Refused, BeginSave, UploadCheckpoint, UploadRaises, BeginSelect,
       Restore, Download, DownloadRaises, UploadOutput, PublishRaises,
       SweepStep, PutSource, RecordAsset, UploadDies, Inspect, Preflight, Admit, Rest,
       SweepSelect, SweepLock, SweepDelete, SweepFails

LEMMA TableMoves ==
  ASSUME TypeOK, [Next]_vars
  PROVE  /\ \A v : CheckpointMove(v) /\ ReadyMove(v)
         /\ \A w : OutputMove(w)
         /\ \A j \in Jobs : ArtifactMove(j)
<1> DEFINE Goal == /\ \A v : CheckpointMove(v) /\ ReadyMove(v)
                   /\ \A w : OutputMove(w)
                   /\ \A j \in Jobs : ArtifactMove(j)
<1>1. CASE UNCHANGED tables
  BY <1>1 DEF tables, CheckpointMove, ReadyMove, OutputMove, ArtifactMove
<1>2. CASE SweepCommit
  <2>1. \A v : CheckpointMove(v)
    BY <1>2 DEF SweepCommit, CommitOf, CheckpointMove
  <2>2. \A v : ReadyMove(v)
    BY <1>2 DEF SweepCommit, CommitOf, ReadyMove
  <2>3. \A w : OutputMove(w)
    BY <1>2 DEF SweepCommit, CommitOf, OutputMove
  <2>4. \A j \in Jobs : ArtifactMove(j)
    BY <1>2 DEF SweepCommit, CommitOf, ArtifactMove
  <2>. QED
    BY <2>1, <2>2, <2>3, <2>4
<1>3. ASSUME NEW w \in Workers, Insert(w) \/ TransactionRaises(w),
             At(w, "inserting"), InsertRow(w)
      PROVE  Goal
  <2>1. ~At(w, "inserting")'
    BY <1>3, MoveFacts, GotoFacts DEF Insert, TransactionRaises, At
  <2>. QED
    BY <1>3, <2>1 DEF InsertRow, Version, CheckpointMove, ReadyMove, OutputMove, ArtifactMove
<1>4. ASSUME NEW w \in Workers, Select(w) \/ TransactionRaises(w),
             At(w, "selecting"), SelectRow(w)
      PROVE  Goal
  <2>1. ~At(w, "selecting")'
    BY <1>4, GotoFacts DEF Select, TransactionRaises, At
  <2>2. \A v : ReadyMove(v)
    BY <1>4, <2>1 DEF SelectRow, Version, ReadyMove
  <2>. QED
    BY <1>4, <2>2 DEF SelectRow, CheckpointMove, OutputMove, ArtifactMove
<1>5. ASSUME NEW w \in Workers, TransactionRaises(w) PROVE Goal
  BY <1>1, <1>3, <1>4, <1>5 DEF TransactionRaises
<1>6. ASSUME NEW w \in Workers, RegisterOutput(w) PROVE Goal
  BY <1>6 DEF RegisterOutput, CheckpointMove, ReadyMove, OutputMove, ArtifactMove
<1>7. ASSUME NEW w \in Workers, Complete(w) PROVE Goal
  <2>1. \A j \in Jobs : artifact'[j] = artifact[j] \/ (j = w[1] /\ artifact'[j] = w[2])
    BY <1>7 DEF Complete, TypeOK, AttemptsTypeOK
  <2>. QED
    BY <1>7, <2>1 DEF Complete, CheckpointMove, ReadyMove, OutputMove, ArtifactMove
<1>8. Goal
  BY <1>1, <1>2, <1>3, <1>4, <1>5, <1>6, <1>7, TablesStay DEF Insert, Select
<1>. QED
  BY <1>8 DEF Goal

\* What a step does to the bucket, and to the sweep.
StoreMove(o) ==
  /\ o \in store' \ store =>
       \/ \E w \in Workers : At(w, "uploading") /\ o = Object("checkpoint", Version(w))
       \/ \E w \in Workers : At(w, "publishing") /\ o = Object("artifact", w)
       \/ \E s \in Sources : Fresh(s) /\ o = Object("source", s)
  /\ o \in store \ store' =>
       \E row \in sweep.rows : SweepDelete(row) /\ o = SweptObject(sweep.kind, row)

LEMMA StoreMoves ==
  ASSUME [Next]_vars
  PROVE  \A o : StoreMove(o)
<1> DEFINE Goal == \A o : StoreMove(o)
<1>1. CASE UNCHANGED store
  BY <1>1 DEF StoreMove
<1>2. ASSUME NEW w \in Workers, UploadCheckpoint(w) \/ UploadRaises(w) PROVE Goal
  BY <1>2 DEF UploadCheckpoint, UploadRaises, StoreMove, Version
<1>3. ASSUME NEW w \in Workers, UploadOutput(w) \/ PublishRaises(w) PROVE Goal
  BY <1>3 DEF UploadOutput, PublishRaises, StoreMove
<1>4. ASSUME NEW s \in Sources, PutSource(s) PROVE Goal
  BY <1>4 DEF PutSource, StoreMove
<1>5. ASSUME NEW row \in sweep.rows, SweepDelete(row) PROVE Goal
  BY <1>5 DEF SweepDelete, StoreMove
<1>6. \/ UNCHANGED store
      \/ \E w \in Workers : \/ UploadCheckpoint(w) \/ UploadRaises(w)
                            \/ UploadOutput(w) \/ PublishRaises(w)
      \/ \E s \in Sources : PutSource(s)
      \/ \E row \in sweep.rows : SweepDelete(row)
  BY DEF Next, vars, AttemptsNext, ContainerStep, Claim, Exhaust, Cancel, Expire, EndJob,
         Die, Exit, Refused, BeginSave, Insert, BeginSelect, Select, TransactionRaises,
         Restore, Download, DownloadRaises, RegisterOutput, Complete,
         SweepStep, RecordAsset, UploadDies, Inspect, Preflight, Admit, Rest,
         SweepSelect, SweepLock, SweepCommit, SweepFails
<1>. QED
  BY <1>1, <1>2, <1>3, <1>4, <1>5, <1>6

LEMMA SweepMoves ==
  ASSUME [Next]_vars
  PROVE  \/ UNCHANGED sweep
         \/ sweep' = Idle
         \/ \E kind \in Kinds : SweepSelect(kind)
         \/ SweepLock
         \/ \E row \in sweep.rows : SweepDelete(row)
BY DEF Next, vars, OthersUnchanged, SweepStep, PutSource, RecordAsset, UploadDies, Inspect,
       Preflight, Admit, Rest, SweepCommit, SweepFails

\* What a step does to requests, to time and to the assets.
LEMMA OtherMoves ==
  ASSUME TypeOK, [Next]_vars
  PROVE  /\ \A j \in Jobs : request[j].at = "admitted" => request'[j].at = "admitted"
         /\ \A j \in Jobs : \/ rest'[j] = rest[j]
                            \/ Rest(j) /\ rest[j] < 3 /\ rest'[j] = rest[j] + 1
         /\ \A s \in assets \ assets' : CommitOf("source") /\ s \in sweep.rows
<1>1. \A j \in Jobs : request[j].at = "admitted" => request'[j].at = "admitted"
  <2>1. CASE UNCHANGED request
    BY <2>1
  <2>2. ASSUME NEW i \in Jobs, NEW s \in Sources, Preflight(i, s)
        PROVE  \A j \in Jobs : request[j].at = "admitted" => request'[j].at = "admitted"
    BY <2>2 DEF Preflight, TypeOK
  <2>3. ASSUME NEW i \in Jobs, Admit(i)
        PROVE  \A j \in Jobs : request[j].at = "admitted" => request'[j].at = "admitted"
    BY <2>3 DEF Admit, TypeOK
  <2>. QED
    BY <2>1, <2>2, <2>3
    DEF Next, vars, OthersUnchanged, sources, SweepStep, PutSource, RecordAsset, UploadDies,
        Inspect, Rest, SweepSelect, SweepLock, SweepDelete, SweepCommit, SweepFails, OnlySweep
<1>2. \A j \in Jobs : \/ rest'[j] = rest[j]
                      \/ Rest(j) /\ rest[j] < 3 /\ rest'[j] = rest[j] + 1
  <2>1. CASE UNCHANGED rest
    BY <2>1
  <2>2. ASSUME NEW i \in Jobs, Rest(i)
        PROVE  \A j \in Jobs : \/ rest'[j] = rest[j]
                               \/ Rest(j) /\ rest[j] < 3 /\ rest'[j] = rest[j] + 1
    BY <2>2 DEF Rest, TypeOK
  <2>. QED
    BY <2>1, <2>2
    DEF Next, vars, OthersUnchanged, SweepStep, PutSource, RecordAsset, UploadDies,
        Inspect, Preflight, Admit, SweepSelect, SweepLock, SweepDelete, SweepCommit,
        SweepFails, OnlySweep
<1>3. \A s \in assets \ assets' : CommitOf("source") /\ s \in sweep.rows
  <2>1. CASE assets \subseteq assets'
    BY <2>1
  <2>2. CASE SweepCommit
    BY <2>2 DEF SweepCommit, CommitOf
  <2>. QED
    BY <2>1, <2>2
    DEF Next, vars, OthersUnchanged, sources, SweepStep, PutSource, RecordAsset, UploadDies,
        Inspect, Preflight, Admit, Rest, SweepSelect, SweepLock, SweepDelete, SweepFails,
        OnlySweep
<1>. QED
  BY <1>1, <1>2, <1>3

-----------------------------------------------------------------------------
(* Saves. *)

LEMMA SavesBound ==
  ASSUME NEW w, NEW k
  PROVE  IsFiniteSet({<<w, k, n>> : n \in 1 .. MaxSaves})
<1> DEFINE T == {<<w, k, n>> : n \in 1 .. MaxSaves}
           f == [n \in 1 .. MaxSaves |-> <<w, k, n>>]
<1>1. IsFiniteSet(1 .. MaxSaves)
  BY CheckpointAssumption, FS_Interval
<1>2. f \in Surjection(1 .. MaxSaves, T)
  BY DEF Surjection
<1>. QED
  BY <1>1, <1>2, FS_Surjection

\* The saves of a key can be counted.
LEMMA SavesFinite ==
  ASSUME TypeOK, NEW w, NEW k
  PROVE  IsFiniteSet(Saves(w, k)) /\ Cardinality(Saves(w, k)) \in Nat
<1> DEFINE T == {<<w, k, n>> : n \in 1 .. MaxSaves}
<1>1. Saves(w, k) \subseteq T
  BY DEF TypeOK, AttemptsTypeOK, Versions, Saves
<1>2. IsFiniteSet(T)
  BY SavesBound
<1> HIDE DEF T
<1>. QED
  BY <1>1, <1>2, FS_Subset, FS_CardinalityType

\* An attempt that is alive only loses no save, and gains one by its own insert.
LEMMA SavesMove ==
  ASSUME IInv, [Next]_vars, NEW w \in Workers, NEW k, Alive(w)'
  PROVE  \/ Saves(w, k)' = Saves(w, k)
         \/ /\ At(w, "inserting") /\ ~At(w, "inserting")' /\ Version(w)[2] = k
            /\ Saves(w, k)' = Saves(w, k) \cup {Version(w)}
<1>0. TypeOK /\ BegunOnce
  BY DEF IInv
<1>1. Saves(w, k) \subseteq Saves(w, k)'
  <2> SUFFICES ASSUME NEW v \in Saves(w, k), v \notin checkpoints' PROVE FALSE
    BY DEF Saves
  <2>1. v \in checkpoints /\ v[1] = w
    BY DEF Saves
  <2>2. CommitOf("checkpoint") /\ v \in sweep.rows
    BY <1>0, <2>1, TableMoves DEF CheckpointMove
  <2>3. At(w, "done")
    BY <2>1, <2>2 DEF IInv, SweepSound, SweptRow, CommitOf
  <2>. QED
    BY <1>0, <2>3, Arrivals DEF Arrived, At, Alive
<1>2. ASSUME NEW v \in Saves(w, k)' \ Saves(w, k)
      PROVE  At(w, "inserting") /\ ~At(w, "inserting")' /\ v = Version(w)
  <2>1. v \in checkpoints' \ checkpoints /\ v[1] = w
    BY <1>2 DEF Saves
  <2>2. PICK x \in Workers : At(x, "inserting") /\ v = Version(x) /\ ~At(x, "inserting")'
    BY <1>0, <2>1, TableMoves DEF CheckpointMove
  <2>3. x = w
    BY <2>1, <2>2 DEF IInv, SavesNumbered
  <2>. QED
    BY <2>2, <2>3
<1>3. CASE Saves(w, k)' # Saves(w, k)
  <2>1. PICK v \in Saves(w, k)' \ Saves(w, k) : TRUE
    BY <1>1, <1>3
  <2>2. v[2] = k
    BY <2>1 DEF Saves
  <2>. QED
    BY <1>1, <1>2, <2>1, <2>2
<1>. QED
  BY <1>3

\* The row a transaction is about to insert is a new one.
LEMMA InsertsNew ==
  ASSUME IInv, NEW w \in Workers, At(w, "inserting")
  PROVE  Version(w) \in Versions \ checkpoints /\ Version(w)[1] = w
<1>1. Version(w) \in Versions /\ Version(w)[1] = w
  BY DEF IInv, SavesNumbered
<1>2. ASSUME Version(w) \in checkpoints PROVE FALSE
  <2> DEFINE n == Cardinality(Saves(w, Version(w)[2]))
  <2>1. n \in Nat
    BY SavesFinite DEF IInv
  <2>2. Version(w)[3] = n + 1
    BY DEF IInv, SavesNumbered
  <2>3. Version(w)[3] <= n
    BY <1>1, <1>2 DEF IInv, SavesNumbered, Alive, At
  <2> HIDE DEF n
  <2>. QED
    BY <2>1, <2>2, <2>3
<1>. QED
  BY <1>1, <1>2

LEMMA SavesNext ==
  ASSUME IInv, [Next]_vars
  PROVE  SavesNumbered'
<1>0. TypeOK /\ BegunOnce
  BY DEF IInv
<1>1. ASSUME NEW v \in checkpoints', Alive(v[1])'
      PROVE  v[3] <= Cardinality(Saves(v[1], v[2])')
  <2> DEFINE w == v[1]
             k == v[2]
             n == Cardinality(Saves(w, k))
  <2>1. n \in Nat
    BY <1>0, SavesFinite
  <2>2. v \in Versions
    <3>1. CASE v \in checkpoints
      BY <1>0, <3>1 DEF TypeOK, AttemptsTypeOK
    <3>2. CASE v \notin checkpoints
      BY <1>0, <3>2, TableMoves, InsertsNew DEF CheckpointMove
    <3>. QED
      BY <3>1, <3>2
  <2>3. w \in Workers /\ v[3] \in Nat
    BY <2>2, VersionParts
  <2>4. CASE v \in checkpoints
    <3>1. Alive(w)
      BY <1>0, <1>1, <2>3, <2>4, Arrivals DEF Arrived, Alive, At, BegunOnce
    <3>2. v[3] <= n
      BY <2>4, <3>1 DEF IInv, SavesNumbered
    <3>3. CASE Saves(w, k)' = Saves(w, k)
      BY <3>2, <3>3
    <3>4. CASE Saves(w, k)' = Saves(w, k) \cup {Version(w)}
      <4>1. Cardinality(Saves(w, k) \cup {Version(w)}) \in {n, n + 1}
        BY <1>0, SavesFinite, FS_AddElement
      <4>2. Cardinality(Saves(w, k)') \in {n, n + 1}
        BY <3>4, <4>1
      <4> HIDE DEF n, w, k
      <4>. QED
        BY <2>1, <2>3, <3>2, <4>2 DEF w, k
    <3>. QED
      BY <1>1, <2>3, <3>3, <3>4, SavesMove
  <2>5. CASE v \notin checkpoints
    <3>1. PICK x \in Workers : At(x, "inserting") /\ v = Version(x)
      BY <1>0, <2>5, TableMoves DEF CheckpointMove
    <3>2. x = w /\ v[3] = n + 1
      BY <3>1 DEF IInv, SavesNumbered
    <3>3. Saves(w, k)' = Saves(w, k) \cup {v} /\ v \notin Saves(w, k)
      <4>1. v \in Saves(w, k)' /\ v \notin Saves(w, k)
        BY <2>5 DEF Saves
      <4>. QED
        BY <1>1, <2>3, <3>1, <3>2, <4>1, SavesMove
    <3>4. Cardinality(Saves(w, k)') = n + 1
      BY <1>0, <3>3, SavesFinite, FS_AddElement
    <3>. QED
      BY <2>1, <3>2, <3>4
  <2>. QED
    BY <2>4, <2>5
<1>2. ASSUME NEW w \in Workers, At(w, "inserting")'
      PROVE  (/\ Version(w) \in Versions /\ Version(w)[1] = w
              /\ Version(w)[3] = Cardinality(Saves(w, Version(w)[2])) + 1)'
  <2>1. CASE container'[w] = container[w]
    <3>1. PICK v : v = Version(w)
      OBVIOUS
    <3>2. At(w, "inserting") /\ Version(w)' = v
      BY <1>2, <2>1, <3>1 DEF At, Version
    <3>3. Saves(w, v[2])' = Saves(w, v[2])
      BY <1>2, SavesMove DEF Alive, At
    <3>4. v \in Versions /\ v[1] = w /\ v[3] = Cardinality(Saves(w, v[2])) + 1
      BY <3>1, <3>2 DEF IInv, SavesNumbered
    <3>. QED
      BY <3>2, <3>3, <3>4
  <2>2. CASE BeginSave(w)
    <3>1. PICK k \in Keys : /\ Cardinality(Saves(w, k)) + 1 <= MaxSaves
                            /\ GotoWith(w, "inserting", <<w, k, Cardinality(Saves(w, k)) + 1>>)
      BY <2>2 DEF BeginSave
    <3>2. Version(w)' = <<w, k, Cardinality(Saves(w, k)) + 1>>
      BY <1>0, <3>1, MoveFacts DEF Version
    <3>3. Saves(w, k)' = Saves(w, k)
      BY <2>2 DEF BeginSave, tables, Saves
    <3>4. Cardinality(Saves(w, k)) + 1 \in 1 .. MaxSaves
      BY <1>0, <3>1, SavesFinite, CheckpointAssumption
    <3>. QED
      BY <3>2, <3>3, <3>4 DEF Versions
  <2>. QED
    BY <1>0, <1>2, <2>1, <2>2, Arrivals DEF Arrived
<1>. QED
  BY <1>1, <1>2 DEF SavesNumbered

-----------------------------------------------------------------------------
(* Type correctness. *)

LEMMA ContainerType ==
  ASSUME IInv, [Next]_vars
  PROVE  container' \in [Workers -> [at : Points, version : Versions \cup {None}]]
<1> DEFINE State == [at : Points, version : Versions \cup {None}]
<1>0. container \in [Workers -> State] /\ TypeOK
  BY DEF IInv, TypeOK, AttemptsTypeOK
<1>1. ASSUME NEW w \in Workers, NEW at \in Points, NEW v \in Versions \cup {None},
             GotoWith(w, at, v)
      PROVE  container' \in [Workers -> State]
  BY <1>0, <1>1 DEF GotoWith
<1>2. ASSUME NEW w \in Workers, NEW at \in Points, Goto(w, at)
      PROVE  container' \in [Workers -> State]
  BY <1>0, <1>2 DEF Goto
<1>3. ASSUME NEW j \in Jobs, Claim(j) PROVE container' \in [Workers -> State]
  <2>1. <<j, lease[j].attempts + 1>> \in Workers
    BY <1>0, <1>3 DEF Claim, TypeOK, AttemptsTypeOK, Workers, Attempts
  <2>2. Goto(<<j, lease[j].attempts + 1>>, "rendering")
    BY <1>3 DEF Claim
  <2>3. PICK x \in Workers : Goto(x, "rendering")
    BY <2>1, <2>2
  <2>. QED
    BY <1>2, <2>3 DEF Points
<1>4. ASSUME NEW w \in Workers,
             \/ Die(w) \/ Refused(w) \/ UploadRaises(w) \/ Select(w) \/ TransactionRaises(w)
             \/ Download(w) \/ DownloadRaises(w) \/ RegisterOutput(w) \/ UploadOutput(w)
             \/ PublishRaises(w) \/ Complete(w) \/ Exit(w)
      PROVE  container' \in [Workers -> State]
  <2>1. \E at \in Points : Goto(w, at)
    BY <1>4 DEF Die, Refused, UploadRaises, Select, TransactionRaises, Download, DownloadRaises,
                RegisterOutput, UploadOutput, PublishRaises, Complete, Exit, Points
  <2>. QED
    BY <1>2, <2>1
<1>5. ASSUME NEW w \in Workers, BeginSave(w) PROVE container' \in [Workers -> State]
  <2>1. PICK k \in Keys : /\ Cardinality(Saves(w, k)) + 1 <= MaxSaves
                          /\ GotoWith(w, "inserting", <<w, k, Cardinality(Saves(w, k)) + 1>>)
    BY <1>5 DEF BeginSave
  <2>2. Cardinality(Saves(w, k)) + 1 \in 1 .. MaxSaves
    BY <1>0, <2>1, SavesFinite, CheckpointAssumption
  <2>3. PICK v : v = <<w, k, Cardinality(Saves(w, k)) + 1>>
    OBVIOUS
  <2>4. v \in Versions
    BY <2>2, <2>3 DEF Versions
  <2>. QED
    BY <1>1, <2>1, <2>3, <2>4 DEF Points
<1>6. ASSUME NEW w \in Workers,
             Insert(w) \/ UploadCheckpoint(w) \/ BeginSelect(w) \/ Restore(w)
      PROVE  container' \in [Workers -> State]
  <2>1. container[w].version \in Versions \cup {None} /\ ready \subseteq Versions
    BY <1>0 DEF TypeOK, AttemptsTypeOK, State
  <2>2. \E at \in Points, v \in Versions \cup {None} : GotoWith(w, at, v)
    BY <1>6, <2>1 DEF Insert, UploadCheckpoint, BeginSelect, Restore, Points
  <2>. QED
    BY <1>1, <2>2
<1>7. CASE UNCHANGED container
  BY <1>0, <1>7
<1>8. container' \in [Workers -> State]
  BY <1>3, <1>4, <1>5, <1>6, <1>7, ContainerStays
<1>. QED
  BY <1>8 DEF State

LEMMA LeaseType ==
  ASSUME TypeOK, [Next]_vars
  PROVE  lease' \in [Jobs -> [attempts : 0 .. MaxAttempts, live : BOOLEAN]]
<1>0. lease \in [Jobs -> [attempts : 0 .. MaxAttempts, live : BOOLEAN]]
  BY DEF TypeOK, AttemptsTypeOK
<1>1. ASSUME NEW i \in Jobs, Claim(i)
      PROVE  lease' \in [Jobs -> [attempts : 0 .. MaxAttempts, live : BOOLEAN]]
  BY <1>0, <1>1, CheckpointAssumption DEF Claim
<1>2. ASSUME NEW i \in Jobs, lease' = [lease EXCEPT ![i].live = FALSE]
      PROVE  lease' \in [Jobs -> [attempts : 0 .. MaxAttempts, live : BOOLEAN]]
  BY <1>0, <1>2
<1>3. ASSUME NEW i \in Jobs, Expire(i)
      PROVE  lease' \in [Jobs -> [attempts : 0 .. MaxAttempts, live : BOOLEAN]]
  BY <1>2, <1>3 DEF Expire
<1>4. ASSUME NEW w \in Workers, Exit(w)
      PROVE  lease' \in [Jobs -> [attempts : 0 .. MaxAttempts, live : BOOLEAN]]
  BY <1>0, <1>2, <1>4, WorkerPair DEF Exit
<1>. QED
  BY <1>0, <1>1, <1>3, <1>4, LeaseStays

LEMMA TablesType ==
  ASSUME IInv, [Next]_vars
  PROVE  /\ checkpoints' \subseteq Versions /\ ready' \subseteq checkpoints'
         /\ outputs' \subseteq Workers /\ artifact' \in [Jobs -> 0 .. MaxAttempts]
<1>0. TypeOK /\ AttemptsTypeOK
  BY DEF IInv, TypeOK
<1>1. checkpoints' \subseteq Versions
  BY <1>0, TableMoves, InsertsNew DEF AttemptsTypeOK, CheckpointMove
<1>2. ASSUME NEW v \in ready' PROVE v \in checkpoints'
  <2>1. CASE v \in ready
    <3>1. v \in checkpoints /\ (v \notin checkpoints' => SweepCommit /\ v \in sweep.rows
                                                          /\ sweep.kind = "checkpoint")
      BY <1>0, <2>1, TableMoves DEF AttemptsTypeOK, CheckpointMove, CommitOf
    <3>. QED
      BY <1>2, <3>1 DEF SweepCommit
  <2>2. CASE v \notin ready
    BY <1>0, <1>2, <2>2, TableMoves DEF ReadyMove, SelectRow, Version
  <2>. QED
    BY <2>1, <2>2
<1>3. outputs' \subseteq Workers
  <2>1. CASE UNCHANGED outputs \/ SweepCommit
    BY <1>0, <2>1 DEF SweepCommit, AttemptsTypeOK
  <2>2. ASSUME NEW w \in Workers, RegisterOutput(w) PROVE outputs' \subseteq Workers
    BY <1>0, <2>2 DEF RegisterOutput, AttemptsTypeOK
  <2>. QED
    BY <2>1, <2>2, TablesStay
       DEF tables, Insert, InsertRow, Select, SelectRow, TransactionRaises, Complete
<1>4. artifact' \in [Jobs -> 0 .. MaxAttempts]
  <2>1. CASE UNCHANGED artifact
    BY <1>0, <2>1 DEF AttemptsTypeOK
  <2>2. CASE SweepCommit
    BY <1>0, <2>2, CheckpointAssumption DEF SweepCommit, AttemptsTypeOK
  <2>3. ASSUME NEW w \in Workers, Complete(w) PROVE artifact' \in [Jobs -> 0 .. MaxAttempts]
    <3>1. w[1] \in Jobs /\ w[2] \in 0 .. MaxAttempts
      BY WorkerPair, CheckpointAssumption DEF Attempts
    <3>. QED
      BY <1>0, <2>1, <2>3, <3>1 DEF Complete, AttemptsTypeOK
  <2>. QED
    BY <2>1, <2>2, <2>3, TablesStay
       DEF tables, Insert, InsertRow, Select, SelectRow, TransactionRaises, RegisterOutput
<1>. QED
  BY <1>1, <1>2, <1>3, <1>4

SourceType == /\ assets \subseteq Sources /\ deleted \subseteq Sources \ assets
              /\ arriving \subseteq Sources \ (assets \cup deleted)
              /\ inspected \subseteq assets \cup deleted
              /\ request \in [Jobs -> [at : {"none", "checked", "admitted", "source_expired"},
                                       source : Sources \cup {None}]]

LEMMA SourceNext ==
  ASSUME IInv, [Next]_vars
  PROVE  SourceType'
<1>0. SourceType
  BY DEF IInv, TypeOK, SourceType
<1>1. CASE UNCHANGED sources
  BY <1>0, <1>1 DEF sources, SourceType
<1>2. ASSUME NEW s \in Sources,
             PutSource(s) \/ RecordAsset(s) \/ UploadDies(s) \/ Inspect(s)
      PROVE  SourceType'
  BY <1>0, <1>2 DEF PutSource, Fresh, Rows, RecordAsset, UploadDies, Inspect, SourceType
<1>3. ASSUME NEW j \in Jobs, NEW s \in Sources, Preflight(j, s) PROVE SourceType'
  BY <1>0, <1>3 DEF Preflight, SourceType
<1>4. ASSUME NEW j \in Jobs, Admit(j) PROVE SourceType'
  BY <1>0, <1>4 DEF Admit, SourceType
<1>5. CASE SweepCommit
  <2> DEFINE rows == IF sweep.kind = "source" THEN sweep.rows ELSE {}
  <2>1. rows \subseteq assets
    BY DEF IInv, SweepSound, SweptRow
  <2>2. assets' = assets \ rows /\ deleted' = deleted \cup rows
    BY <1>5 DEF SweepCommit
  <2>3. UNCHANGED <<arriving, inspected, request>>
    BY <1>5 DEF SweepCommit
  <2> HIDE DEF rows
  <2>. QED
    BY <1>0, <2>1, <2>2, <2>3 DEF SourceType
<1>. QED
  BY <1>1, <1>2, <1>3, <1>4, <1>5
  DEF Next, vars, OthersUnchanged, SweepStep, Rest, SweepSelect, SweepLock, SweepDelete,
      SweepFails, OnlySweep

LEMMA NextTypeOK == IInv /\ [Next]_vars => TypeOK'
<1> SUFFICES ASSUME IInv, [Next]_vars PROVE TypeOK'
  OBVIOUS
<1>0. TypeOK
  BY DEF IInv
<1>1. AttemptsTypeOK'
  BY <1>0, StatusMoves, LeaseType, ContainerType, TablesType DEF AttemptsTypeOK
<1>2. SourceType'
  BY SourceNext
<1>3. rest' \in [Jobs -> 0 .. 3]
  <2>1. CASE UNCHANGED rest
    BY <1>0, <2>1 DEF TypeOK
  <2>2. ASSUME NEW j \in Jobs, Rest(j) PROVE rest' \in [Jobs -> 0 .. 3]
    BY <1>0, <2>2 DEF Rest, TypeOK
  <2>. QED
    BY <2>1, <2>2
    DEF Next, vars, OthersUnchanged, SweepStep, PutSource, RecordAsset, UploadDies,
        Inspect, Preflight, Admit, SweepSelect, SweepLock, SweepDelete, SweepCommit,
        SweepFails, OnlySweep
<1>4. interruptions' \in Nat
  <2>1. CASE UNCHANGED interruptions \/ Interrupt
    BY <1>0, <2>1 DEF TypeOK, Interrupt
  <2>. QED
    BY <2>1
    DEF Next, vars, OthersUnchanged, SweepStep, PutSource, RecordAsset, UploadDies,
        Inspect, Preflight, Admit, Rest, SweepSelect, SweepLock, SweepDelete, SweepCommit,
        SweepFails
<1>. QED
  BY <1>1, <1>2, <1>3, <1>4 DEF TypeOK, SourceType

-----------------------------------------------------------------------------
(* The parts of the invariant. *)

\* What is alive was alive or is a new attempt, and what is over stays so.
LEMMA AliveFacts ==
  ASSUME IInv, [Next]_vars, NEW w \in Workers
  PROVE  /\ At(w, "done") => At(w, "done")'
         /\ Alive(w)' => Alive(w) \/ (Claim(w[1]) /\ At(w, "none"))
         /\ \A at : At(w, at)' /\ container'[w] = container[w] => At(w, at)
BY Arrivals DEF IInv, Arrived, Alive, At

LEMMA BegunNext == IInv /\ [Next]_vars => BegunOnce'
<1> SUFFICES ASSUME IInv, [Next]_vars PROVE BegunOnce'
  OBVIOUS
<1>0. TypeOK /\ BegunOnce
  BY DEF IInv
<1>1. ASSUME NEW j \in Jobs, NEW a \in Attempts, a > lease'[j].attempts
      PROVE  At(<<j, a>>, "none")'
  <2>1. /\ lease[j].attempts \in Nat /\ a \in Nat
        /\ \/ lease'[j].attempts = lease[j].attempts
           \/ Claim(j) /\ lease'[j].attempts = lease[j].attempts + 1
    BY <1>0, LeaseMoves DEF TypeOK, AttemptsTypeOK, Attempts
  <2>2. a > lease[j].attempts /\ ~(Claim(j) /\ a = lease[j].attempts + 1)
    <3>1. CASE lease'[j].attempts = lease[j].attempts
      <4>1. ~Claim(j)
        BY <1>0, <2>1, <3>1 DEF Claim, TypeOK, AttemptsTypeOK
      <4>. QED
        BY <1>1, <3>1, <4>1
    <3>2. CASE lease'[j].attempts = lease[j].attempts + 1
      BY <1>1, <2>1, <3>2
    <3>. QED
      BY <2>1, <3>1, <3>2
  <2>3. At(<<j, a>>, "none")
    BY <1>0, <2>2 DEF BegunOnce
  <2>4. PICK w \in Workers : w = <<j, a>>
    BY DEF Workers
  <2>. QED
    BY <1>0, <2>2, <2>3, <2>4, Arrivals DEF Arrived
<1>2. ASSUME NEW v \in checkpoints' PROVE ~At(v[1], "none")'
  <2>1. CASE v \in checkpoints
    <3>1. v[1] \in Workers
      BY <1>0, <2>1, VersionParts DEF TypeOK, AttemptsTypeOK
    <3>. QED
      BY <1>0, <2>1, <3>1, Arrivals DEF Arrived, BegunOnce
  <2>2. CASE v \notin checkpoints
    <3>1. PICK w \in Workers : At(w, "inserting") /\ v = Version(w)
      BY <1>0, <1>2, <2>2, TableMoves DEF CheckpointMove
    <3>2. v[1] = w /\ ~At(w, "none")
      BY <3>1, InsertsNew DEF At
    <3>. QED
      BY <1>0, <3>2, Arrivals DEF Arrived
  <2>. QED
    BY <2>1, <2>2
<1>3. ASSUME NEW w \in outputs' PROVE ~At(w, "none")'
  <2>1. w \in Workers
    BY <1>3, NextTypeOK DEF TypeOK, AttemptsTypeOK
  <2>2. ~At(w, "none")
    BY <1>0, <1>3, TableMoves DEF OutputMove, BegunOnce, RegisterOutput, At
  <2>. QED
    BY <1>0, <2>1, <2>2, Arrivals DEF Arrived
<1>. QED
  BY <1>1, <1>2, <1>3 DEF BegunOnce

LEMMA RestNext == IInv /\ [Next]_vars => RestQuiet'
<1> SUFFICES ASSUME IInv, [Next]_vars PROVE RestQuiet'
  OBVIOUS
<1>0. TypeOK /\ RestQuiet /\ AdmittedOnce
  BY DEF IInv
<1> SUFFICES ASSUME NEW j \in Jobs, rest'[j] > 0
             PROVE  /\ status'[j] \in Terminal
                    /\ \A a \in Attempts : ~Alive(<<j, a>>)'
  BY DEF RestQuiet
<1>1. status[j] \in Terminal /\ \A a \in Attempts : ~Alive(<<j, a>>)
  <2>1. CASE rest'[j] = rest[j]
    BY <1>0, <2>1 DEF RestQuiet
  <2>2. CASE Rest(j)
    BY <2>2 DEF Rest
  <2>. QED
    BY <1>0, <2>1, <2>2, OtherMoves
<1>2. status'[j] = status[j]
  BY <1>0, <1>1, StatusMoves DEF StatusMove, AdmittedOnce, Unfinished, Terminal, NoJob
<1>3. ASSUME NEW a \in Attempts PROVE ~Alive(<<j, a>>)'
  <2>1. PICK w \in Workers : w = <<j, a>>
    BY DEF Workers
  <2>2. ~Alive(w) /\ ~Claim(w[1])
    BY <1>1, <2>1 DEF Claim, Unfinished
  <2>. QED
    BY <2>1, <2>2, AliveFacts
<1>. QED
  BY <1>1, <1>2, <1>3

LEMMA AdmittedNext == IInv /\ [Next]_vars => AdmittedOnce'
<1> SUFFICES ASSUME IInv, [Next]_vars, NEW j \in Jobs, request'[j].at # "admitted"
             PROVE  status'[j] = NoJob
  BY DEF AdmittedOnce
<1>1. status[j] = NoJob
  BY OtherMoves DEF IInv, AdmittedOnce
<1>. QED
  BY <1>1, StatusMoves DEF IInv, StatusMove, Unfinished, JobStatus, NoJob

LEMMA LockNext == IInv /\ [Next]_vars => LockHeld'
<1> SUFFICES ASSUME IInv, [Next]_vars, NEW w \in Workers,
                    At(w, "inserting")' \/ At(w, "selecting")'
             PROVE  lease'[w[1]].attempts = w[2]
  BY DEF LockHeld
<1>0. TypeOK /\ BegunOnce /\ LockHeld
  BY DEF IInv
<1>1. CASE container'[w] = container[w]
  <2>1. At(w, "inserting") \/ At(w, "selecting")
    BY <1>1 DEF At
  <2>2. Locked(w[1])
    <3>1. w = <<w[1], w[2]>> /\ w[2] \in Attempts
      BY WorkerPair
    <3>. QED
      BY <2>1, <3>1 DEF Locked, At
  <2>3. ~Claim(w[1]) /\ w[1] \in Jobs
    BY <2>2, WorkerPair DEF Claim
  <2>. QED
    BY <1>0, <2>1, <2>3, LeaseMoves DEF LockHeld
<1>2. CASE container'[w] # container[w]
  BY <1>0, <1>2, Arrivals DEF Arrived, BeginSave, BeginSelect, Check, Holds
<1>. QED
  BY <1>1, <1>2

\* A row stays while its attempt runs.
LEMMA RowsStay ==
  ASSUME IInv, [Next]_vars, NEW v \in checkpoints, Alive(v[1])
  PROVE  v \in checkpoints'
BY TableMoves DEF IInv, CheckpointMove, CommitOf, SweepSound, SweptRow, Alive, At

\* What a sweep deletes has expired.
LEMMA CheckpointDeleted ==
  ASSUME IInv, [Next]_vars, NEW v, Object("checkpoint", v) \in store \ store'
  PROVE  /\ UNCHANGED <<execution, tables, sources, rest>>
         /\ v \in checkpoints /\ At(v[1], "done")
         /\ v \notin ready \/ rest[JobOf(v)] > 0
<1>1. PICK row \in sweep.rows : /\ SweepDelete(row)
                               /\ Object("checkpoint", v) = SweptObject(sweep.kind, row)
  BY StoreMoves DEF StoreMove
<1>2. sweep.kind \in Kinds
  BY <1>1 DEF IInv, SweepType, SweepDelete, Idle
<1>3. sweep.kind = "checkpoint" /\ row = v
  BY <1>1, <1>2 DEF SweptObject, Object, Kinds
<1>4. SweptRow("checkpoint", v)
  BY <1>1, <1>3 DEF IInv, SweepSound
<1>. QED
  BY <1>1, <1>4 DEF SweepDelete, OnlySweep, SweptRow

LEMMA ArtifactDeleted ==
  ASSUME IInv, [Next]_vars, NEW w, Object("artifact", w) \in store \ store'
  PROVE  /\ UNCHANGED <<execution, tables, sources, rest>>
         /\ \/ artifact[w[1]] = w[2] /\ rest[w[1]] = 3 /\ w \in Workers
            \/ At(w, "done") /\ artifact[w[1]] # w[2]
<1>1. PICK row \in sweep.rows : /\ SweepDelete(row)
                               /\ Object("artifact", w) = SweptObject(sweep.kind, row)
  BY StoreMoves DEF StoreMove
<1>2. sweep.kind \in Kinds /\ sweep.rows \subseteq RowsOf(sweep.kind)
  BY <1>1 DEF IInv, SweepType, SweepDelete, Idle
<1>3. sweep.kind \in {"published", "temporary"} /\ row = w
  BY <1>1, <1>2 DEF SweptObject, Object, Kinds
<1>4. SweptRow(sweep.kind, w)
  BY <1>1, <1>3 DEF IInv, SweepSound
<1>. QED
  BY <1>1, <1>2, <1>3, <1>4 DEF SweepDelete, OnlySweep, SweptRow, RowsOf

LEMMA VersionNext == IInv /\ [Next]_vars => VersionSound'
<1> SUFFICES ASSUME IInv, [Next]_vars, NEW w \in Workers PROVE
      (/\ At(w, "uploading") \/ At(w, "uploaded") \/ At(w, "selecting") =>
            Version(w) \in checkpoints \ ready /\ Version(w)[1] = w
       /\ At(w, "uploaded") \/ At(w, "selecting") => Object("checkpoint", Version(w)) \in store
       /\ At(w, "downloading") => JobOf(Version(w)) = w[1]
       /\ At(w, "downloading") /\ lease[w[1]].attempts = w[2] => Version(w) \in ready)'
  BY DEF VersionSound
<1>0. TypeOK /\ BegunOnce
  BY DEF IInv
<1>1. ASSUME At(w, "uploading")' \/ At(w, "uploaded")' \/ At(w, "selecting")'
      PROVE  (Version(w) \in checkpoints \ ready /\ Version(w)[1] = w)'
  <2>1. CASE Insert(w)
    <3>1. Version(w)' = Version(w)
      BY <1>0, <2>1, MoveFacts DEF Insert, Version
    <3>2. At(w, "inserting")
      BY <2>1 DEF Insert
    <3>3. Version(w) \in checkpoints' /\ ready' = ready
      BY <2>1 DEF Insert, InsertRow, Version
    <3>. QED
      BY <1>0, <3>1, <3>2, <3>3, InsertsNew DEF TypeOK, AttemptsTypeOK
  <2>2. CASE ~Insert(w)
    <3>1. /\ At(w, "uploading") \/ At(w, "uploaded") \/ At(w, "selecting")
          /\ Version(w)' = Version(w)
      <4>1. CASE container'[w] = container[w]
        BY <1>1, <4>1 DEF At, Version
      <4>2. CASE UploadCheckpoint(w)
        BY <1>0, <4>2, MoveFacts DEF UploadCheckpoint, Version
      <4>3. CASE BeginSelect(w)
        BY <1>0, <4>3, MoveFacts DEF BeginSelect, Version
      <4>. QED
        BY <1>0, <1>1, <2>2, <4>1, <4>2, <4>3, Arrivals DEF Arrived
    <3>2. Version(w) \in checkpoints \ ready /\ Version(w)[1] = w
      BY <3>1 DEF IInv, VersionSound
    <3>3. Alive(w)
      BY <3>1 DEF At, Alive
    <3>4. Version(w) \in checkpoints'
      BY <3>2, <3>3, RowsStay
    <3>5. Version(w) \notin ready'
      <4> SUFFICES ASSUME Version(w) \in ready' PROVE FALSE
        OBVIOUS
      <4>1. PICK x \in Workers : /\ At(x, "selecting") /\ Version(w) = Version(x)
                                 /\ ~At(x, "selecting")'
        BY <1>0, <3>2, TableMoves DEF ReadyMove
      <4>2. x = w
        BY <3>2, <4>1 DEF IInv, VersionSound
      <4>3. container'[w] # container[w]
        BY <4>1, <4>2 DEF At
      <4>. QED
        BY <1>0, <1>1, <2>2, <4>1, <4>2, <4>3, Arrivals
           DEF Arrived, At, UploadCheckpoint, BeginSelect
    <3>. QED
      BY <3>1, <3>2, <3>4, <3>5
  <2>. QED
    BY <2>1, <2>2
<1>2. ASSUME At(w, "uploaded")' \/ At(w, "selecting")'
      PROVE  Object("checkpoint", Version(w)') \in store'
  <2>1. CASE UploadCheckpoint(w)
    <3>1. Version(w)' = Version(w)
      BY <1>0, <2>1, MoveFacts DEF UploadCheckpoint, Version
    <3>. QED
      BY <2>1, <3>1 DEF UploadCheckpoint, Version
  <2>2. CASE ~UploadCheckpoint(w)
    <3>1. (At(w, "uploaded") \/ At(w, "selecting")) /\ Version(w)' = Version(w)
      <4>1. CASE container'[w] = container[w]
        BY <1>2, <4>1 DEF At, Version
      <4>2. CASE BeginSelect(w)
        BY <1>0, <4>2, MoveFacts DEF BeginSelect, Version
      <4>. QED
        BY <1>0, <1>2, <2>2, <4>1, <4>2, Arrivals DEF Arrived
    <3>2. Object("checkpoint", Version(w)) \in store /\ Version(w)[1] = w
      BY <3>1 DEF IInv, VersionSound
    <3>3. PICK v : v = Version(w)
      OBVIOUS
    <3>. QED
      BY <3>1, <3>2, <3>3, CheckpointDeleted DEF At
  <2>. QED
    BY <2>1, <2>2
<1>3. ASSUME At(w, "downloading")'
      PROVE  /\ JobOf(Version(w)') = w[1]
             /\ lease'[w[1]].attempts = w[2] => Version(w)' \in ready'
  <2>1. CASE Restore(w)
    <3>1. PICK v \in ready : JobOf(v) = w[1] /\ GotoWith(w, "downloading", v)
      BY <2>1 DEF Restore
    <3>2. Version(w)' = v /\ ready' = ready
      BY <1>0, <2>1, <3>1, MoveFacts DEF Restore, Version, tables
    <3>. QED
      BY <3>1, <3>2
  <2>2. CASE container'[w] = container[w]
    <3>0. PICK v : v = Version(w)
      OBVIOUS
    <3>1. At(w, "downloading") /\ Version(w)' = v /\ JobOf(v) = w[1]
      BY <1>3, <2>2, <3>0 DEF At, Version, IInv, VersionSound
    <3>2. ASSUME lease'[w[1]].attempts = w[2], v \notin ready' PROVE FALSE
      <4>1. lease[w[1]].attempts = w[2]
        <5>1. ~(Claim(w[1]) /\ w[2] = lease[w[1]].attempts + 1)
          <6>1. lease[w[1]].attempts \in Nat /\ w[1] \in Jobs /\ w[2] \in Attempts
            BY <1>0, WorkerPair DEF TypeOK, AttemptsTypeOK
          <6>2. w = <<w[1], w[2]>>
            BY WorkerPair
          <6>3. w[2] <= lease[w[1]].attempts
            BY <1>0, <3>1, <6>1, <6>2 DEF BegunOnce, At, Attempts
          <6>. QED
            BY <6>1, <6>3 DEF Attempts
        <5>. QED
          BY <1>0, <3>2, <5>1, LeaseMoves, WorkerPair
      <4>2. v \in ready
        BY <3>0, <3>1, <4>1 DEF IInv, VersionSound
      <4>3. v \in Versions
        BY <1>0, <4>2 DEF TypeOK, AttemptsTypeOK
      <4>4. CASE CommitOf("checkpoint") /\ v \in sweep.rows
        <5>1. rest[w[1]] > 0
          BY <3>1, <4>2, <4>4 DEF IInv, SweepSound, SweptRow, CommitOf
        <5>2. ~Alive(<<w[1], w[2]>>)
          BY <5>1, WorkerPair DEF IInv, RestQuiet
        <5>. QED
          BY <3>1, <5>2, WorkerPair DEF Alive, At
      <4>5. ASSUME NEW x \in Workers, At(x, "selecting"), SelectRow(x), SameKey(v, Version(x))
            PROVE  FALSE
        <5>1. Version(x)[1] = x
          BY <4>5 DEF IInv, VersionSound
        <5>2. x[1] = w[1]
          BY <3>1, <4>5, <5>1 DEF SameKey, JobOf
        <5>3. x[2] = w[2]
          BY <4>1, <4>5, <5>2 DEF IInv, LockHeld
        <5>4. x = w
          BY <5>2, <5>3, WorkerPair
        <5>. QED
          BY <3>1, <4>5, <5>4 DEF At
      <4>. QED
        BY <1>0, <3>2, <4>2, <4>4, <4>5, TableMoves DEF ReadyMove
    <3>. QED
      BY <3>1, <3>2
  <2>. QED
    BY <1>0, <1>3, <2>1, <2>2, Arrivals DEF Arrived
<1>. QED
  BY <1>1, <1>2, <1>3

LEMMA OutputNext == IInv /\ [Next]_vars => OutputSound'
<1> SUFFICES ASSUME IInv, [Next]_vars, NEW w \in Workers PROVE
      (/\ At(w, "publishing") \/ At(w, "completing") => w \in outputs
       /\ At(w, "completing") => Object("artifact", w) \in store)'
  BY DEF OutputSound
<1>0. TypeOK /\ BegunOnce
  BY DEF IInv
<1>1. ASSUME At(w, "publishing")' \/ At(w, "completing")' PROVE w \in outputs'
  <2>1. CASE RegisterOutput(w)
    BY <2>1 DEF RegisterOutput
  <2>2. CASE ~RegisterOutput(w)
    <3>1. At(w, "publishing") \/ At(w, "completing")
      BY <1>0, <1>1, <2>2, Arrivals DEF Arrived, UploadOutput, At
    <3>2. w \in outputs /\ ~At(w, "done")
      BY <3>1 DEF IInv, OutputSound, At
    <3>. QED
      BY <1>0, <3>2, TableMoves DEF OutputMove, CommitOf, IInv, SweepSound, SweptRow
  <2>. QED
    BY <2>1, <2>2
<1>2. ASSUME At(w, "completing")' PROVE Object("artifact", w) \in store'
  <2>1. CASE UploadOutput(w)
    BY <2>1 DEF UploadOutput
  <2>2. CASE container'[w] = container[w]
    <3>1. At(w, "completing") /\ Object("artifact", w) \in store
      BY <1>2, <2>2 DEF At, IInv, OutputSound
    <3>2. Alive(w) /\ w = <<w[1], w[2]>> /\ w[1] \in Jobs /\ w[2] \in Attempts
      BY <3>1, WorkerPair DEF At, Alive
    <3>3. rest[w[1]] # 3
      BY <3>2 DEF IInv, RestQuiet
    <3>. QED
      BY <3>1, <3>3, ArtifactDeleted DEF At
  <2>. QED
    BY <1>0, <1>2, <2>1, <2>2, Arrivals DEF Arrived
<1>. QED
  BY <1>1, <1>2

LEMMA ReadyNext == IInv /\ [Next]_vars => ReadyStored'
<1> SUFFICES ASSUME IInv, [Next]_vars, NEW v \in ready', rest'[JobOf(v)] = 0
             PROVE  Object("checkpoint", v) \in store'
  BY DEF ReadyStored
<1>0. TypeOK
  BY DEF IInv
<1>1. rest[JobOf(v)] = 0
  <2>1. JobOf(v) \in Jobs
    BY NextTypeOK, VersionParts DEF TypeOK, AttemptsTypeOK
  <2>2. rest[JobOf(v)] \in 0 .. 3
    BY <1>0, <2>1 DEF TypeOK
  <2>. QED
    BY <1>0, <2>1, <2>2, OtherMoves
<1>2. Object("checkpoint", v) \in store
  <2>1. CASE v \in ready
    BY <1>1, <2>1 DEF IInv, ReadyStored
  <2>2. CASE v \notin ready
    BY <1>0, <2>2, TableMoves DEF ReadyMove, IInv, VersionSound
  <2>. QED
    BY <2>1, <2>2
<1>. QED
  BY <1>1, <1>2, CheckpointDeleted DEF tables

LEMMA TrackedNext == IInv /\ [Next]_vars => ObjectsTracked'
<1> SUFFICES ASSUME IInv, [Next]_vars PROVE ObjectsTracked'
  OBVIOUS
<1>0. TypeOK
  BY DEF IInv
<1>1. ASSUME NEW v \in Versions, Object("checkpoint", v) \in store' PROVE v \in checkpoints'
  <2>1. CASE Object("checkpoint", v) \notin store
    <3>1. PICK w \in Workers : At(w, "uploading") /\ v = Version(w)
      BY <1>1, <2>1, StoreMoves DEF StoreMove, Object
    <3>2. v \in checkpoints /\ v[1] = w /\ Alive(w)
      BY <3>1 DEF IInv, VersionSound, At, Alive
    <3>. QED
      BY <3>2, RowsStay
  <2>2. CASE Object("checkpoint", v) \in store
    <3>1. v \in checkpoints
      BY <2>2 DEF IInv, ObjectsTracked
    <3>2. ASSUME CommitOf("checkpoint"), v \in sweep.rows PROVE FALSE
      <4>1. Object("checkpoint", v) \notin store
        BY <3>2 DEF CommitOf, SweepCommit, IInv, SweepSound, SweptObject
      <4>. QED
        BY <2>2, <4>1
    <3>. QED
      BY <1>0, <3>1, <3>2, TableMoves DEF CheckpointMove
  <2>. QED
    BY <2>1, <2>2
<1>2. ASSUME NEW w \in Workers, Object("artifact", w) \in store' PROVE w \in outputs'
  <2>1. w \in outputs
    <3>1. CASE Object("artifact", w) \notin store
      BY <1>2, <3>1, StoreMoves DEF StoreMove, Object, IInv, OutputSound
    <3>2. CASE Object("artifact", w) \in store
      BY <3>2 DEF IInv, ObjectsTracked
    <3>. QED
      BY <3>1, <3>2
  <2>2. ASSUME CommitOf("temporary"), w \in sweep.rows PROVE FALSE
    <3>1. Object("artifact", w) \notin store /\ At(w, "done") /\ UNCHANGED store
      BY <2>2 DEF CommitOf, SweepCommit, IInv, SweepSound, SweptRow, SweptObject
    <3>. QED
      BY <1>2, <3>1
  <2>. QED
    BY <1>0, <2>1, <2>2, TableMoves DEF OutputMove
<1>. QED
  BY <1>1, <1>2 DEF ObjectsTracked

LEMMA ArtifactNext == IInv /\ [Next]_vars => ArtifactKept'
<1> SUFFICES ASSUME IInv, [Next]_vars, NEW j \in Jobs, artifact'[j] # 0, rest'[j] < 3
             PROVE  Object("artifact", <<j, artifact'[j]>>) \in store'
  BY DEF ArtifactKept
<1>0. TypeOK
  BY DEF IInv
<1>1. PICK a : a = artifact'[j]
  OBVIOUS
<1>2. rest[j] < 3
  BY <1>0, OtherMoves DEF TypeOK
<1>3. Object("artifact", <<j, a>>) \in store
  <2>1. CASE a = artifact[j]
    BY <1>1, <1>2, <2>1 DEF IInv, ArtifactKept
  <2>2. ASSUME NEW w \in Workers, w[1] = j, At(w, "completing"), a = w[2]
        PROVE  Object("artifact", <<j, a>>) \in store
    <3>1. w = <<j, a>>
      BY <2>2, WorkerPair
    <3>. QED
      BY <2>2, <3>1 DEF IInv, OutputSound
  <2>. QED
    BY <1>0, <1>1, <2>1, <2>2, TableMoves DEF ArtifactMove
<1>4. ASSUME Object("artifact", <<j, a>>) \notin store' PROVE FALSE
  <2>1. UNCHANGED <<tables, rest>>
    BY <1>3, <1>4, ArtifactDeleted
  <2>2. artifact[j] = a
    BY <1>1, <2>1 DEF tables
  <2>3. rest[j] # 3
    BY <1>2
  <2>. QED
    BY <1>3, <1>4, <2>2, <2>3, ArtifactDeleted
<1>. QED
  BY <1>1, <1>4

\* What a sweep finds has expired.
LEMMA ExpiredRows ==
  ASSUME IInv, NEW kind \in Kinds, NEW row \in Expired(kind)
  PROVE  row \in RowsOf(kind) /\ SweptRow(kind, row)
<1>0. TypeOK /\ AttemptsTypeOK /\ BegunOnce
  BY DEF IInv, TypeOK
<1>1. CASE kind = "source"
  BY <1>0, <1>1 DEF Expired, ExpiredSources, TypeOK, RowsOf, SweptRow
<1>2. CASE kind = "published"
  BY <1>0, <1>2 DEF Expired, ExpiredPublished, RowsOf, SweptRow
<1>3. CASE kind = "temporary"
  <2>1. row \in outputs /\ ~Alive(row) /\ artifact[row[1]] # row[2]
    BY <1>3 DEF Expired, AbandonedOutputs
  <2>. QED
    BY <1>0, <1>3, <2>1 DEF AttemptsTypeOK, BegunOnce, Alive, At, RowsOf, SweptRow
<1>4. CASE kind = "checkpoint"
  <2>1. row \in ExpiredCheckpoints
    BY <1>4 DEF Expired
  <2>2. row \in Versions /\ row \in checkpoints
    BY <1>0, <2>1 DEF AttemptsTypeOK, ExpiredCheckpoints
  <2>3. (row \notin ready /\ ~Alive(row[1])) \/ rest[JobOf(row)] > 0
    <3>1. rest[JobOf(row)] \in 0 .. 3
      BY <1>0, <2>2, VersionParts DEF TypeOK
    <3>. QED
      BY <2>1, <3>1 DEF ExpiredCheckpoints
  <2>4. ~Alive(row[1])
    BY <2>2, <2>3, VersionParts DEF IInv, RestQuiet
  <2>5. At(row[1], "done")
    BY <1>0, <2>2, <2>4 DEF BegunOnce, Alive, At
  <2>. QED
    BY <1>4, <2>2, <2>3, <2>5 DEF RowsOf, SweptRow
<1>. QED
  BY <1>1, <1>2, <1>3, <1>4 DEF Kinds

LEMMA SweepTypeNext == IInv /\ [Next]_vars => SweepType'
<1> SUFFICES ASSUME IInv, [Next]_vars PROVE SweepType'
  OBVIOUS
<1>0. SweepType
  BY DEF IInv
<1>1. CASE UNCHANGED sweep
  BY <1>0, <1>1 DEF SweepType
<1>2. CASE sweep' = Idle
  BY <1>2 DEF SweepType
<1>3. ASSUME NEW kind \in Kinds, SweepSelect(kind) PROVE SweepType'
  <2>1. PICK rows \in SUBSET Expired(kind), at \in {"lock", "delete"} :
          sweep' = [at |-> at, kind |-> kind, rows |-> rows, gone |-> {}]
    BY <1>3 DEF SweepSelect
  <2>2. rows \subseteq RowsOf(kind)
    BY ExpiredRows
  <2>. QED
    BY <2>1, <2>2 DEF SweepType
<1>4. CASE SweepLock
  BY <1>0, <1>4 DEF SweepLock, SweepType, Idle
<1>5. ASSUME NEW row \in sweep.rows, SweepDelete(row) PROVE SweepType'
  BY <1>0, <1>5 DEF SweepDelete, SweepType, Idle
<1>. QED
  BY <1>1, <1>2, <1>3, <1>4, <1>5, SweepMoves

\* The rows of a sweep stay expired until it commits ...
LEMMA RowsStayExpired ==
  ASSUME IInv, [Next]_vars, NEW row \in sweep.rows, NEW kind, kind = sweep.kind, ~SweepCommit
  PROVE  SweptRow(kind, row)'
<1>0. TypeOK /\ AttemptsTypeOK /\ SweptRow(kind, row)
  BY DEF IInv, TypeOK, SweepSound
<1>1. kind \in Kinds /\ row \in RowsOf(kind)
  BY DEF IInv, SweepType, Idle
<1>2. CASE kind = "source"
  BY <1>0, <1>2, OtherMoves DEF SweptRow, CommitOf
<1>3. CASE kind = "published"
  <2>1. row \in Workers /\ row[1] \in Jobs
    BY <1>1, <1>3, WorkerPair DEF RowsOf
  <2>2. artifact[row[1]] = row[2] /\ rest[row[1]] = 3
    BY <1>0, <1>3 DEF SweptRow
  <2>3. rest'[row[1]] = 3
    BY <1>0, <2>1, <2>2, OtherMoves
  <2>4. ASSUME NEW w \in Workers, w[1] = row[1], At(w, "completing") PROVE FALSE
    BY <2>2, <2>4, WorkerPair DEF IInv, RestQuiet, Alive, At
  <2>. QED
    BY <1>0, <1>3, <2>1, <2>2, <2>3, <2>4, TableMoves DEF ArtifactMove, CommitOf, SweptRow
<1>4. CASE kind = "temporary"
  <2>1. row \in Workers /\ row[1] \in Jobs /\ row[2] \in Attempts /\ row = <<row[1], row[2]>>
    BY <1>1, <1>4, WorkerPair DEF RowsOf
  <2>2. row \in outputs /\ At(row, "done") /\ artifact[row[1]] # row[2]
    BY <1>0, <1>4 DEF SweptRow
  <2>3. row \in outputs'
    BY <1>0, <2>2, TableMoves DEF OutputMove, CommitOf
  <2>4. ASSUME NEW w \in Workers, w[1] = row[1], At(w, "completing"), artifact'[row[1]] = w[2]
        PROVE  artifact'[row[1]] # row[2]
    BY <2>1, <2>2, <2>4, WorkerPair DEF At
  <2>5. artifact'[row[1]] # row[2]
    BY <1>0, <2>1, <2>2, <2>4, TableMoves DEF ArtifactMove, CommitOf
  <2>. QED
    BY <1>4, <2>1, <2>2, <2>3, <2>5, AliveFacts DEF SweptRow
<1>5. CASE kind = "checkpoint"
  <2>1. row \in Versions /\ row[1] \in Workers /\ JobOf(row) \in Jobs
    BY <1>1, <1>5, VersionParts DEF RowsOf
  <2>2. row \in checkpoints /\ At(row[1], "done") /\ (row \notin ready \/ rest[JobOf(row)] > 0)
    BY <1>0, <1>5 DEF SweptRow
  <2>3. row \in checkpoints'
    BY <1>0, <2>2, TableMoves DEF CheckpointMove, CommitOf
  <2>4. row \notin ready => row \notin ready'
    BY <1>0, <2>2, TableMoves DEF ReadyMove, IInv, VersionSound, At
  <2>5. rest[JobOf(row)] > 0 => rest'[JobOf(row)] > 0
    BY <1>0, <2>1, OtherMoves DEF TypeOK
  <2>. QED
    BY <1>5, <2>1, <2>2, <2>3, <2>4, <2>5, AliveFacts DEF SweptRow, JobOf
<1>. QED
  BY <1>1, <1>2, <1>3, <1>4, <1>5 DEF Kinds

\* ... and nobody uploads their objects again.
LEMMA GoneStays ==
  ASSUME IInv, [Next]_vars, NEW row \in sweep.rows, NEW kind, kind = sweep.kind,
         SweptObject(kind, row) \notin store
  PROVE  SweptObject(kind, row) \notin store'
<1>0. SweptRow(kind, row)
  BY DEF IInv, SweepSound
<1>1. kind \in Kinds /\ row \in RowsOf(kind)
  BY DEF IInv, SweepType, Idle
<1>2. ASSUME NEW w \in Workers, At(w, "uploading"),
             SweptObject(kind, row) = Object("checkpoint", Version(w))
      PROVE  FALSE
  <2>1. kind = "checkpoint" /\ row = Version(w)
    BY <1>1, <1>2 DEF SweptObject, Object, Kinds
  <2>. QED
    BY <1>0, <1>2, <2>1 DEF SweptRow, IInv, VersionSound, At
<1>3. ASSUME NEW w \in Workers, At(w, "publishing"), SweptObject(kind, row) = Object("artifact", w)
      PROVE  FALSE
  <2>1. kind \in {"published", "temporary"} /\ row = w
    BY <1>1, <1>3 DEF SweptObject, Object, Kinds
  <2>2. CASE kind = "temporary"
    BY <1>0, <1>3, <2>1, <2>2 DEF SweptRow, At
  <2>3. CASE kind = "published"
    BY <1>0, <1>3, <2>1, <2>3, WorkerPair DEF SweptRow, IInv, RestQuiet, Alive, At
  <2>. QED
    BY <2>1, <2>2, <2>3
<1>4. ASSUME NEW s \in Sources, Fresh(s), SweptObject(kind, row) = Object("source", s)
      PROVE  FALSE
  <2>1. kind = "source" /\ row = s
    BY <1>1, <1>4 DEF SweptObject, Object, Kinds
  <2>. QED
    BY <1>0, <1>4, <2>1 DEF SweptRow, Fresh, Rows
<1>. QED
  BY <1>2, <1>3, <1>4, StoreMoves DEF StoreMove

LEMMA SweepNext == IInv /\ [Next]_vars => SweepSound'
<1> SUFFICES ASSUME IInv, [Next]_vars PROVE SweepSound'
  OBVIOUS
<1>0. SweepType /\ SweepSound /\ (SweepCommit => sweep' = Idle /\ sweep # Idle)
  BY DEF IInv, SweepCommit, Idle
<1>1. ASSUME NEW kind, kind = sweep.kind, sweep'.kind = kind, sweep'.rows = sweep.rows,
             \A row \in sweep'.gone : /\ row \in sweep.rows
                                      /\ row \in sweep.gone
                                         \/ SweptObject(kind, row) \notin store',
             ~SweepCommit
      PROVE  SweepSound'
  <2>1. \A row \in sweep'.rows : SweptRow(kind, row)'
    BY <1>1, RowsStayExpired
  <2>2. ASSUME NEW row \in sweep'.gone PROVE SweptObject(kind, row) \notin store'
    BY <1>0, <1>1, <2>2, GoneStays DEF SweepSound
  <2>. QED
    BY <1>1, <2>1, <2>2 DEF SweepSound, SweptRow, SweptObject
<1>2. CASE UNCHANGED sweep
  BY <1>0, <1>1, <1>2 DEF SweepType, Idle
<1>3. CASE sweep' = Idle
  BY <1>3 DEF SweepSound, Idle
<1>4. ASSUME NEW kind \in Kinds, SweepSelect(kind) PROVE SweepSound'
  <2>1. PICK rows \in SUBSET Expired(kind), at \in {"lock", "delete"} :
          sweep' = [at |-> at, kind |-> kind, rows |-> rows, gone |-> {}]
    BY <1>4 DEF SweepSelect
  <2>2. UNCHANGED <<execution, tables, assets, rest>>
    BY <1>4 DEF SweepSelect, OnlySweep, sources
  <2>3. \A row \in rows : SweptRow(kind, row)'
    BY <2>2, ExpiredRows DEF execution, tables, SweptRow, At, JobOf
  <2>. QED
    BY <2>1, <2>3 DEF SweepSound, SweptRow
<1>5. CASE SweepLock
  <2>1. /\ sweep'.kind = sweep.kind /\ sweep'.rows = sweep.rows /\ sweep'.gone = sweep.gone
        /\ sweep.gone \subseteq sweep.rows /\ sweep' # Idle
    BY <1>0, <1>5 DEF SweepLock, SweepType, Idle
  <2>. QED
    BY <1>0, <1>1, <2>1
<1>6. ASSUME NEW row \in sweep.rows, SweepDelete(row) PROVE SweepSound'
  <2>1. /\ sweep'.kind = sweep.kind /\ sweep'.rows = sweep.rows
        /\ sweep'.gone = sweep.gone \cup {row}
        /\ sweep.gone \subseteq sweep.rows /\ sweep' # Idle
    BY <1>0, <1>6 DEF SweepDelete, SweepType, Idle
  <2>2. SweptObject(sweep.kind, row) \notin store'
    BY <1>6 DEF SweepDelete
  <2>. QED
    BY <1>0, <1>1, <2>1, <2>2
<1>. QED
  BY <1>2, <1>3, <1>4, <1>5, <1>6, SweepMoves

-----------------------------------------------------------------------------
(* The theorems. *)

LEMMA Initially == Init => IInv
<1> SUFFICES ASSUME Init PROVE IInv
  OBVIOUS
<1> USE CheckpointAssumption DEF Init, InitAttempts
<1>1. TypeOK
  <2>1. container \in [Workers -> [at : Points, version : Versions \cup {None}]]
    BY DEF Points
  <2>2. AttemptsTypeOK
    BY <2>1 DEF AttemptsTypeOK
  <2>. QED
    BY <2>2 DEF TypeOK
<1>2. SweepType /\ SweepSound
  BY DEF SweepType, SweepSound, Idle
<1>3. \A w \in Workers : At(w, "none") /\ ~Alive(w)
  BY DEF At, Alive
<1>4. BegunOnce
  BY <1>3 DEF BegunOnce, Workers
<1>5. RestQuiet /\ AdmittedOnce
  BY DEF RestQuiet, AdmittedOnce
<1>6. LockHeld /\ SavesNumbered /\ VersionSound /\ OutputSound
  BY <1>3 DEF LockHeld, SavesNumbered, VersionSound, OutputSound, At
<1>7. ReadyStored /\ ObjectsTracked /\ ArtifactKept
  BY DEF ReadyStored, ObjectsTracked, ArtifactKept
<1>. QED
  BY <1>1, <1>2, <1>4, <1>5, <1>6, <1>7 DEF IInv

\* However attempts, uploads, admissions and sweeps interleave, and wherever
\* they stop, the rows, the objects and the containers stay related as IInv
\* says: every transaction of checkpoints.py, hosted.py and retention.py
\* preserves it.
THEOREM Inductive == Spec => []IInv
<1>1. IInv /\ [Next]_vars => IInv'
  BY NextTypeOK, SweepTypeNext, BegunNext, RestNext, AdmittedNext, LockNext, SavesNext,
     VersionNext, OutputNext, ReadyNext, SweepNext, TrackedNext, ArtifactNext DEF IInv
<1>. QED
  BY <1>1, Initially, PTL DEF Spec

\* Every row and every memory of a container or a sweep has its type, also after
\* a sweep has taken rows away: what is selected is still a row of the table.
THEOREM TypeCorrect == Spec => []TypeOK
<1>1. IInv => TypeOK
  BY DEF IInv
<1>. QED
  BY <1>1, Inductive, PTL

\* No object of an attempt is lost from sight, for any number of jobs, attempts,
\* keys and saves: the row is inserted before the upload (checkpoints.py:65)
\* and goes only in the transaction that has deleted the object.
THEOREM TrackedCorrect == Spec => []ObjectsTracked
<1>1. IInv => ObjectsTracked
  BY DEF IInv
<1>. QED
  BY <1>1, Inductive, PTL

\* The object of a published artifact outlives the sweeps of temporary objects
\* until its job has been over for 30 days (retention.py).
THEOREM ArtifactSafe == Spec => []ArtifactKept
<1>1. IInv => ArtifactKept
  BY DEF IInv
<1>. QED
  BY <1>1, Inductive, PTL

\* The version that restore of checkpoints.py has read is still in the bucket
\* when the holder of the lease downloads it, after its transaction.
THEOREM RestoreSafe == Spec => []RestoreFinds
<1>1. IInv => RestoreFinds
  <2> SUFFICES ASSUME IInv, NEW w \in Workers, At(w, "downloading"), Holds(w)
               PROVE  Object("checkpoint", Version(w)) \in store
    BY DEF RestoreFinds, Version
  <2>1. Version(w) \in ready /\ JobOf(Version(w)) = w[1]
    BY DEF IInv, VersionSound, Holds
  <2>2. w[1] \in Jobs /\ rest[w[1]] \in 0 .. 3 /\ Alive(<<w[1], w[2]>>) /\ w[2] \in Attempts
    BY WorkerPair DEF IInv, TypeOK, Alive, At
  <2>3. rest[w[1]] = 0
    BY <2>2 DEF IInv, RestQuiet
  <2>. QED
    BY <2>1, <2>3 DEF IInv, ReadyStored
<1>. QED
  BY <1>1, Inductive, PTL

NewestStep ==
  /\ \A v \in ready : status[JobOf(v)] \notin Terminal /\ v \notin ready'
                      => \E u \in ready' \ ready : SameKey(u, v)
  /\ \A u \in ready' \ ready :
       /\ AttemptOf(u) = lease[JobOf(u)].attempts
       /\ \A v \in ready' : SameKey(u, v) => u = v

\* A committed version goes only for a newer one of its key, or once the job is
\* over, and only the newest attempt commits one: "A stale worker cannot
\* commit" (docs/checkpoints.md:33).
THEOREM NewestKept == Spec => NewestCheckpointKept
<1>1. IInv /\ [Next]_vars => [NewestStep]_vars
  <2> SUFFICES ASSUME IInv, [Next]_vars PROVE NewestStep
    OBVIOUS
  <2>0. TypeOK /\ AttemptsTypeOK
    BY DEF IInv, TypeOK
  <2>1. ASSUME NEW v \in ready, status[JobOf(v)] \notin Terminal, v \notin ready'
        PROVE  \E u \in ready' \ ready : SameKey(u, v)
    <3>1. v \in Versions
      BY <2>0 DEF AttemptsTypeOK
    <3>2. ~(CommitOf("checkpoint") /\ v \in sweep.rows)
      BY <2>1, <3>1, VersionParts DEF CommitOf, IInv, SweepSound, SweptRow, RestQuiet
    <3>3. PICK w \in Workers : /\ At(w, "selecting") /\ SelectRow(w)
                               /\ SameKey(v, Version(w))
      BY <2>0, <2>1, <3>2, TableMoves DEF ReadyMove
    <3>4. Version(w) \in checkpoints \ ready
      BY <3>3 DEF IInv, VersionSound
    <3>. QED
      BY <3>3, <3>4 DEF SelectRow, SameKey, Version
  <2>2. ASSUME NEW u \in ready' \ ready
        PROVE  /\ AttemptOf(u) = lease[JobOf(u)].attempts
               /\ \A v \in ready' : SameKey(u, v) => u = v
    <3>1. PICK w \in Workers : At(w, "selecting") /\ u = Version(w) /\ SelectRow(w)
      BY <2>0, <2>2, TableMoves DEF ReadyMove
    <3>2. u[1] = w /\ lease[w[1]].attempts = w[2]
      BY <3>1 DEF IInv, VersionSound, LockHeld
    <3>3. \A v \in ready' : SameKey(u, v) => u = v
      BY <3>1 DEF SelectRow, SameKey, Version
    <3>. QED
      BY <3>2, <3>3 DEF AttemptOf, JobOf
  <2>. QED
    BY <2>1, <2>2 DEF NewestStep
<1>. QED
  BY <1>1, Inductive, PTL DEF Spec, NewestCheckpointKept, NewestStep
=============================================================================
