-------------------------- MODULE HostedCheckpoints --------------------------
(***************************************************************************)
(* What the attempts of hosted jobs leave in the private object store: the *)
(* checkpoints of storage/checkpoints.py, saved under a lease in two       *)
(* transactions with an upload between them, and the artifact that         *)
(* compute/hosted.py registers, uploads and publishes.                     *)
(*                                                                         *)
(* The execution of jobs is reduced to what these objects depend on: a     *)
(* claim begins the attempt it makes, and an attempt that stops may or may *)
(* not have ended its job.  HostedExecution has the rest.  A transaction   *)
(* that passed check_lease holds the lease row until it ends, while the    *)
(* status it read without a lock may change.                               *)
(***************************************************************************)
EXTENDS Naturals, FiniteSets, JobTransitions

CONSTANTS Jobs,
          MaxAttempts,  \* max_attempts of claim_execution
          Keys,         \* checkpoint keys of a job
          MaxSaves      \* bound: saves of one key by one attempt

ASSUME CheckpointAssumption == MaxAttempts \in Nat \ {0} /\ MaxSaves \in Nat

VARIABLES status,      \* of the jobs
          lease,       \* per job: attempts made, is the last one's lease live?
          container,   \* the render_job containers
          checkpoints, \* table job_checkpoints
          ready,       \* its rows with ready = TRUE
          outputs,     \* stored_objects of kind temporary with deleted_at NULL
          artifact,    \* table artifacts: the attempt whose output is published
          store        \* the bucket

execution == <<status, lease, container>>
tables == <<checkpoints, ready, outputs, artifact>>

Attempts == 1 .. MaxAttempts
Workers == Jobs \X Attempts

\* A version of a checkpoint is a row with an id of its own: the attempt that
\* saved it, the key, and which save of the key it is.
Versions == Workers \X Keys \X (1 .. MaxSaves)
JobOf(v) == v[1][1]
AttemptOf(v) == v[1][2]
SameKey(u, v) == JobOf(u) = JobOf(v) /\ u[2] = v[2]

\* Objects are addressed by their kind and the id of the row.
Object(kind, id) == <<kind, id>>

None == <<>>

InitAttempts ==
  /\ status = [j \in Jobs |-> NoJob]
  /\ lease = [j \in Jobs |-> [attempts |-> 0, live |-> FALSE]]
  /\ container = [w \in Workers |-> [at |-> "none", version |-> None]]
  /\ checkpoints = {} /\ ready = {} /\ outputs = {}
  /\ artifact = [j \in Jobs |-> 0]
  /\ store = {}

Goto(w, at) == container' = [container EXCEPT ![w] = [at |-> at, version |-> None]]

GotoWith(w, at, v) == container' = [container EXCEPT ![w] = [at |-> at, version |-> v]]

At(w, at) == container[w].at = at

Alive(w) == container[w].at \notin {"none", "done"}

-----------------------------------------------------------------------------
(* Leases and the life of a job. *)

\* An attempt is inside a transaction that holds the lease row of the job.
Locked(j) == \E a \in Attempts : container[<<j, a>>].at \in {"inserting", "selecting"}

\* check_lease does not raise.
Holds(w) == lease[w[1]].live /\ lease[w[1]].attempts = w[2]

\* A claim, and the attempt's first update of the job.
Claim(j) ==
  LET a == lease[j].attempts + 1 IN
  /\ status[j] \in Unfinished
  /\ ~lease[j].live /\ ~Locked(j)
  /\ a <= MaxAttempts
  /\ lease' = [lease EXCEPT ![j] = [attempts |-> a, live |-> TRUE]]
  /\ status' = [status EXCEPT ![j] = IF @ = "queued" THEN "running" ELSE @]
  /\ Goto(<<j, a>>, "rendering")
  /\ UNCHANGED <<tables, store>>

\* Every attempt is used up.
Exhaust(j) ==
  /\ status[j] \in Unfinished
  /\ ~lease[j].live /\ ~Locked(j)
  /\ lease[j].attempts = MaxAttempts
  /\ status' = [status EXCEPT ![j] = IF @ = "cancel_requested" THEN "cancelled"
                                                                ELSE "failed"]
  /\ UNCHANGED <<lease, container, tables, store>>

Cancel(j) ==
  /\ status[j] \in {"queued", "running"}
  /\ status' = [status EXCEPT ![j] = IF @ = "queued" THEN "cancelled"
                                                     ELSE "cancel_requested"]
  /\ UNCHANGED <<lease, container, tables, store>>

\* Nobody renews the lease in time.
Expire(j) ==
  /\ lease[j].live
  /\ lease' = [lease EXCEPT ![j].live = FALSE]
  /\ UNCHANGED <<status, container, tables, store>>

\* The attempt acknowledges a cancellation, or its exception handler fails the job.
EndJob(w) ==
  LET j == w[1] IN
  /\ At(w, "ending")
  /\ Holds(w) /\ ~Locked(j)
  /\ status[j] \in {"running", "cancel_requested"}
  /\ status' = [status EXCEPT ![j] = IF @ = "running" THEN "failed" ELSE "cancelled"]
  /\ UNCHANGED <<lease, container, tables, store>>

\* run() returns and releases the lease.
Exit(w) ==
  /\ At(w, "ending")
  /\ ~Locked(w[1])
  /\ lease' = IF lease[w[1]].attempts = w[2] THEN [lease EXCEPT ![w[1]].live = FALSE]
                                             ELSE lease
  /\ Goto(w, "done")
  /\ UNCHANGED <<status, tables, store>>

\* The container is gone, and its transaction with it.
Die(w) ==
  /\ Alive(w)
  /\ Goto(w, "done")
  /\ UNCHANGED <<status, lease, tables, store>>

-----------------------------------------------------------------------------
(* HostedCheckpointStore. *)

\* Mutant of Check: the lease is not compared.
CheckStatusOnly(w) == ~Locked(w[1]) /\ status[w[1]] = "running"

\* _check passes.
Check(w) == ~Locked(w[1]) /\ Holds(w) /\ status[w[1]] = "running"

\* _check raises StaleWriteError; a job that is not running any more also stops
\* the attempt when it polls or wants to complete.
Refused(w) ==
  /\ At(w, "rendering") \/ At(w, "uploaded")
  /\ ~Locked(w[1])
  /\ ~Check(w)
  /\ Goto(w, "ending")
  /\ UNCHANGED <<status, lease, tables, store>>

\* Rows of the key that the attempt has inserted.
Saves(w, k) == {v \in checkpoints : v[1] = w /\ v[2] = k}

\* save: the first transaction has checked, and will insert.
BeginSave(w) ==
  /\ At(w, "rendering")
  /\ Check(w)
  /\ \E k \in Keys : LET n == Cardinality(Saves(w, k)) + 1 IN
       n <= MaxSaves /\ GotoWith(w, "inserting", <<w, k, n>>)
  /\ UNCHANGED <<status, lease, tables, store>>

InsertRow(w) == /\ checkpoints' = checkpoints \cup {container[w].version}
                /\ UNCHANGED <<ready, outputs, artifact>>

Insert(w) ==
  /\ At(w, "inserting")
  /\ InsertRow(w)
  /\ GotoWith(w, "uploading", container[w].version)
  /\ UNCHANGED <<status, lease, store>>

UploadCheckpoint(w) ==
  /\ At(w, "uploading")
  /\ store' = store \cup {Object("checkpoint", container[w].version)}
  /\ GotoWith(w, "uploaded", container[w].version)
  /\ UNCHANGED <<status, lease, tables>>

\* The upload raises and may have reached the bucket; the attempt stops.
UploadRaises(w) ==
  /\ At(w, "uploading")
  /\ \/ store' = store \cup {Object("checkpoint", container[w].version)}
     \/ UNCHANGED store
  /\ Goto(w, "ending")
  /\ UNCHANGED <<status, lease, tables>>

\* The second transaction has checked, and will select the new version.
BeginSelect(w) ==
  /\ At(w, "uploaded")
  /\ Check(w)
  /\ GotoWith(w, "selecting", container[w].version)
  /\ UNCHANGED <<status, lease, tables, store>>

\* An UPDATE of a row that is gone changes nothing.
SelectRow(w) ==
  LET v == container[w].version IN
  /\ ready' = {u \in ready : ~SameKey(u, v)} \cup ({v} \cap checkpoints)
  /\ UNCHANGED <<checkpoints, outputs, artifact>>

Select(w) ==
  /\ At(w, "selecting")
  /\ SelectRow(w)
  /\ Goto(w, "rendering")
  /\ UNCHANGED <<status, lease, store>>

\* A transaction raises: it is rolled back, or committed without an answer.
TransactionRaises(w) ==
  /\ \/ At(w, "inserting") /\ InsertRow(w)
     \/ At(w, "selecting") /\ SelectRow(w)
     \/ (At(w, "inserting") \/ At(w, "selecting")) /\ UNCHANGED tables
  /\ Goto(w, "ending")
  /\ UNCHANGED <<status, lease, store>>

\* restore finds a version; it downloads it after the transaction.
Restore(w) ==
  /\ At(w, "rendering")
  /\ Check(w)
  /\ \E v \in ready : JobOf(v) = w[1] /\ GotoWith(w, "downloading", v)
  /\ UNCHANGED <<status, lease, tables, store>>

Download(w) ==
  /\ At(w, "downloading")
  /\ Object("checkpoint", container[w].version) \in store
  /\ Goto(w, "rendering")
  /\ UNCHANGED <<status, lease, tables, store>>

\* A missing object, an outage or corrupt bytes stop the attempt.
DownloadRaises(w) ==
  /\ At(w, "downloading")
  /\ Goto(w, "ending")
  /\ UNCHANGED <<status, lease, tables, store>>

-----------------------------------------------------------------------------
(* The artifact. *)

\* _publish tracks the output under the attempt's id ...
RegisterOutput(w) ==
  /\ At(w, "rendering")
  /\ status[w[1]] = "running"
  /\ outputs' = outputs \cup {w}
  /\ Goto(w, "publishing")
  /\ UNCHANGED <<status, lease, checkpoints, ready, artifact, store>>

\* ... before it uploads it.
UploadOutput(w) ==
  /\ At(w, "publishing")
  /\ store' = store \cup {Object("artifact", w)}
  /\ Goto(w, "completing")
  /\ UNCHANGED <<status, lease, tables>>

PublishRaises(w) ==
  /\ At(w, "publishing")
  /\ \/ store' = store \cup {Object("artifact", w)}
     \/ UNCHANGED store
  /\ Goto(w, "ending")
  /\ UNCHANGED <<status, lease, tables>>

\* The completion commits, or is stale.
Complete(w) ==
  LET j == w[1] IN
  /\ At(w, "completing")
  /\ ~Locked(j)
  /\ IF Check(w)
     THEN /\ status' = [status EXCEPT ![j] = "succeeded"]
          /\ artifact' = [artifact EXCEPT ![j] = w[2]]
     ELSE UNCHANGED <<status, artifact>>
  /\ Goto(w, "ending")
  /\ UNCHANGED <<lease, checkpoints, ready, outputs, store>>

-----------------------------------------------------------------------------

ContainerStep(w) ==
  \/ Refused(w) \/ BeginSave(w) \/ Insert(w) \/ UploadCheckpoint(w) \/ UploadRaises(w)
  \/ BeginSelect(w) \/ Select(w) \/ TransactionRaises(w)
  \/ Restore(w) \/ Download(w) \/ DownloadRaises(w)
  \/ RegisterOutput(w) \/ UploadOutput(w) \/ PublishRaises(w) \/ Complete(w)
  \/ EndJob(w) \/ Exit(w)

AttemptsNext ==
  \/ \E j \in Jobs : Claim(j) \/ Exhaust(j) \/ Cancel(j) \/ Expire(j)
  \/ \E w \in Workers : ContainerStep(w) \/ Die(w)

\* The recovery function claims, once nobody renews the lease any more.
Recover(j) == \/ Claim(j) \/ Exhaust(j)
              \/ (\A a \in Attempts : ~Alive(<<j, a>>)) /\ Expire(j)

-----------------------------------------------------------------------------
(* Properties. *)

Points == {"none", "rendering", "inserting", "uploading", "uploaded", "selecting",
           "downloading", "publishing", "completing", "ending", "done"}

AttemptsTypeOK ==
  /\ status \in [Jobs -> JobStatus \cup {NoJob}]
  /\ lease \in [Jobs -> [attempts : 0 .. MaxAttempts, live : BOOLEAN]]
  /\ container \in [Workers -> [at : Points, version : Versions \cup {None}]]
  /\ checkpoints \subseteq Versions /\ ready \subseteq checkpoints
  /\ outputs \subseteq Workers
  /\ artifact \in [Jobs -> 0 .. MaxAttempts]
=============================================================================
