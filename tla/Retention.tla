------------------------------ MODULE Retention ------------------------------
(***************************************************************************)
(* The life of every private object of the hosted server: sources that     *)
(* users upload and jobs need (api/assets.py, api/jobs.py and the          *)
(* admission of storage/postgres.py), the objects of attempts              *)
(* (HostedCheckpoints), and the hourly sweep of storage/retention.py that  *)
(* deletes what has expired.                                               *)
(*                                                                         *)
(* A sweep is four transactions.  Each selects rows as its statement       *)
(* began, locks them, and deletes their objects one by one before it       *)
(* commits what it did to the rows.  READ COMMITTED evaluates the          *)
(* conditions again for a locked row only if the row itself was updated,   *)
(* which no admission does to the asset row it locks.  The transactions    *)
(* that find nothing to do are left out, so the others come in any order.  *)
(*                                                                         *)
(* Time: how long a job has been over is kept; the age of a row is not, a *)
(* sweep finds any of the rows that may be old enough.  A render_job       *)
(* container lives for at most 24 hours, so no row is as old as that, and  *)
(* no job has been over that long, while the container that wrote to it    *)
(* runs.                                                                   *)
(***************************************************************************)
EXTENDS HostedCheckpoints

CONSTANTS Sources,
          MaxInterruptions \* bound: sweeps that fail, API processes that die

ASSUME RetentionAssumption == MaxInterruptions \in Nat

VARIABLES assets,     \* table assets: the sources with deleted_at NULL
          deleted,    \* those with deleted_at
          arriving,   \* sources whose upload handler has yet to insert the row
          inspected,  \* table inspections
          request,    \* per job, the request that may create it
          rest,       \* per job, how long it has been over, see Rest
          sweep,
          interruptions

sources == <<assets, deleted, arriving, inspected, request>>
vars == <<execution, tables, store, sources, rest, sweep, interruptions>>

\* The transactions of a sweep, by the kind of their rows.
Kinds == {"source", "published", "temporary", "checkpoint"}

\* Between two transactions, or two sweeps.
Idle == [at |-> "idle", kind |-> "none", rows |-> {}, gone |-> {}]

Init ==
  /\ InitAttempts
  /\ assets = {} /\ deleted = {} /\ arriving = {} /\ inspected = {}
  /\ request = [j \in Jobs |-> [at |-> "none", source |-> None]]
  /\ rest = [j \in Jobs |-> 0]
  /\ sweep = Idle
  /\ interruptions = 0

Interrupt == /\ interruptions < MaxInterruptions
             /\ interruptions' = interruptions + 1

-----------------------------------------------------------------------------
(* Sources. *)

Rows == assets \cup deleted

\* Mutant of Fresh: a book with another cover keeps its id.
FreshOrReplaced(s) == s \notin arriving

\* The id of an uploaded book is new; upload_cover makes another source, too.
Fresh(s) == s \notin Rows \cup arriving /\ Object("source", s) \notin store

\* upload_asset and upload_cover: the payload first ...
PutSource(s) ==
  /\ Fresh(s)
  /\ store' = store \cup {Object("source", s)}
  /\ arriving' = arriving \cup {s}
  /\ UNCHANGED <<execution, tables, assets, deleted, inspected, request, rest, sweep,
                 interruptions>>

\* ... then the row.
RecordAsset(s) ==
  /\ s \in arriving
  /\ arriving' = arriving \ {s}
  /\ assets' = assets \cup {s}
  /\ UNCHANGED <<execution, tables, store, deleted, inspected, request, rest, sweep,
                 interruptions>>

\* The handler fails in between: no row ever names the object.
UploadDies(s) ==
  /\ s \in arriving
  /\ Interrupt
  /\ arriving' = arriving \ {s}
  /\ UNCHANGED <<execution, tables, store, assets, deleted, inspected, request, rest, sweep>>

\* inspect_book: a source that has been inspected keeps its first inspection.
Inspect(s) ==
  /\ s \in Rows \ inspected
  /\ Object("source", s) \in store
  /\ inspected' = inspected \cup {s}
  /\ UNCHANGED <<execution, tables, store, assets, deleted, arriving, request, rest, sweep,
                 interruptions>>

\* _preflight of create_job; it does not look at deleted_at.
Preflight(j, s) ==
  /\ request[j].at = "none"
  /\ s \in Rows /\ s \in inspected
  /\ Object("source", s) \in store
  /\ request' = [request EXCEPT ![j] = [at |-> "checked", source |-> s]]
  /\ UNCHANGED <<execution, tables, store, assets, deleted, arriving, inspected, rest, sweep,
                 interruptions>>

\* The sweep's transaction holds the asset row.
SweepHolds(s) == sweep.at = "delete" /\ sweep.kind = "source" /\ s \in sweep.rows

\* admit locks the asset row: source_expired, or the job is created.
Admit(j) ==
  LET s == request[j].source IN
  /\ request[j].at = "checked"
  /\ ~SweepHolds(s)
  /\ IF s \in deleted
     THEN /\ request' = [request EXCEPT ![j].at = "source_expired"]
          /\ UNCHANGED status
     ELSE /\ request' = [request EXCEPT ![j].at = "admitted"]
          /\ status' = [status EXCEPT ![j] = "queued"]
  /\ UNCHANGED <<lease, container, tables, store, assets, deleted, arriving, inspected, rest,
                 sweep, interruptions>>

-----------------------------------------------------------------------------
(* Time. *)

\* A job has been over for more than 24 hours (1), 7 days (2), 30 days (3).
Rest(j) ==
  /\ status[j] \in Terminal /\ rest[j] < 3
  /\ \A a \in Attempts : ~Alive(<<j, a>>)
  /\ rest' = [rest EXCEPT ![j] = @ + 1]
  /\ UNCHANGED <<execution, tables, store, sources, sweep, interruptions>>

-----------------------------------------------------------------------------
(* The sweep. *)

Needs(j, s) == request[j].at = "admitted" /\ request[j].source = s

ExpiredSources == {s \in assets : \A j \in Jobs : Needs(j, s) => rest[j] >= 1}

ExpiredPublished == {w \in Workers : artifact[w[1]] = w[2] /\ rest[w[1]] = 3}

\* Mutant of AbandonedOutputs: whether an artifact names the object is not asked.
OldOutputs == {w \in outputs : ~Alive(w)}

\* Outputs that no artifact names.
AbandonedOutputs == {w \in outputs : ~Alive(w) /\ artifact[w[1]] # w[2]}

\* Mutant of ExpiredCheckpoints: a version expires by its age alone.
OldCheckpoints == {v \in checkpoints : ~Alive(v[1])}

\* Mutant of ExpiredCheckpoints: only versions that were not selected expire.
UnselectedCheckpoints == {v \in checkpoints \ ready : ~Alive(v[1])}

ExpiredCheckpoints ==
  {v \in checkpoints :
     \/ v \notin ready /\ ~Alive(v[1])
     \/ status[JobOf(v)] = "succeeded" /\ rest[JobOf(v)] >= 1
     \/ status[JobOf(v)] \in {"failed", "cancelled"} /\ rest[JobOf(v)] >= 2}

Expired(kind) == CASE kind = "source"     -> ExpiredSources
                   [] kind = "published"  -> ExpiredPublished
                   [] kind = "temporary"  -> AbandonedOutputs
                   [] kind = "checkpoint" -> ExpiredCheckpoints

\* Published and abandoned outputs are objects of the same kind.
SweptObject(kind, row) ==
  Object(IF kind \in {"published", "temporary"} THEN "artifact" ELSE kind, row)

OnlySweep == UNCHANGED <<execution, sources, rest>>

\* The SELECT reads its rows as they are when it begins ...
SweepSelect(kind) ==
  /\ sweep = Idle
  /\ \E rows \in SUBSET Expired(kind) \ {{}} :
       sweep' = [at |-> IF kind = "source" THEN "lock" ELSE "delete",
                 kind |-> kind, rows |-> rows, gone |-> {}]
  /\ OnlySweep
  /\ UNCHANGED <<tables, store, interruptions>>

\* ... and has locked them when it returns; nobody else locks an expired row,
\* except an admission the row of its asset.
SweepLock ==
  /\ sweep.at = "lock"
  /\ sweep' = [sweep EXCEPT !.at = "delete"]
  /\ OnlySweep
  /\ UNCHANGED <<tables, store, interruptions>>

\* Mutant of SweepDelete: the row is updated, the object is left to a later run.
SweepSkipsObject(row) ==
  /\ sweep.at = "delete" /\ row \in sweep.rows \ sweep.gone
  /\ sweep' = [sweep EXCEPT !.gone = @ \cup {row}]
  /\ OnlySweep
  /\ UNCHANGED <<tables, store, interruptions>>

SweepDelete(row) ==
  /\ sweep.at = "delete" /\ row \in sweep.rows \ sweep.gone
  /\ store' = store \ {SweptObject(sweep.kind, row)}
  /\ sweep' = [sweep EXCEPT !.gone = @ \cup {row}]
  /\ OnlySweep
  /\ UNCHANGED <<tables, interruptions>>

\* The transaction commits: deleted_at is set, or the rows are gone.
SweepCommit ==
  LET rows(k) == IF k = sweep.kind THEN sweep.rows ELSE {} IN
  /\ sweep.at = "delete" /\ sweep.gone = sweep.rows
  /\ assets' = assets \ rows("source")
  /\ deleted' = deleted \cup rows("source")
  /\ artifact' = [j \in Jobs |-> IF <<j, artifact[j]>> \in rows("published")
                                 THEN 0 ELSE artifact[j]]
  /\ outputs' = outputs \ rows("temporary")
  /\ checkpoints' = checkpoints \ rows("checkpoint")
  /\ ready' = ready \ rows("checkpoint")
  /\ sweep' = Idle
  /\ UNCHANGED <<execution, store, arriving, inspected, request, rest, interruptions>>

\* The bucket or the database raises, or retain_objects is stopped: its
\* transaction is rolled back, and the next run starts again.
SweepFails ==
  /\ sweep.at \in {"lock", "delete"}
  /\ Interrupt
  /\ sweep' = Idle
  /\ OnlySweep
  /\ UNCHANGED <<tables, store>>

SweepStep ==
  \/ \E kind \in Kinds : SweepSelect(kind)
  \/ SweepLock \/ SweepCommit \/ \E row \in sweep.rows : SweepDelete(row)

-----------------------------------------------------------------------------

OthersUnchanged == UNCHANGED <<sources, rest, sweep, interruptions>>

Next ==
  \/ AttemptsNext /\ OthersUnchanged
  \/ \E s \in Sources : \/ PutSource(s) \/ RecordAsset(s) \/ UploadDies(s) \/ Inspect(s)
                        \/ \E j \in Jobs : Preflight(j, s)
  \/ \E j \in Jobs : Admit(j) \/ Rest(j)
  \/ SweepStep \/ SweepFails

Spec == Init /\ [][Next]_vars

\* Claims are retried each minute, a lease whose container is gone expires,
\* containers go on, and no render restores for ever.  Time passes, and
\* retain_objects runs every hour, also after a run that failed.
Fairness ==
  /\ \A j \in Jobs : WF_vars(Recover(j) /\ OthersUnchanged) /\ WF_vars(Rest(j))
  /\ \A w \in Workers : /\ WF_vars(ContainerStep(w) /\ OthersUnchanged)
                        /\ SF_vars(RegisterOutput(w) /\ OthersUnchanged)
  /\ WF_vars(SweepStep)

FairSpec == Spec /\ Fairness

-----------------------------------------------------------------------------
(* Properties. *)

TypeOK ==
  /\ AttemptsTypeOK
  /\ assets \subseteq Sources /\ deleted \subseteq Sources \ assets
  /\ arriving \subseteq Sources \ (assets \cup deleted)
  /\ inspected \subseteq assets \cup deleted
  /\ request \in [Jobs -> [at : {"none", "checked", "admitted", "source_expired"},
                           source : Sources \cup {None}]]
  /\ rest \in [Jobs -> 0 .. 3]
  /\ interruptions \in Nat

\* Nothing an attempt uploads is lost from sight: whichever step is the last
\* one of an attempt or of a sweep, every checkpoint and every output in the
\* bucket has a row by which a later sweep finds it (checkpoints.py:65).
ObjectsTracked ==
  /\ \A v \in Versions : Object("checkpoint", v) \in store => v \in checkpoints
  /\ \A w \in Workers : Object("artifact", w) \in store => w \in outputs

\* The object of a published artifact is there for 30 days, although the sweep
\* also deletes old temporary objects and its row is one of them.
ArtifactKept ==
  \A j \in Jobs : artifact[j] # 0 /\ rest[j] < 3
                  => Object("artifact", <<j, artifact[j]>>) \in store

\* The attempt that holds the lease never restores a version whose object is
\* gone, whatever newer versions, other attempts and sweeps do between its
\* reading the row and its download; otherwise the job would fail.
RestoreFinds ==
  \A w \in Workers : At(w, "downloading") /\ Holds(w)
                     => Object("checkpoint", container[w].version) \in store

\* The committed version of a key stays until a newer one is committed, as long
\* as the job is not over, and only the newest attempt commits one: a stale
\* worker cannot (docs/checkpoints.md).
NewestCheckpointKept ==
  [][/\ \A v \in ready : status[JobOf(v)] \notin Terminal /\ v \notin ready'
                         => \E u \in ready' \ ready : SameKey(u, v)
     /\ \A u \in ready' \ ready :
          /\ AttemptOf(u) = lease[JobOf(u)].attempts
          /\ \A v \in ready' : SameKey(u, v) => u = v]_vars

ObjectsOf(j) == {Object("checkpoint", v) : v \in {u \in Versions : JobOf(u) = j}} \cup
                {Object("artifact", <<j, a>>) : a \in Attempts}

\* Everything with a row expires in the end, also after sweeps that failed:
\* the checkpoints and outputs of a job, whether published or abandoned, and
\* sources after the jobs that need them.
ObjectsReclaimed ==
  /\ \A j \in Jobs : ObjectsOf(j) \cap store # {} ~> ObjectsOf(j) \cap store = {}
  /\ \A s \in Sources : s \in assets ~> Object("source", s) \notin store

\* The source of a job that is not over is kept: "Lock the asset during
\* deletion; admission takes the same row lock" (retention.py:98).
SourceKept ==
  \A j \in Jobs : status[j] \in Unfinished => Object("source", request[j].source) \in store
=============================================================================
