---------------------------- MODULE JobLifecycle ----------------------------
(***************************************************************************)
(* What an executor promises of every job if it acts on what it has read   *)
(* under a lock, as the local one does: a job is admitted once, each later *)
(* change is one legal move that appends exactly one event and counts one  *)
(* version, a terminal job never changes again, and an artifact appears    *)
(* with success and with nothing else.  HostedLifecycle says what is left  *)
(* of it where a claim reads the job without a lock.                       *)
(***************************************************************************)
EXTENDS Naturals, Sequences, JobTransitions

CONSTANT Jobs

VARIABLES status,     \* the job's status, NoJob before admission
          version,    \* its optimistic version
          events,     \* its durable history, a sequence of event types
          published   \* has an artifact row of the job been committed

vars == <<status, version, events, published>>

Init == /\ status = [j \in Jobs |-> NoJob]
        /\ version = [j \in Jobs |-> 0]
        /\ events = [j \in Jobs |-> <<>>]
        /\ published = [j \in Jobs |-> FALSE]

Admit(j) == /\ status[j] = NoJob
            /\ status' = [status EXCEPT ![j] = "queued"]
            /\ UNCHANGED <<version, events, published>>

Advance(j, e) ==
  /\ <<status[j], e>> \in Legal \cup StorageMoves
  /\ status' = [status EXCEPT ![j] = StatusAfter[e]]
  /\ version' = [version EXCEPT ![j] = @ + 1]
  /\ events' = [events EXCEPT ![j] = Append(@, e)]
  /\ published' = [published EXCEPT ![j] = (e = "completed")]

Next == \E j \in Jobs : Admit(j) \/ \E e \in EventType : Advance(j, e)

Spec == Init /\ [][Next]_vars
=============================================================================
