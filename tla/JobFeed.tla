------------------------------- MODULE JobFeed -------------------------------
(***************************************************************************)
(* What readers hear of their jobs while the jobs move: the streams of     *)
(* EventStream and the mail of CompletionMail over the history that        *)
(* HostedLifecycle promises, which HostedExecution is checked against.  A  *)
(* worker that wants to complete a job computes the move from a snapshot   *)
(* it read before, and its update is refused if the job has moved on or    *)
(* the lease is lost; only an update it knows to be committed notifies.    *)
(***************************************************************************)
EXTENDS HostedLifecycle, EventStream, CompletionMail

CONSTANT MaxEvents \* bound: events of one job

ASSUME FeedAssumption == MaxEvents \in Nat

VARIABLE completing \* jobs whose worker has the output and will update the job

feedVars == <<vars, feeds, mailbox, completing>>

FeedInit == Init /\ InitStreams /\ InitMail /\ completing = {}

-----------------------------------------------------------------------------
(* The jobs. *)

\* Admitted, moved by its worker, cancelled, exhausted, or overtaken by a claim:
\* every move but success.
Move(j) ==
  /\ \/ Admit(j)
     \/ /\ Len(events[j]) < MaxEvents
        /\ \E e \in EventType \ {"completed"} : Advance(j, e) \/ Overtake(j, e)
  /\ UNCHANGED <<feeds, mailbox, completing>>

\* The output is written, and the job has been read.
Rendered(j) ==
  /\ status[j] = "running" /\ j \notin completing
  /\ completing' = completing \cup {j}
  /\ UNCHANGED <<vars, feeds, mailbox>>

\* Mutant of Succeed: the reader is told before the update.
SucceedLater(j) ==
  /\ j \in completing
  /\ IF notifier[j].at = "none"
     THEN Notify(j) /\ UNCHANGED <<vars, feeds, completing>>
     ELSE /\ Advance(j, "completed")
          /\ completing' = completing \ {j}
          /\ UNCHANGED <<feeds, mailbox>>

\* The update is committed.
Succeed(j) ==
  /\ j \in completing
  /\ Advance(j, "completed")
  /\ completing' = completing \ {j}
  /\ Notify(j)
  /\ UNCHANGED feeds

\* It is committed, but the worker never learns of it: no mail.
SucceedUnheard(j) ==
  /\ j \in completing
  /\ Advance(j, "completed")
  /\ completing' = completing \ {j}
  /\ UNCHANGED <<feeds, mailbox>>

\* It is refused, since the job has moved on or the lease is lost.
LoseRace(j) ==
  /\ j \in completing
  /\ completing' = completing \ {j}
  /\ UNCHANGED <<vars, feeds, mailbox>>

-----------------------------------------------------------------------------

FeedNext ==
  \/ \E j \in Jobs : Move(j) \/ Rendered(j) \/ Succeed(j) \/ SucceedUnheard(j) \/ LoseRace(j)
  \/ StreamNext /\ UNCHANGED <<mailbox, completing>>
  \/ MailNext /\ UNCHANGED <<feeds, completing>>

\* The server goes on with every response, the network delivers what it holds,
\* and a client reconnects; nothing makes a job end.
FeedFairness ==
  \A c \in Clients : /\ WF_feedVars(Respond(c) /\ UNCHANGED <<mailbox, completing>>)
                     /\ WF_feedVars(Receive(c) /\ UNCHANGED <<mailbox, completing>>)
                     /\ WF_feedVars((Open(c) \/ End(c)) /\ UNCHANGED <<mailbox, completing>>)

FeedSpec == FeedInit /\ [][FeedNext]_feedVars /\ FeedFairness

-----------------------------------------------------------------------------
(* Properties. *)

\* The client has received the event of success.
HeardOfSuccess(c) == \E i \in DOMAIN received[c] :
                       /\ received[c][i] \in DOMAIN History(c)
                       /\ History(c)[received[c][i]] = "completed"

\* The success is in the history, and the artifact was committed with it.
Completed(j) == published[j] /\ \E i \in DOMAIN events[j] : events[j][i] = "completed"

\* Whoever hears of success, from the stream or by mail, hears of a completion
\* that was committed together with its artifact, whichever move the worker's
\* update races with and whoever overtakes the job later (worker.py:242: "Only a
\* committed completion notifies, so a lost race stays silent").
NewsIsCommitted ==
  \A j \in Jobs : mails[j] # <<>> \/ (\E c \in Clients : Follows[c] = j /\ HeardOfSuccess(c))
                  => Completed(j)
=============================================================================
