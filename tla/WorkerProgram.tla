---------------------------- MODULE WorkerProgram ----------------------------
(***************************************************************************)
(* The control flow of LocalJobRunner._run (worker.py), the program that   *)
(* every attempt executes, local or hosted.  A worker alternates between   *)
(* reading the job and committing one optimistic update of it; the tables  *)
(* below say where each read and each commit leads.  The components that   *)
(* extend this module say what reading and committing do.                  *)
(*                                                                         *)
(* Points of the program:                                                  *)
(*   none, starting, loaded     not spawned; about to read the dispatch;   *)
(*                              about to read the job                      *)
(*   beginning, resuming        first update: queued -> running, or the    *)
(*                              "retrying" progress of a later attempt     *)
(*   earlyAcking .. dropping    the job was cancelled before this attempt  *)
(*                              rendered anything                          *)
(*   marking                    about to set the dispatch running          *)
(*   rendering, reporting       kenkui renders; on_event reports progress  *)
(*   rendered, completing       output written; about to commit completed  *)
(*   contended                  the completion did not commit              *)
(*   erring, failChecking, failing    the exception handler                *)
(*   acking, cancelling         _cancel_if_requested: read, commit         *)
(*   finishing, closing         the _finish_dispatch loop                  *)
(*   exiting, done              about to release the lease; process gone   *)
(***************************************************************************)
EXTENDS JobTransitions

\* The event each committing point appends ...
CommitEvent == [beginning       |-> "running",
                resuming        |-> "progress",
                reporting       |-> "progress",
                completing      |-> "completed",
                failing         |-> "failed",
                cancelling      |-> "cancelled",
                earlyCancelling |-> "cancelled"]

\* ... where the worker goes when _update returned True ...
AfterCommit == [beginning       |-> "marking",
                resuming        |-> "marking",
                reporting       |-> "rendering",
                completing      |-> "finishing",
                failing         |-> "finishing",
                cancelling      |-> "finishing",
                earlyCancelling |-> "dropping"]

\* ... and where when it returned False, the lease or the version being stale.
AfterStale == [beginning       |-> "exiting",
               resuming        |-> "exiting",
               reporting       |-> "rendering",
               completing      |-> "contended",
               failing         |-> "finishing",
               cancelling      |-> "finishing",
               earlyCancelling |-> "dropping"]

Committing == DOMAIN CommitEvent
Reading == {"loaded", "rendering", "rendered", "contended", "acking",
            "earlyAcking", "erring", "failChecking"}

PC == Committing \cup Reading \cup
      {"none", "starting", "marking", "dropping", "finishing", "closing",
       "exiting", "done"}

\* Inside the try statement, where a BaseException unwinds to its finally.
Unwinding == {"rendering", "reporting", "rendered", "completing", "contended",
              "erring", "failChecking", "failing"}

\* The next point when the read at pc returns status st.  Where the program
\* calls transition(), a status that does not allow it raises, and the
\* exception handler takes over.
AfterRead(pc, st) ==
  CASE pc = "loaded"       -> (CASE st = "queued"           -> "beginning"
                                 [] st = "running"          -> "resuming"
                                 [] st = "cancel_requested" -> "earlyAcking"
                                 [] st = "cancelled"        -> "dropping"
                                 [] OTHER                   -> "exiting")
    [] pc = "earlyAcking"  -> IF st = "cancel_requested" THEN "earlyCancelling"
                              ELSE "dropping"
    [] pc = "rendering"    -> (CASE st = "cancel_requested" -> "rendering"
                                 [] <<st, "progress">> \in Legal -> "reporting"
                                 [] OTHER                   -> "erring")
    [] pc = "rendered"     -> (CASE st = "cancel_requested" -> "acking"
                                 [] <<st, "completed">> \in Legal -> "completing"
                                 [] OTHER                   -> "erring")
    [] pc = "contended"    -> IF st = "cancel_requested" THEN "acking"
                              ELSE "finishing"
    [] pc = "acking"       -> IF st = "cancel_requested" THEN "cancelling"
                              ELSE "finishing"
    [] pc = "erring"       -> IF st = "cancel_requested" THEN "acking"
                              ELSE "failChecking"
    [] pc = "failChecking" -> IF st = "running" THEN "failing" ELSE "finishing"

\* The reads after which the worker unlinks the output it has written.
Discards(pc, st) == pc \in {"rendered", "contended"} /\ st = "cancel_requested"
=============================================================================
