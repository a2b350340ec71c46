----------------------------- MODULE EventStream -----------------------------
(***************************************************************************)
(* GET /v1/jobs/{id}/events of api/jobs.py: the server-sent events by      *)
(* which a browser follows one job.  A response is a loop that lists the   *)
(* durable history, sends what is new, reads the snapshot of the job in a  *)
(* query of its own, and returns if the job is over; the job moves between *)
(* any two of these steps.  A connection can break at any time and loses   *)
(* what it carries.  A client that reconnects says which event it received *)
(* last.                                                                   *)
(***************************************************************************)
EXTENDS JobLifecycle

CONSTANTS Clients,
          Follows,  \* the job whose events a client reads
          MaxBreaks \* bound: connections that break, and pages that reload

ASSUME StreamAssumption == Follows \in [Clients -> Jobs] /\ MaxBreaks \in Nat

VARIABLES stream,   \* per client, the response that serves it
          wire,     \* per client, the ids sent and not yet received
          received, \* per client, the ids received since the page was loaded
          breaks

feeds == <<stream, wire, received, breaks>>

Closed == [at |-> "closed", seen |-> 0, upto |-> 0]

InitStreams ==
  /\ stream = [c \in Clients |-> Closed]
  /\ wire = [c \in Clients |-> <<>>]
  /\ received = [c \in Clients |-> <<>>]
  /\ breaks = 0

History(c) == events[Follows[c]]

Goes(c, at) == stream' = [stream EXCEPT ![c].at = at]

LastReceived(c) == IF received[c] = <<>> THEN 0 ELSE received[c][Len(received[c])]

\* The last event the client has received ends the job.
HasEnded(c) == LastReceived(c) \in DOMAIN History(c)
               /\ StatusAfter[History(c)[LastReceived(c)]] \in Terminal

-----------------------------------------------------------------------------
(* The connection of a client. *)

\* Mutant of LastEventId: the first event is taken to have the id 0.
NextEventId(c) == LastReceived(c) + 1

\* The header of the request; a page that has just been loaded sends none.
LastEventId(c) == LastReceived(c)

Open(c) ==
  /\ stream[c].at = "closed"
  /\ ~HasEnded(c)
  /\ status[Follows[c]] # NoJob
  /\ stream' = [stream EXCEPT ![c] = [at |-> "listing", seen |-> LastEventId(c), upto |-> 0]]
  /\ UNCHANGED <<vars, wire, received, breaks>>

Receive(c) ==
  /\ wire[c] # <<>>
  /\ received' = [received EXCEPT ![c] = Append(@, Head(wire[c]))]
  /\ wire' = [wire EXCEPT ![c] = Tail(@)]
  /\ UNCHANGED <<vars, stream, breaks>>

\* The response is complete.
End(c) ==
  /\ stream[c].at = "ended" /\ wire[c] = <<>>
  /\ stream' = [stream EXCEPT ![c] = Closed]
  /\ UNCHANGED <<vars, wire, received, breaks>>

Breaks == breaks < MaxBreaks /\ breaks' = breaks + 1

\* The connection breaks, or the handler's query raises.
Break(c) ==
  /\ stream[c].at # "closed"
  /\ Breaks
  /\ stream' = [stream EXCEPT ![c] = Closed]
  /\ wire' = [wire EXCEPT ![c] = <<>>]
  /\ UNCHANGED <<vars, received>>

\* The page is loaded again and has nothing.
Reload(c) ==
  /\ received[c] # <<>>
  /\ Breaks
  /\ stream' = [stream EXCEPT ![c] = Closed]
  /\ wire' = [wire EXCEPT ![c] = <<>>]
  /\ received' = [received EXCEPT ![c] = <<>>]
  /\ UNCHANGED vars

-----------------------------------------------------------------------------
(* stream_events. *)

\* list_for_job.
List(c) ==
  /\ stream[c].at = "listing"
  /\ stream' = [stream EXCEPT ![c].at = "sending", ![c].upto = Len(History(c))]
  /\ UNCHANGED <<vars, wire, received, breaks>>

\* Mutant of SendNext: seen is set once, for the whole list.
SendFromStart(c) ==
  /\ stream[c].at = "sending" /\ stream[c].seen < stream[c].upto
  /\ stream' = [stream EXCEPT ![c].seen = stream[c].upto]
  /\ wire' = [wire EXCEPT ![c] = @ \o [i \in 1 .. stream[c].upto |-> i]]
  /\ UNCHANGED <<vars, received, breaks>>

\* The next event of the list that the client has not seen.
SendNext(c) ==
  /\ stream[c].at = "sending" /\ stream[c].seen < stream[c].upto
  /\ stream' = [stream EXCEPT ![c].seen = @ + 1]
  /\ wire' = [wire EXCEPT ![c] = Append(@, stream[c].seen + 1)]
  /\ UNCHANGED <<vars, received, breaks>>

\* The list is sent: is the job over by now?
Check(c) ==
  /\ stream[c].at = "sending" /\ stream[c].seen >= stream[c].upto
  /\ Goes(c, IF status[Follows[c]] \in Terminal THEN "ended" ELSE "listing")
  /\ UNCHANGED <<vars, wire, received, breaks>>

-----------------------------------------------------------------------------

Respond(c) == List(c) \/ SendNext(c) \/ Check(c)

StreamNext == \E c \in Clients : Open(c) \/ Receive(c) \/ End(c) \/ Break(c)
                                 \/ Reload(c) \/ Respond(c)

-----------------------------------------------------------------------------
(* Properties. *)

\* However often a client reconnects, it receives the history of its job from
\* the first event on, each event once, none skipped and in order.
InOrder ==
  \A c \in Clients :
    \A i \in DOMAIN received[c] : received[c][i] = i /\ i \in DOMAIN History(c)

\* A client that reconnects until its job has ended receives every event up to
\* one that ends it, although a response may end without that one: the job can
\* end between the list and the snapshot (api/jobs.py:333, 347).
EveryEventDelivered ==
  \A c \in Clients : status[Follows[c]] \in Terminal ~> HasEnded(c)
=============================================================================
