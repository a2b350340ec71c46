---------------------------- MODULE JobFeedProofs ----------------------------
(***************************************************************************)
(* Theorems about JobFeed, for all jobs, clients and addresses: what       *)
(* readers hear, over broken connections, raising mail servers and races.  *)
(*                                                                         *)
(* None of the properties is inductive.  JobsOK says what the history      *)
(* tells of a job, FlowOK how what a client has received, what is under    *)
(* way and what the response remembers fit together, and NotifierOK what a *)
(* notifier may rely on at each of its points.                             *)
(***************************************************************************)
EXTENDS JobFeed, TLAPS

\* The job has ended, with a success in its history.
Published(j) == status[j] \in Terminal /\ Completed(j)

JobsOK ==
  /\ status \in [Jobs -> JobStatus \cup {NoJob}]
  /\ events \in [Jobs -> Seq(EventType)]
  /\ published \in [Jobs -> BOOLEAN]
  /\ \A j \in Jobs : \A i \in 1 .. Len(events[j]) :
       events[j][i] = "completed" => Published(j)

Responses == [at : {"closed", "listing", "sending", "ended"}, seen : Nat, upto : Nat]

\* What a client has received, r, and what is on the wire for it, w, is the
\* history, of length n, from its first event on; an open response s has sent
\* just that.
Flow(r, w, n, s) ==
  /\ \A i \in 1 .. Len(r) : r[i] = i
  /\ \A i \in 1 .. Len(w) : w[i] = Len(r) + i
  /\ Len(r) + Len(w) <= n
  /\ s.upto <= n
  /\ s.at = "closed" => w = <<>>
  /\ s.at # "closed" => s.seen = Len(r) + Len(w)

Flows(c) == Flow(received[c], wire[c], Len(History(c)), stream[c])

FlowOK ==
  /\ stream \in [Clients -> Responses]
  /\ wire \in [Clients -> Seq(Nat)]
  /\ received \in [Clients -> Seq(Nat)]
  /\ \A c \in Clients : Flows(c)

Readers == [email : Addresses \cup {NoAddress}, wants : BOOLEAN]

Notifiers == [at : {"none", "asking", "claiming", "sending", "marking", "done"},
              to : Addresses \cup {NoAddress}]

Notifications == {"none", "claimed", "delivered"}

\* What a notifier n relies on at each of its points, if o is the row of its
\* job, m the mail sent and w where the reader has wanted it.
MailOf(n, o, m, w) ==
  /\ m = <<>> \/ \E a \in w : m = <<a>>
  /\ n.at \in {"none", "asking", "claiming", "sending"} => m = <<>>
  /\ n.at \in {"claiming", "sending", "marking"} => n.to \in w
  /\ n.at = "marking" => m # <<>>
  /\ o = "delivered" => m # <<>>

\* It runs for a job that was completed, and knows all later preferences.
Notifies(j) ==
  /\ MailOf(notifier[j], notification[j], mails[j], wanted[j])
  /\ notifier[j].at # "none" => Published(j) /\ Wanting(reader) \subseteq wanted[j]

NotifierOK ==
  /\ reader \in Readers
  /\ notifier \in [Jobs -> Notifiers]
  /\ notification \in [Jobs -> Notifications]
  /\ mails \in [Jobs -> Seq(Addresses)]
  /\ wanted \in [Jobs -> SUBSET Addresses]
  /\ \A j \in Jobs : Notifies(j)

FeedInv == JobsOK /\ FlowOK /\ NotifierOK

-----------------------------------------------------------------------------
(* The jobs. *)

\* A history only grows, and a success stays in it.
Later ==
  \A j \in Jobs : /\ Len(events[j]) <= Len(events'[j])
                  /\ \A i \in 1 .. Len(events[j]) : events'[j][i] = events[j][i]
                  /\ Published(j) => Published(j)'

\* Only a claim that overtakes a job moves it from its end.
LEMMA NothingAfterEnd ==
  ASSUME NEW st \in Terminal, NEW e PROVE <<st, e>> \notin Legal \cup StorageMoves
BY DEF Legal, StorageMoves, CancelledAtOnce, FailedInQueue, Terminal

\* An event e of job j.
Appends(j, e) ==
  /\ status' = [status EXCEPT ![j] = StatusAfter[e]]
  /\ events' = [events EXCEPT ![j] = Append(@, e)]
  /\ \A i \in Jobs \ {j} : published'[i] = published[i]
  /\ published' \in [Jobs -> BOOLEAN]

\* An event that publishes a job, or follows on its success, takes nothing back.
LEMMA AppendLater ==
  ASSUME JobsOK, NEW j \in Jobs, NEW e \in EventType, Appends(j, e),
         e = "completed" => published'[j],
         Published(j) => StatusAfter[e] \in Terminal /\ published'[j]
  PROVE  JobsOK' /\ Later
<1>1. StatusAfter[e] \in JobStatus /\ (e = "completed" => StatusAfter[e] \in Terminal)
  BY DEF EventType, StatusAfter, JobStatus, Terminal
<1>2. \A i \in Jobs \ {j} : status'[i] = status[i] /\ events'[i] = events[i]
                            /\ published'[i] = published[i]
  BY DEF JobsOK, Appends
<1>3. status'[j] = StatusAfter[e] /\ events'[j] = Append(events[j], e)
  BY DEF JobsOK, Appends
<1>4. /\ status' \in [Jobs -> JobStatus \cup {NoJob}] /\ events' \in [Jobs -> Seq(EventType)]
      /\ published' \in [Jobs -> BOOLEAN]
  BY <1>1 DEF JobsOK, Appends
<1>5. events[j] \in Seq(EventType) /\ Len(events[j]) \in Nat
  BY DEF JobsOK
<1>6. /\ Len(events'[j]) = Len(events[j]) + 1 /\ events'[j][Len(events[j]) + 1] = e
      /\ \A i \in 1 .. Len(events[j]) : events'[j][i] = events[j][i]
      /\ DOMAIN events'[j] = 1 .. Len(events[j]) + 1 /\ DOMAIN events[j] = 1 .. Len(events[j])
  BY <1>3, <1>5
<1>7. Published(j) => Published(j)'
  <2> SUFFICES ASSUME Published(j) PROVE Published(j)'
    OBVIOUS
  <2>1. PICK i \in DOMAIN events[j] : events[j][i] = "completed"
    BY DEF Published, Completed
  <2>2. i \in DOMAIN events'[j] /\ events'[j][i] = "completed"
    BY <1>5, <1>6, <2>1
  <2>3. QED
    BY <1>3, <2>2 DEF Published, Completed, Terminal
<1>8. ASSUME NEW i \in 1 .. Len(events'[j]), events'[j][i] = "completed"
      PROVE  Published(j)'
  <2>1. CASE i \in 1 .. Len(events[j])
    BY <1>6, <1>7, <1>8, <2>1 DEF JobsOK
  <2>2. CASE i = Len(events[j]) + 1
    <3>1. e = "completed" /\ i \in DOMAIN events'[j]
      BY <1>6, <1>8, <2>2
    <3>2. QED
      BY <1>1, <1>3, <1>8, <3>1 DEF Published, Completed, Terminal
  <2>3. QED
    BY <1>5, <1>6, <1>8, <2>1, <2>2
<1>9. \A i \in Jobs \ {j} : Published(i)' <=> Published(i)
  BY <1>2 DEF Published, Completed, Terminal
<1>10. ASSUME NEW k \in Jobs, NEW i \in 1 .. Len(events'[k]), events'[k][i] = "completed"
       PROVE  Published(k)'
  <2>1. CASE k = j
    BY <1>8, <1>10, <2>1
  <2>2. CASE k # j
    BY <1>2, <1>9, <1>10, <2>2 DEF JobsOK
  <2>3. QED
    BY <2>1, <2>2
<1>11. JobsOK'
  BY <1>4, <1>10 DEF JobsOK
<1>12. ASSUME NEW k \in Jobs
       PROVE  /\ Len(events[k]) <= Len(events'[k])
              /\ \A i \in 1 .. Len(events[k]) : events'[k][i] = events[k][i]
              /\ Published(k) => Published(k)'
  <2>1. CASE k = j
    BY <1>5, <1>6, <1>7, <2>1
  <2>2. CASE k # j
    <3>1. Len(events[k]) \in Nat
      BY DEF JobsOK
    <3>2. QED
      BY <1>2, <1>9, <2>2, <3>1
  <2>3. QED
    BY <2>1, <2>2
<1>13. QED
  BY <1>11, <1>12 DEF Later

\* A move appends to the history, and takes no success back.
LEMMA AdvanceLater ==
  ASSUME JobsOK, NEW j \in Jobs, NEW e \in EventType, Advance(j, e)
  PROVE  JobsOK' /\ Later
<1>1. status[j] \notin Terminal
  BY NothingAfterEnd DEF Advance
<1>2. ~Published(j)
  BY <1>1 DEF Published
<1>3. Appends(j, e) /\ (e = "completed" => published'[j])
  BY DEF JobsOK, Advance, Appends
<1>4. QED
  BY <1>2, <1>3, AppendLater

\* So does a claim that overtakes a job: it ends it once more, and leaves the
\* artifact.
LEMMA OvertakeLater ==
  ASSUME JobsOK, NEW j \in Jobs, NEW e \in EventType, Overtake(j, e)
  PROVE  JobsOK' /\ Later
<1>1. e # "completed" /\ StatusAfter[e] \in Terminal
  BY DEF Overtake, StatusAfter, Terminal
<1>2. Appends(j, e) /\ (Published(j) => published'[j])
  BY DEF JobsOK, Overtake, Appends, Published, Completed
<1>3. QED
  BY <1>1, <1>2, AppendLater

\* Admission leaves every history and success as it is.
LEMMA AdmitLater ==
  ASSUME JobsOK, NEW j \in Jobs, Admit(j)
  PROVE  JobsOK' /\ Later
<1>1. /\ status[j] = "absent" /\ status' = [status EXCEPT ![j] = "queued"]
      /\ events' = events /\ published' = published
  BY DEF Admit, NoJob
<1>2. "queued" \in JobStatus
  BY DEF JobStatus
<1>3. \A i \in Jobs : Published(i) => Published(i)'
  BY <1>1 DEF Published, Completed, JobsOK, Terminal
<1>4. \A i \in Jobs : events[i] \in Seq(EventType)
  BY DEF JobsOK
<1>5. QED
  BY <1>1, <1>2, <1>3, <1>4 DEF Later, JobsOK

\* So does a step that leaves the jobs alone.
LEMMA SameLater ==
  ASSUME JobsOK, UNCHANGED vars
  PROVE  JobsOK' /\ Later
BY DEF vars, JobsOK, Later, Published, Completed

-----------------------------------------------------------------------------
(* The streams. *)

\* The history may grow.
LEMMA LongerFlow ==
  ASSUME NEW r \in Seq(Nat), NEW w \in Seq(Nat), NEW n \in Nat, NEW m \in Nat,
         NEW s \in Responses, Flow(r, w, n, s), n <= m
  PROVE  Flow(r, w, m, s)
<1>1. s.upto \in Nat /\ Len(r) \in Nat /\ Len(w) \in Nat
  BY DEF Responses
<1>2. QED
  BY <1>1 DEF Flow

\* A response starts where the client stopped.
LEMMA NewFlow ==
  ASSUME NEW r \in Seq(Nat), NEW n \in Nat, NEW s \in Responses,
         Flow(r, <<>>, n, s)
  PROVE  Flow(r, <<>>, n, [at |-> "listing", seen |-> Len(r), upto |-> 0])
<1>1. Len(r) \in Nat
  OBVIOUS
<1>2. QED
  BY <1>1 DEF Flow

\* A response is over, and the page may be loaded again.
LEMMA OverFlow ==
  ASSUME NEW r \in Seq(Nat), NEW w \in Seq(Nat), NEW n \in Nat, NEW s \in Responses,
         Flow(r, w, n, s)
  PROVE  Flow(r, <<>>, n, [at |-> "closed", seen |-> 0, upto |-> 0])
         /\ Flow(<<>>, <<>>, n, [at |-> "closed", seen |-> 0, upto |-> 0])
<1>1. Len(r) \in Nat /\ Len(w) \in Nat
  OBVIOUS
<1>2. QED
  BY <1>1 DEF Flow

\* The client receives the next id.
LEMMA NextFlow ==
  ASSUME NEW r \in Seq(Nat), NEW w \in Seq(Nat), NEW n \in Nat, NEW s \in Responses,
         Flow(r, w, n, s), w # <<>>
  PROVE  Flow(Append(r, Head(w)), Tail(w), n, s)
<1>1. Len(r) \in Nat /\ Len(w) \in Nat \ {0} /\ Head(w) = w[1]
  OBVIOUS
<1>2. Head(w) = Len(r) + 1
  BY <1>1 DEF Flow
<1>3. Len(Append(r, Head(w))) = Len(r) + 1
  OBVIOUS
<1>4. Len(Tail(w)) = Len(w) - 1
  OBVIOUS
<1>5. \A i \in 1 .. Len(r) + 1 : Append(r, Head(w))[i] = i
  BY <1>1, <1>2 DEF Flow
<1>6. \A i \in 1 .. Len(w) - 1 : Tail(w)[i] = w[i + 1]
  BY <1>1
<1>7. \A i \in 1 .. Len(w) - 1 : Tail(w)[i] = Len(r) + 1 + i
  BY <1>1, <1>6 DEF Flow
<1>8. s.at # "closed"
  BY DEF Flow
<1>9. QED
  BY <1>1, <1>3, <1>4, <1>5, <1>7, <1>8 DEF Flow

\* The next id is sent.
LEMMA SentFlow ==
  ASSUME NEW r \in Seq(Nat), NEW w \in Seq(Nat), NEW n \in Nat, NEW s \in Responses,
         Flow(r, w, n, s), s.at # "closed", s.seen < s.upto,
         NEW t, t.at # "closed", t.seen = s.seen + 1, t.upto = s.upto
  PROVE  Flow(r, Append(w, s.seen + 1), n, t)
<1>1. Len(r) \in Nat /\ Len(w) \in Nat /\ s.seen \in Nat /\ s.upto \in Nat
  BY DEF Responses
<1>2. s.seen = Len(r) + Len(w)
  BY DEF Flow
<1>3. Len(Append(w, s.seen + 1)) = Len(w) + 1
  BY <1>1
<1>4. \A i \in 1 .. Len(w) + 1 :
        Append(w, s.seen + 1)[i] = IF i = Len(w) + 1 THEN s.seen + 1 ELSE w[i]
  BY <1>1
<1>5. \A i \in 1 .. Len(w) : w[i] = Len(r) + i
  BY DEF Flow
<1>6. \A i \in 1 .. Len(w) + 1 : Append(w, s.seen + 1)[i] = Len(r) + i
  BY <1>1, <1>2, <1>4, <1>5
<1>7. QED
  BY <1>1, <1>2, <1>3, <1>6 DEF Flow

\* The response moves otherwise, or lists the history.
LEMMA OtherFlow ==
  ASSUME NEW r \in Seq(Nat), NEW w \in Seq(Nat), NEW n \in Nat, NEW s \in Responses,
         Flow(r, w, n, s), s.at # "closed",
         NEW t, t.at # "closed", t.seen = s.seen, t.upto \in {s.upto, n}
  PROVE  Flow(r, w, n, t)
<1>1. Len(r) \in Nat /\ Len(w) \in Nat /\ s.seen \in Nat /\ s.upto \in Nat
  BY DEF Responses
<1>2. QED
  BY <1>1 DEF Flow

\* What has been received is a beginning of the history.
LEMMA ReceivedFlow ==
  ASSUME NEW r \in Seq(Nat), NEW w \in Seq(Nat), NEW n \in Nat, NEW s \in Responses,
         Flow(r, w, n, s), NEW i \in DOMAIN r
  PROVE  r[i] = i /\ i \in 1 .. n
<1>1. i \in 1 .. Len(r) /\ Len(r) \in Nat /\ Len(w) \in Nat
  OBVIOUS
<1>2. QED
  BY <1>1 DEF Flow

\* The flow of a client whose response does not move, while its job may.
LEMMA FlowLater ==
  ASSUME JobsOK, JobsOK', Later, NEW c \in Clients, FlowOK,
         stream'[c] = stream[c], wire'[c] = wire[c], received'[c] = received[c]
  PROVE  Flows(c)'
<1>1. Follows[c] \in Jobs
  BY StreamAssumption
<1>2. Len(History(c)) <= Len(History(c)') /\ Len(History(c)) \in Nat /\ Len(History(c)') \in Nat
  BY <1>1 DEF Later, History, JobsOK
<1>3. Flow(received[c], wire[c], Len(History(c)'), stream[c])
  BY <1>2, LongerFlow DEF FlowOK, Flows
<1>4. QED
  BY <1>3 DEF Flows

\* The same for all clients at once.
LEMMA FeedsSame ==
  ASSUME JobsOK, JobsOK', Later, FlowOK, UNCHANGED feeds
  PROVE  FlowOK'
<1>1. \A c \in Clients : Flows(c)'
  BY FlowLater DEF feeds
<1>2. QED
  BY <1>1 DEF FlowOK, feeds

\* An action on the stream of one client, which leaves the flow of the others.
LEMMA OneFlow ==
  ASSUME JobsOK, FlowOK, UNCHANGED vars, NEW c \in Clients,
         NEW s \in Responses, NEW w \in Seq(Nat), NEW r \in Seq(Nat),
         stream' = [stream EXCEPT ![c] = s], wire' = [wire EXCEPT ![c] = w],
         received' = [received EXCEPT ![c] = r], Flow(r, w, Len(History(c)), s)
  PROVE  FlowOK'
<1>1. /\ stream' \in [Clients -> Responses] /\ wire' \in [Clients -> Seq(Nat)]
      /\ received' \in [Clients -> Seq(Nat)]
      /\ stream'[c] = s /\ wire'[c] = w /\ received'[c] = r
  BY DEF FlowOK
<1>2. \A d \in Clients \ {c} : /\ stream'[d] = stream[d] /\ wire'[d] = wire[d]
                               /\ received'[d] = received[d]
  BY DEF FlowOK
<1>3. JobsOK' /\ Later
  BY SameLater
<1>4. \A d \in Clients \ {c} : Flows(d)'
  BY <1>2, <1>3, FlowLater
<1>5. History(c)' = History(c)
  BY DEF History, vars
<1>6. Flows(c)'
  BY <1>1, <1>5 DEF Flows
<1>7. QED
  BY <1>1, <1>4, <1>6 DEF FlowOK

\* What FlowOK says of one client.
LEMMA FlowOf ==
  ASSUME JobsOK, FlowOK, NEW c \in Clients
  PROVE  /\ stream[c] \in Responses /\ wire[c] \in Seq(Nat) /\ received[c] \in Seq(Nat)
         /\ Len(History(c)) \in Nat
         /\ Flow(received[c], wire[c], Len(History(c)), stream[c])
<1>1. Follows[c] \in Jobs
  BY StreamAssumption
<1>2. Len(History(c)) \in Nat
  BY <1>1 DEF History, JobsOK
<1>3. QED
  BY <1>2 DEF FlowOK, Flows

\* The updates of a response, written out.
LEMMA Updates ==
  ASSUME NEW f \in [Clients -> Responses], NEW c \in Clients
  PROVE  /\ \A n \in Nat : [f EXCEPT ![c].at = "sending", ![c].upto = n]
                          = [f EXCEPT ![c] = [at |-> "sending", seen |-> f[c].seen, upto |-> n]]
         /\ \A n \in Nat : [f EXCEPT ![c].seen = n]
                          = [f EXCEPT ![c] = [at |-> f[c].at, seen |-> n, upto |-> f[c].upto]]
         /\ \A a \in {"ended", "listing"} : [f EXCEPT ![c].at = a]
                          = [f EXCEPT ![c] = [at |-> a, seen |-> f[c].seen, upto |-> f[c].upto]]
<1> SUFFICES ASSUME NEW a \in {"ended", "listing"}, NEW n \in Nat
             PROVE  /\ [f EXCEPT ![c].at = "sending", ![c].upto = n]
                         = [f EXCEPT ![c] = [at |-> "sending", seen |-> f[c].seen, upto |-> n]]
                    /\ [f EXCEPT ![c].seen = n]
                         = [f EXCEPT ![c] = [at |-> f[c].at, seen |-> n, upto |-> f[c].upto]]
                    /\ [f EXCEPT ![c].at = a]
                         = [f EXCEPT ![c] = [at |-> a, seen |-> f[c].seen, upto |-> f[c].upto]]
  OBVIOUS
<1>1. [f[c] EXCEPT !.seen = n] = [at |-> f[c].at, seen |-> n, upto |-> f[c].upto]
  BY DEF Responses
<1>2. [f[c] EXCEPT !.at = a] = [at |-> a, seen |-> f[c].seen, upto |-> f[c].upto]
  BY DEF Responses
<1>3. [[f[c] EXCEPT !.at = "sending"] EXCEPT !.upto = n]
        = [at |-> "sending", seen |-> f[c].seen, upto |-> n]
  <2>1. [f[c] EXCEPT !.at = "sending"] = [at |-> "sending", seen |-> f[c].seen, upto |-> f[c].upto]
    BY DEF Responses
  <2>2. [[at |-> "sending", seen |-> f[c].seen, upto |-> f[c].upto] EXCEPT !.upto = n]
          = [at |-> "sending", seen |-> f[c].seen, upto |-> n]
    OBVIOUS
  <2>3. QED
    BY <2>1, <2>2
<1>4. [f EXCEPT ![c].seen = n] = [f EXCEPT ![c] = [f[c] EXCEPT !.seen = n]]
  OBVIOUS
<1>5. [f EXCEPT ![c].at = a] = [f EXCEPT ![c] = [f[c] EXCEPT !.at = a]]
  OBVIOUS
<1>6. [f EXCEPT ![c].at = "sending", ![c].upto = n]
        = [f EXCEPT ![c] = [[f[c] EXCEPT !.at = "sending"] EXCEPT !.upto = n]]
  OBVIOUS
<1>7. QED
  BY <1>1, <1>2, <1>3, <1>4, <1>5, <1>6

\* A client connects.
LEMMA OpenFlow ==
  ASSUME JobsOK, FlowOK, NEW c \in Clients, Open(c)
  PROVE  FlowOK'
<1> DEFINE r == received[c]
           s == [at |-> "listing", seen |-> Len(r), upto |-> 0]
<1>1. r \in Seq(Nat) /\ Len(r) \in Nat /\ s \in Responses
  BY FlowOf DEF Responses
<1>2. LastReceived(c) = Len(r)
  <2>1. \A i \in 1 .. Len(r) : r[i] = i
    BY FlowOf DEF Flow
  <2>2. CASE r = <<>>
    BY <2>2 DEF LastReceived
  <2>3. CASE r # <<>>
    BY <1>1, <2>1, <2>3 DEF LastReceived
  <2>4. QED
    BY <2>2, <2>3
<1>3. wire[c] = <<>>
  BY FlowOf DEF Open, Flow
<1>4. Flow(r, <<>>, Len(History(c)), s)
  BY <1>3, FlowOf, NewFlow
<1>5. /\ stream' = [stream EXCEPT ![c] = s] /\ wire' = [wire EXCEPT ![c] = <<>>]
      /\ received' = [received EXCEPT ![c] = r] /\ UNCHANGED vars
  BY <1>2, <1>3 DEF Open, LastEventId, FlowOK
<1>6. <<>> \in Seq(Nat)
  OBVIOUS
<1>7. QED
  BY <1>1, <1>4, <1>5, <1>6, OneFlow

\* A client receives.
LEMMA ReceiveFlow ==
  ASSUME JobsOK, FlowOK, NEW c \in Clients, Receive(c)
  PROVE  FlowOK'
<1> DEFINE r == Append(received[c], Head(wire[c]))
           w == Tail(wire[c])
<1>1. wire[c] # <<>> /\ wire[c] \in Seq(Nat) /\ received[c] \in Seq(Nat)
  BY FlowOf DEF Receive
<1>2. r \in Seq(Nat) /\ w \in Seq(Nat)
  BY <1>1
<1>3. Flow(r, w, Len(History(c)), stream[c])
  BY <1>1, FlowOf, NextFlow
<1>4. /\ stream' = [stream EXCEPT ![c] = stream[c]] /\ wire' = [wire EXCEPT ![c] = w]
      /\ received' = [received EXCEPT ![c] = r] /\ UNCHANGED vars
  BY DEF Receive, FlowOK
<1>5. QED
  BY <1>2, <1>3, <1>4, FlowOf, OneFlow

\* A response that is over, or given up with what was on the wire.
LEMMA ClosedFlow ==
  ASSUME JobsOK, FlowOK, NEW c \in Clients, UNCHANGED vars,
         stream' = [stream EXCEPT ![c] = Closed], wire' = [wire EXCEPT ![c] = <<>>],
         received' = received \/ received' = [received EXCEPT ![c] = <<>>]
  PROVE  FlowOK'
<1>1. Closed \in Responses /\ <<>> \in Seq(Nat) /\ received[c] \in Seq(Nat)
  BY FlowOf DEF Closed, Responses
<1>2. /\ Flow(received[c], <<>>, Len(History(c)), Closed)
      /\ Flow(<<>>, <<>>, Len(History(c)), Closed)
  BY FlowOf, OverFlow DEF Closed
<1>3. CASE received' = received
  <2>1. received' = [received EXCEPT ![c] = received[c]]
    BY <1>3 DEF FlowOK
  <2>2. QED
    BY <1>1, <1>2, <2>1, OneFlow
<1>4. CASE received' = [received EXCEPT ![c] = <<>>]
  BY <1>1, <1>2, <1>4, OneFlow
<1>5. QED
  BY <1>3, <1>4

\* The loop of stream_events.
LEMMA RespondFlow ==
  ASSUME JobsOK, FlowOK, NEW c \in Clients, Respond(c)
  PROVE  FlowOK'
<1> DEFINE n == Len(History(c))
<1>1. /\ received' = [received EXCEPT ![c] = received[c]] /\ UNCHANGED vars
      /\ stream[c].at # "closed"
  BY DEF Respond, List, SendNext, Check, FlowOK
<1>2. /\ stream[c] \in Responses /\ wire[c] \in Seq(Nat) /\ received[c] \in Seq(Nat)
      /\ n \in Nat /\ Flow(received[c], wire[c], n, stream[c])
      /\ stream[c].seen \in Nat /\ stream[c].upto \in Nat
  BY FlowOf DEF Responses
<1>3. CASE List(c)
  <2> DEFINE s == [at |-> "sending", seen |-> stream[c].seen, upto |-> n]
  <2>1. s \in Responses
    BY <1>2 DEF Responses
  <2>2. Flow(received[c], wire[c], n, s)
    BY <1>1, <1>2, OtherFlow
  <2>3. stream' = [stream EXCEPT ![c] = s] /\ wire' = [wire EXCEPT ![c] = wire[c]]
    BY <1>2, <1>3, Updates DEF List, FlowOK
  <2>4. QED
    BY <1>1, <1>2, <2>1, <2>2, <2>3, OneFlow
<1>4. CASE SendNext(c)
  <2> DEFINE s == [at |-> stream[c].at, seen |-> stream[c].seen + 1, upto |-> stream[c].upto]
             w == Append(wire[c], stream[c].seen + 1)
  <2>1. s \in Responses /\ w \in Seq(Nat)
    BY <1>2 DEF Responses
  <2>2. Flow(received[c], w, n, s)
    BY <1>1, <1>2, <1>4, SentFlow DEF SendNext
  <2>3. stream' = [stream EXCEPT ![c] = s] /\ wire' = [wire EXCEPT ![c] = w]
    <3>1. /\ stream' = [stream EXCEPT ![c].seen = stream[c].seen + 1]
          /\ wire' = [wire EXCEPT ![c] = w]
      BY <1>4 DEF SendNext
    <3>2. stream[c].seen + 1 \in Nat /\ stream \in [Clients -> Responses]
      BY <1>2 DEF FlowOK
    <3>3. \A k \in Nat :
            [stream EXCEPT ![c].seen = k]
              = [stream EXCEPT ![c] = [at |-> stream[c].at, seen |-> k, upto |-> stream[c].upto]]
      BY <3>2, Updates
    <3>4. [stream EXCEPT ![c].seen = stream[c].seen + 1] = [stream EXCEPT ![c] = s]
      BY <3>2, <3>3
    <3>5. QED
      BY <3>1, <3>4
  <2>4. QED
    BY <1>1, <1>2, <2>1, <2>2, <2>3, OneFlow
<1>5. CASE Check(c)
  <2> DEFINE at == IF status[Follows[c]] \in Terminal THEN "ended" ELSE "listing"
             s == [at |-> at, seen |-> stream[c].seen, upto |-> stream[c].upto]
  <2>1. s \in Responses /\ at # "closed"
    BY <1>2 DEF Responses
  <2>2. Flow(received[c], wire[c], n, s)
    BY <1>1, <1>2, <2>1, OtherFlow
  <2>3. stream' = [stream EXCEPT ![c] = s] /\ wire' = [wire EXCEPT ![c] = wire[c]]
    <3>1. stream' = [stream EXCEPT ![c].at = at] /\ wire' = wire
      BY <1>5 DEF Check, Goes
    <3>2. at \in {"ended", "listing"} /\ stream \in [Clients -> Responses]
      BY DEF FlowOK
    <3>3. [stream EXCEPT ![c].at = at] = [stream EXCEPT ![c] = s]
      BY <1>2, <3>2, Updates
    <3>4. QED
      BY <3>1, <3>3 DEF FlowOK
  <2>4. QED
    BY <1>1, <1>2, <2>1, <2>2, <2>3, OneFlow
<1>6. QED
  BY <1>3, <1>4, <1>5 DEF Respond

\* Every step of the streams.
LEMMA StreamFlow ==
  ASSUME JobsOK, FlowOK, StreamNext
  PROVE  FlowOK' /\ UNCHANGED vars
<1>1. PICK c \in Clients : Open(c) \/ Receive(c) \/ End(c) \/ Break(c) \/ Reload(c) \/ Respond(c)
  BY DEF StreamNext
<1>2. UNCHANGED vars
  BY <1>1 DEF Open, Receive, End, Break, Reload, Respond, List, SendNext, Check
<1>3. CASE End(c)
  <2>1. /\ wire' = [wire EXCEPT ![c] = <<>>] /\ received' = received
        /\ stream' = [stream EXCEPT ![c] = Closed]
    BY <1>3 DEF End, FlowOK
  <2>2. QED
    BY <1>2, <2>1, ClosedFlow
<1>4. CASE Break(c)
  BY <1>2, <1>4, ClosedFlow DEF Break
<1>5. CASE Reload(c)
  BY <1>2, <1>5, ClosedFlow DEF Reload
<1>6. CASE Open(c) \/ Receive(c) \/ Respond(c)
  BY <1>2, <1>6, OpenFlow, ReceiveFlow, RespondFlow
<1>7. QED
  BY <1>1, <1>3, <1>4, <1>5, <1>6

-----------------------------------------------------------------------------
(* The mail. *)

\* A step of the jobs or the streams leaves the mail alone.
LEMMA MailSame ==
  ASSUME Later, NotifierOK, UNCHANGED mailbox
  PROVE  NotifierOK'
<1>1. \A j \in Jobs : Notifies(j)'
  BY DEF Later, NotifierOK, Notifies, mailbox
<1>2. QED
  BY <1>1 DEF NotifierOK, mailbox

\* What NotifierOK says of one job.
LEMMA MailsOf ==
  ASSUME NotifierOK, NEW j \in Jobs
  PROVE  /\ notifier[j] \in Notifiers /\ notification[j] \in Notifications
         /\ mails[j] \in Seq(Addresses) /\ wanted[j] \in SUBSET Addresses
         /\ MailOf(notifier[j], notification[j], mails[j], wanted[j])
         /\ notifier[j].at # "none" => Published(j) /\ Wanting(reader) \subseteq wanted[j]
BY DEF NotifierOK, Notifies

\* An action of one notifier, which leaves those of the other jobs.
LEMMA OneMail ==
  ASSUME Later, NotifierOK, NEW j \in Jobs, NEW n \in Notifiers, NEW o \in Notifications,
         NEW m \in Seq(Addresses), NEW w \in SUBSET Addresses, reader' = reader,
         notifier' = [notifier EXCEPT ![j] = n], notification' = [notification EXCEPT ![j] = o],
         mails' = [mails EXCEPT ![j] = m], wanted' = [wanted EXCEPT ![j] = w],
         MailOf(n, o, m, w), Published(j)', Wanting(reader) \subseteq w
  PROVE  NotifierOK'
<1>1. /\ notifier' \in [Jobs -> Notifiers] /\ notification' \in [Jobs -> Notifications]
      /\ mails' \in [Jobs -> Seq(Addresses)] /\ wanted' \in [Jobs -> SUBSET Addresses]
      /\ notifier'[j] = n /\ notification'[j] = o /\ mails'[j] = m /\ wanted'[j] = w
  BY DEF NotifierOK
<1>2. \A i \in Jobs \ {j} : /\ notifier'[i] = notifier[i] /\ notification'[i] = notification[i]
                            /\ mails'[i] = mails[i] /\ wanted'[i] = wanted[i]
  BY DEF NotifierOK
<1>3. \A i \in Jobs \ {j} : Notifies(i)'
  BY <1>2 DEF Later, NotifierOK, Notifies
<1>4. Notifies(j)'
  BY <1>1 DEF Notifies
<1>5. QED
  BY <1>1, <1>3, <1>4 DEF NotifierOK

\* The worker's completion is committed, and it calls the notifier.
LEMMA NotifyMail ==
  ASSUME Later, NotifierOK, NEW j \in Jobs, Notify(j), notifier[j].at = "none", Published(j)'
  PROVE  NotifierOK'
<1> DEFINE n == [at |-> "asking", to |-> notifier[j].to]
<1>1. n \in Notifiers /\ [notifier[j] EXCEPT !.at = "asking"] = n
  BY MailsOf DEF Notifiers
<1>2. reader \in Readers /\ Wanting(reader) \in SUBSET Addresses
  BY DEF NotifierOK, Wanting, Readers
<1>3. MailOf(n, notification[j], mails[j], Wanting(reader))
  BY MailsOf DEF MailOf
<1>4. /\ notifier' = [notifier EXCEPT ![j] = n] /\ wanted' = [wanted EXCEPT ![j] = Wanting(reader)]
      /\ reader' = reader /\ notification' = [notification EXCEPT ![j] = notification[j]]
      /\ mails' = [mails EXCEPT ![j] = mails[j]]
  BY <1>1 DEF Notify, NotifierGoes, NotifierOK
<1>5. QED
  BY <1>1, <1>2, <1>3, <1>4, MailsOf, OneMail

\* recipient_for_job answers from the row the reader has by now.
LEMMA AskMail ==
  ASSUME Later, NotifierOK, NEW j \in Jobs, Ask(j)
  PROVE  NotifierOK'
<1> DEFINE n == IF Wanting(reader) = {} THEN [at |-> "done", to |-> notifier[j].to]
                ELSE [at |-> "claiming", to |-> reader.email]
<1>1. reader \in Readers /\ notifier[j].at = "asking"
  BY DEF NotifierOK, Ask
<1>2. [notifier[j] EXCEPT !.at = "done"] = [at |-> "done", to |-> notifier[j].to]
  BY MailsOf DEF Notifiers
<1>3. n \in Notifiers
  BY <1>1, MailsOf DEF Notifiers, Readers
<1>4. Wanting(reader) # {} => reader.email \in wanted[j]
  BY <1>1, MailsOf DEF Wanting
<1>5. MailOf(n, notification[j], mails[j], wanted[j])
  BY <1>1, <1>4, MailsOf DEF MailOf
<1>6. /\ notifier' = [notifier EXCEPT ![j] = n] /\ wanted' = [wanted EXCEPT ![j] = wanted[j]]
      /\ reader' = reader /\ notification' = [notification EXCEPT ![j] = notification[j]]
      /\ mails' = [mails EXCEPT ![j] = mails[j]]
  BY <1>2 DEF Ask, NotifierOK
<1>7. Published(j)'
  BY <1>1, MailsOf DEF Later
<1>8. QED
  BY <1>1, <1>3, <1>5, <1>6, <1>7, MailsOf, OneMail

\* The other steps of a notifier that runs: at is where it goes, o the row and
\* m the mail it leaves.
LEMMA GoesMail ==
  ASSUME Later, NotifierOK, NEW j \in Jobs, notifier[j].at # "none",
         NEW at \in {"sending", "marking", "done"}, NotifierGoes(j, at),
         NEW o \in Notifications, notification' = [notification EXCEPT ![j] = o],
         NEW m \in Seq(Addresses), mails' = [mails EXCEPT ![j] = m],
         MailOf([at |-> at, to |-> notifier[j].to], o, m, wanted[j]),
         reader' = reader, wanted' = wanted
  PROVE  NotifierOK'
<1> DEFINE n == [at |-> at, to |-> notifier[j].to]
<1>1. n \in Notifiers /\ [notifier[j] EXCEPT !.at = at] = n
  BY MailsOf DEF Notifiers
<1>2. /\ notifier' = [notifier EXCEPT ![j] = n]
      /\ wanted' = [wanted EXCEPT ![j] = wanted[j]]
  BY <1>1 DEF NotifierGoes, NotifierOK
<1>3. Published(j)'
  BY MailsOf DEF Later
<1>4. QED
  BY <1>1, <1>2, <1>3, MailsOf, OneMail

\* The row is claimed before the mail is sent, or found claimed.
LEMMA ClaimMailOK ==
  ASSUME Later, NotifierOK, NEW j \in Jobs, ClaimMail(j)
  PROVE  NotifierOK'
<1>1. /\ notifier[j].at = "claiming" /\ reader' = reader /\ wanted' = wanted
      /\ mails' = [mails EXCEPT ![j] = mails[j]]
  BY DEF ClaimMail, NotifierOK
<1>2. CASE notification[j] = "none"
  <2>1. notification' = [notification EXCEPT ![j] = "claimed"] /\ NotifierGoes(j, "sending")
    BY <1>2 DEF ClaimMail
  <2>2. MailOf([at |-> "sending", to |-> notifier[j].to], "claimed", mails[j], wanted[j])
    BY <1>1, MailsOf DEF MailOf
  <2>3. "claimed" \in Notifications
    BY DEF Notifications
  <2>4. QED
    BY <1>1, <2>1, <2>2, <2>3, MailsOf, GoesMail
<1>3. CASE notification[j] # "none"
  <2>1. notification' = [notification EXCEPT ![j] = notification[j]] /\ NotifierGoes(j, "done")
    BY <1>3 DEF ClaimMail, NotifierOK
  <2>2. MailOf([at |-> "done", to |-> notifier[j].to], notification[j], mails[j], wanted[j])
    BY <1>1, MailsOf DEF MailOf
  <2>3. QED
    BY <1>1, <2>1, <2>2, MailsOf, GoesMail
<1>4. QED
  BY <1>2, <1>3

\* The mail is sent, or the server raises.
LEMMA SendMailOK ==
  ASSUME Later, NotifierOK, NEW j \in Jobs, SendMail(j) \/ SendRaises(j)
  PROVE  NotifierOK'
<1>1. /\ notifier[j].at = "sending" /\ reader' = reader /\ wanted' = wanted
      /\ notification' = [notification EXCEPT ![j] = notification[j]]
  BY DEF SendMail, SendRaises, NotifierOK
<1>2. mails[j] = <<>> /\ notifier[j].to \in wanted[j] /\ wanted[j] \subseteq Addresses
  BY <1>1, MailsOf DEF MailOf
<1>3. CASE Mailed(j) /\ (NotifierGoes(j, "marking") \/ NotifierGoes(j, "done"))
  <2>1. <<notifier[j].to>> \in Seq(Addresses) /\ Append(<<>>, notifier[j].to) = <<notifier[j].to>>
    BY <1>2
  <2>2. mails' = [mails EXCEPT ![j] = <<notifier[j].to>>]
    BY <1>2, <1>3, <2>1 DEF Mailed
  <2>3. \A at \in {"marking", "done"} :
          MailOf([at |-> at, to |-> notifier[j].to], notification[j], <<notifier[j].to>>, wanted[j])
    BY <1>2 DEF MailOf
  <2>4. QED
    BY <1>1, <1>3, <2>1, <2>2, <2>3, MailsOf, GoesMail
<1>4. CASE mails' = mails /\ NotifierGoes(j, "done")
  <2>1. mails' = [mails EXCEPT ![j] = mails[j]]
    BY <1>4 DEF NotifierOK
  <2>2. MailOf([at |-> "done", to |-> notifier[j].to], notification[j], mails[j], wanted[j])
    BY <1>1, MailsOf DEF MailOf
  <2>3. QED
    BY <1>1, <1>4, <2>1, <2>2, MailsOf, GoesMail
<1>5. QED
  BY <1>3, <1>4 DEF SendMail, SendRaises

\* The delivery is recorded, or the notifier is gone.
LEMMA MarkMail ==
  ASSUME Later, NotifierOK, NEW j \in Jobs, MarkDelivered(j) \/ NotifierFails(j)
  PROVE  NotifierOK'
<1> DEFINE o == IF MarkDelivered(j) THEN "delivered" ELSE notification[j]
<1>1. /\ notifier[j].at # "none" /\ reader' = reader /\ wanted' = wanted
      /\ mails' = [mails EXCEPT ![j] = mails[j]] /\ NotifierGoes(j, "done")
      /\ MarkDelivered(j) => notifier[j].at = "marking"
  BY DEF MarkDelivered, NotifierFails, NotifierOK
<1>2. notification' = [notification EXCEPT ![j] = o] /\ o \in Notifications
  BY MailsOf DEF MarkDelivered, NotifierFails, NotifierOK, Notifications
<1>3. MailOf([at |-> "done", to |-> notifier[j].to], o, mails[j], wanted[j])
  BY <1>1, MailsOf DEF MailOf
<1>4. QED
  BY <1>1, <1>2, <1>3, MailsOf, GoesMail

\* The row of the reader changes: what it wants now is wanted of every
\* notifier that runs, and of no other.
LEMMA BecomesMail ==
  ASSUME Later, NotifierOK, NEW r \in Readers, Becomes(r)
  PROVE  NotifierOK'
<1>1. Wanting(r) \in SUBSET Addresses
  BY DEF Wanting, Readers
<1>2. /\ reader' = r /\ UNCHANGED <<notification, notifier, mails>>
      /\ wanted' \in [Jobs -> SUBSET Addresses]
      /\ \A j \in Jobs : wanted'[j] = IF notifier[j].at = "none" THEN {}
                                     ELSE wanted[j] \cup Wanting(r)
  BY <1>1 DEF Becomes, NotifierOK
<1>3. ASSUME NEW j \in Jobs
      PROVE  Notifies(j)'
  <2>1. MailOf(notifier[j], notification[j], mails[j], wanted'[j])
    BY <1>2, MailsOf DEF MailOf
  <2>2. notifier[j].at # "none" => Published(j)' /\ Wanting(r) \subseteq wanted'[j]
    BY <1>2, MailsOf DEF Later
  <2>3. QED
    BY <1>2, <2>1, <2>2 DEF Notifies
<1>4. QED
  BY <1>2, <1>3 DEF NotifierOK

\* Every step of the mail.
LEMMA MailFlow ==
  ASSUME JobsOK, NotifierOK, MailNext
  PROVE  NotifierOK' /\ UNCHANGED vars
<1>1. UNCHANGED vars
  BY DEF MailNext, Ask, ClaimMail, SendMail, SendRaises, MarkDelivered, NotifierFails,
         SetPreference, Unsubscribe, SignIn, Becomes
<1>2. Later
  BY <1>1, SameLater
<1>3. CASE \E j \in Jobs : \/ Ask(j) \/ ClaimMail(j) \/ SendMail(j) \/ SendRaises(j)
                          \/ MarkDelivered(j) \/ NotifierFails(j)
  BY <1>1, <1>2, <1>3, AskMail, ClaimMailOK, SendMailOK, MarkMail
<1>4. CASE \E r \in Readers : Becomes(r)
  BY <1>1, <1>2, <1>4, BecomesMail
<1>5. reader \in Readers
  BY DEF NotifierOK
<1>6. CASE \/ \E wants \in BOOLEAN : SetPreference(wants)
           \/ Unsubscribe
           \/ \E email \in Addresses \cup {NoAddress} : SignIn(email)
  <2>1. \A wants \in BOOLEAN : [reader EXCEPT !.wants = wants] \in Readers
    BY <1>5 DEF Readers
  <2>2. \A email \in Addresses \cup {NoAddress} :
          [reader EXCEPT !.email = IF email = NoAddress THEN reader.email ELSE email] \in Readers
    BY <1>5 DEF Readers
  <2>3. \E r \in Readers : Becomes(r)
    BY <1>6, <2>1, <2>2 DEF SetPreference, Unsubscribe, SignIn
  <2>4. QED
    BY <1>4, <2>3
<1>7. QED
  BY <1>1, <1>3, <1>6 DEF MailNext

-----------------------------------------------------------------------------
(* The composition. *)

\* The initial states.
LEMMA InitFeed ==
  ASSUME FeedInit
  PROVE  FeedInv
<1>1. JobsOK
  BY DEF FeedInit, Init, JobsOK
<1>2. FlowOK
  <2>1. ASSUME NEW c \in Clients
        PROVE  Flow(<<>>, <<>>, Len(History(c)), Closed)
    <3>1. Len(History(c)) = 0
      BY StreamAssumption DEF FeedInit, Init, History
    <3>2. QED
      BY <3>1 DEF Flow, Closed
  <2>2. Closed \in Responses
    BY DEF Closed, Responses
  <2>3. QED
    BY <2>1, <2>2 DEF FeedInit, InitStreams, FlowOK, Flows
<1>3. NotifierOK
  BY DEF FeedInit, InitMail, NotifierOK, Notifies, MailOf, Readers, Notifiers, Notifications
<1>4. QED
  BY <1>1, <1>2, <1>3 DEF FeedInv

\* Every step of the composition.
LEMMA NextFeed ==
  ASSUME FeedInv, [FeedNext]_feedVars
  PROVE  FeedInv'
<1>1. JobsOK /\ FlowOK /\ NotifierOK
  BY DEF FeedInv
<1>2. CASE \E j \in Jobs : Move(j)
  <2>1. JobsOK' /\ Later
    BY <1>1, <1>2, AdmitLater, AdvanceLater, OvertakeLater DEF Move
  <2>2. UNCHANGED feeds /\ UNCHANGED mailbox
    BY <1>2 DEF Move
  <2>3. QED
    BY <1>1, <2>1, <2>2, FeedsSame, MailSame DEF FeedInv
<1>3. CASE \E j \in Jobs : Succeed(j) \/ SucceedUnheard(j)
  <2>1. PICK j \in Jobs : Succeed(j) \/ SucceedUnheard(j)
    BY <1>3
  <2>2. Advance(j, "completed") /\ UNCHANGED feeds
    BY <2>1 DEF Succeed, SucceedUnheard
  <2>3. JobsOK' /\ Later
    <3>1. "completed" \in EventType
      BY DEF EventType, StatusAfter
    <3>2. QED
      BY <1>1, <2>2, <3>1, AdvanceLater
  <2>4. Published(j)' /\ ~Published(j)
    <3>1. status[j] \notin Terminal
      BY <2>2, NothingAfterEnd DEF Advance
    <3>2. /\ status'[j] = StatusAfter["completed"] /\ published'[j]
          /\ events'[j] = Append(events[j], "completed") /\ events[j] \in Seq(EventType)
      BY <1>1, <2>2 DEF Advance, JobsOK
    <3>3. StatusAfter["completed"] \in Terminal
      BY DEF StatusAfter, Terminal
    <3>4. \E i \in DOMAIN events'[j] : events'[j][i] = "completed"
      <4>1. Len(events[j]) + 1 \in DOMAIN events'[j]
            /\ events'[j][Len(events[j]) + 1] = "completed"
        BY <3>2
      <4>2. QED
        BY <4>1
    <3>5. QED
      BY <3>1, <3>2, <3>3, <3>4 DEF Published, Completed, Terminal
  <2>5. notifier[j].at = "none"
    BY <1>1, <2>4, MailsOf
  <2>6. NotifierOK'
    BY <1>1, <2>1, <2>3, <2>4, <2>5, NotifyMail, MailSame DEF Succeed, SucceedUnheard
  <2>7. QED
    BY <1>1, <2>2, <2>3, <2>6, FeedsSame DEF FeedInv
<1>4. CASE StreamNext /\ UNCHANGED <<mailbox, completing>>
  <2>1. JobsOK' /\ Later /\ FlowOK'
    BY <1>1, <1>4, StreamFlow, SameLater
  <2>2. QED
    BY <1>1, <1>4, <2>1, MailSame DEF FeedInv
<1>5. CASE MailNext /\ UNCHANGED <<feeds, completing>>
  <2>1. JobsOK' /\ Later /\ NotifierOK'
    BY <1>1, <1>5, MailFlow, SameLater
  <2>2. QED
    BY <1>1, <1>5, <2>1, FeedsSame DEF FeedInv
<1>6. CASE UNCHANGED <<vars, feeds, mailbox>>
  <2>1. JobsOK' /\ Later
    BY <1>1, <1>6, SameLater
  <2>2. QED
    BY <1>1, <1>6, <2>1, FeedsSame, MailSame DEF FeedInv
<1>7. QED
  BY <1>2, <1>3, <1>4, <1>5, <1>6 DEF FeedNext, feedVars, Rendered, LoseRace

\* The invariant holds in every reachable state.
LEMMA FeedSafe == FeedSpec => []FeedInv
<1>1. FeedInit => FeedInv
  BY InitFeed
<1>2. FeedInv /\ [FeedNext]_feedVars => FeedInv'
  BY NextFeed
<1>3. QED
  BY <1>1, <1>2, PTL DEF FeedSpec

-----------------------------------------------------------------------------
(* Theorems. *)

\* Every client receives the history of its job from the first event on, each
\* event once and in order, over any number of connections that break.
THEOREM ReceivedInOrder == FeedSpec => []InOrder
<1>1. FeedInv => InOrder
  <2> SUFFICES ASSUME FeedInv, NEW c \in Clients, NEW i \in DOMAIN received[c]
               PROVE  received[c][i] = i /\ i \in DOMAIN History(c)
    BY DEF InOrder
  <2>1. /\ wire[c] \in Seq(Nat) /\ received[c] \in Seq(Nat) /\ Len(History(c)) \in Nat
        /\ stream[c] \in Responses
        /\ Flow(received[c], wire[c], Len(History(c)), stream[c])
    BY FlowOf DEF FeedInv
  <2>2. History(c) \in Seq(EventType)
    BY StreamAssumption DEF FeedInv, JobsOK, History
  <2>3. received[c][i] = i /\ i \in 1 .. Len(History(c))
    BY <2>1, ReceivedFlow
  <2>4. QED
    BY <2>2, <2>3
<1>2. QED
  BY <1>1, FeedSafe, PTL

\* A finished book is worth one mail, never two, to an address at which its
\* reader wanted it, however the mail server and the reader behave meanwhile.
THEOREM MailedOnce == FeedSpec => []OneWantedMail
<1>1. FeedInv => OneWantedMail
  <2> SUFFICES ASSUME FeedInv, NEW j \in Jobs
               PROVE  /\ Len(mails[j]) <= 1
                      /\ \A i \in DOMAIN mails[j] : mails[j][i] \in wanted[j]
                      /\ notification[j] = "delivered" => mails[j] # <<>>
    BY DEF OneWantedMail
  <2>1. /\ mails[j] = <<>> \/ \E a \in wanted[j] : mails[j] = <<a>>
        /\ notification[j] = "delivered" => mails[j] # <<>>
    BY MailsOf DEF FeedInv, MailOf
  <2>2. CASE mails[j] = <<>>
    BY <2>1, <2>2
  <2>3. ASSUME NEW a \in wanted[j], mails[j] = <<a>>
        PROVE  Len(mails[j]) <= 1 /\ \A i \in DOMAIN mails[j] : mails[j][i] \in wanted[j]
    <3>1. Len(<<a>>) = 1 /\ DOMAIN <<a>> = {1} /\ <<a>>[1] = a
      OBVIOUS
    <3>2. QED
      BY <2>3, <3>1
  <2>4. QED
    BY <2>1, <2>2, <2>3
<1>2. QED
  BY <1>1, FeedSafe, PTL

\* Whoever hears of success, by stream or by mail, hears of a completion that was
\* committed together with its artifact, whatever it raced with and even if a
\* claim overtakes the job later.
THEOREM HeardIsCommitted == FeedSpec => []NewsIsCommitted
<1>1. FeedInv => NewsIsCommitted
  <2> SUFFICES ASSUME FeedInv, NEW j \in Jobs
               PROVE  /\ mails[j] # <<>> => Completed(j)
                      /\ \A c \in Clients : Follows[c] = j /\ HeardOfSuccess(c) => Completed(j)
    BY DEF NewsIsCommitted
  <2>1. mails[j] # <<>> => Completed(j)
    BY MailsOf DEF FeedInv, MailOf, Published
  <2>2. ASSUME NEW c \in Clients, Follows[c] = j, HeardOfSuccess(c)
        PROVE  Completed(j)
    <3>1. \E i \in DOMAIN events[j] : events[j][i] = "completed"
      BY <2>2 DEF HeardOfSuccess, History
    <3>2. QED
      BY <3>1 DEF FeedInv, JobsOK, Published
  <2>3. QED
    BY <2>1, <2>2
<1>2. QED
  BY <1>1, FeedSafe, PTL
=============================================================================
