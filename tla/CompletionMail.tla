---------------------------- MODULE CompletionMail ----------------------------
(***************************************************************************)
(* The mail that tells a reader of a finished book: CompletionNotifier of  *)
(* notifications/service.py, which runs in the container of the attempt    *)
(* whose completion was committed, against the reader's preferences, which *)
(* api/notifications.py and every sign-in change meanwhile.  The notifier  *)
(* asks, claims, sends and marks in four calls, without a transaction; the *)
(* mail server may accept a mail and not say so.                           *)
(*                                                                         *)
(* One reader owns all jobs here; notifiers of several readers share       *)
(* nothing.                                                                *)
(***************************************************************************)
EXTENDS JobLifecycle

CONSTANTS Addresses,
          NoAddress

ASSUME MailAssumption == NoAddress \notin Addresses

VARIABLES reader,        \* the row of table identities: email, notify_by_email
          notification,  \* per job, its row in table job_notifications
          notifier,      \* per job, the notifier of the attempt that completed it
          mails,         \* per job, the addresses the mail server sent mail to
          wanted         \* per job, the addresses at which the reader has wanted
                         \* mail since the notifier began (for the properties)

mailbox == <<reader, notification, notifier, mails, wanted>>

InitMail ==
  /\ reader = [email |-> NoAddress, wants |-> TRUE]
  /\ notification = [j \in Jobs |-> "none"]
  /\ notifier = [j \in Jobs |-> [at |-> "none", to |-> NoAddress]]
  /\ mails = [j \in Jobs |-> <<>>]
  /\ wanted = [j \in Jobs |-> {}]

Wanting(r) == IF r.wants /\ r.email # NoAddress THEN {r.email} ELSE {}

NotifierGoes(j, at) == notifier' = [notifier EXCEPT ![j].at = at]

-----------------------------------------------------------------------------
(* The notifier. *)

\* completed(job) is called.
Notify(j) ==
  /\ NotifierGoes(j, "asking")
  /\ wanted' = [wanted EXCEPT ![j] = Wanting(reader)]
  /\ UNCHANGED <<reader, notification, mails>>

\* recipient_for_job.
Ask(j) ==
  /\ notifier[j].at = "asking"
  /\ notifier' = [notifier EXCEPT ![j] = IF Wanting(reader) = {} THEN [@ EXCEPT !.at = "done"]
                                         ELSE [at |-> "claiming", to |-> reader.email]]
  /\ UNCHANGED <<vars, reader, notification, mails, wanted>>

\* The row is inserted before the mail is sent.  Another notifier of the job would
\* find it; there is none while a job is completed once at most.
ClaimMail(j) ==
  /\ notifier[j].at = "claiming"
  /\ IF notification[j] = "none"
     THEN /\ notification' = [notification EXCEPT ![j] = "claimed"]
          /\ NotifierGoes(j, "sending")
     ELSE NotifierGoes(j, "done") /\ UNCHANGED notification
  /\ UNCHANGED <<vars, reader, mails, wanted>>

Mailed(j) == mails' = [mails EXCEPT ![j] = Append(@, notifier[j].to)]

SendMail(j) ==
  /\ notifier[j].at = "sending"
  /\ Mailed(j)
  /\ NotifierGoes(j, "marking")
  /\ UNCHANGED <<vars, reader, notification, wanted>>

\* Mutant of SendRaises: a mail that may not have been accepted is sent again.
SendRaisesAndRetries(j) ==
  /\ notifier[j].at = "sending" /\ Len(mails[j]) < 2
  /\ Mailed(j) \/ UNCHANGED mails
  /\ NotifierGoes(j, "sending")
  /\ UNCHANGED <<vars, reader, notification, wanted>>

\* The mail server raises, and may have accepted the mail; it is only logged.
SendRaises(j) ==
  /\ notifier[j].at = "sending"
  /\ Mailed(j) \/ UNCHANGED mails
  /\ NotifierGoes(j, "done")
  /\ UNCHANGED <<vars, reader, notification, wanted>>

MarkDelivered(j) ==
  /\ notifier[j].at = "marking"
  /\ notification' = [notification EXCEPT ![j] = "delivered"]
  /\ NotifierGoes(j, "done")
  /\ UNCHANGED <<vars, reader, mails, wanted>>

\* The container is gone, or the database raises.
NotifierFails(j) ==
  /\ notifier[j].at \in {"asking", "claiming", "sending", "marking"}
  /\ NotifierGoes(j, "done")
  /\ UNCHANGED <<vars, reader, notification, mails, wanted>>

-----------------------------------------------------------------------------
(* The reader. *)

\* The row of the reader changes.
Becomes(r) ==
  /\ r # reader
  /\ reader' = r
  /\ wanted' = [j \in Jobs |-> IF notifier[j].at = "none" THEN {} ELSE wanted[j] \cup Wanting(r)]
  /\ UNCHANGED <<vars, notification, notifier, mails>>

\* PATCH /v1/notifications.
SetPreference(wants) == Becomes([reader EXCEPT !.wants = wants])

\* The link in a mail needs no session, and only ever turns mail off.
Unsubscribe == /\ \E j \in Jobs : mails[j] # <<>>
               /\ Becomes([reader EXCEPT !.wants = FALSE])

\* user_id_for_subject; a session that carries no address keeps the stored one.
SignIn(email) ==
  Becomes([reader EXCEPT !.email = IF email = NoAddress THEN @ ELSE email])

-----------------------------------------------------------------------------

MailNext ==
  \/ \E j \in Jobs : Ask(j) \/ ClaimMail(j) \/ SendMail(j) \/ SendRaises(j) \/ MarkDelivered(j)
                     \/ NotifierFails(j)
  \/ \E wants \in BOOLEAN : SetPreference(wants)
  \/ Unsubscribe
  \/ \E email \in Addresses \cup {NoAddress} : SignIn(email)

-----------------------------------------------------------------------------
(* Properties. *)

\* "A finished book is worth one email, never two" (notifications/service.py:41),
\* also when the mail server raises after it accepted the mail; the mail goes to
\* an address at which the reader wanted it at some time since the book was
\* finished; and a delivery is recorded only of a mail that was sent.
OneWantedMail ==
  \A j \in Jobs : /\ Len(mails[j]) <= 1
                  /\ \A i \in DOMAIN mails[j] : mails[j][i] \in wanted[j]
                  /\ notification[j] = "delivered" => mails[j] # <<>>
=============================================================================
