---------------------------- MODULE CreditLedger ----------------------------
(***************************************************************************)
(* The credits of hosted accounts (storage/postgres.py, credit_lots.py,    *)
(* billing/stripe.py): allowances and paid packs come in as lots,          *)
(* admissions reserve credits of particular lots, the end of a job         *)
(* consumes or returns them, and a ledger records every change once per    *)
(* reference.                                                              *)
(*                                                                         *)
(* Every transaction on credits first locks the row of its account, hence  *)
(* is one step. An admission is two, its readings under the lock and the   *)
(* rest, to show what the lock is for. A job is the request that may       *)
(* create it: a client that repeats a request has another member of Jobs   *)
(* with the same key and specification.                                    *)
(***************************************************************************)
EXTENDS Integers, Sequences, FiniteSets, Functions

CONSTANTS Accounts,
          Jobs,
          Request,      \* per job: account, idempotency key, specification, price
          NoKey,        \* the key of a request without Idempotency-Key
          Payments,     \* Stripe Checkout Sessions
          Session,      \* per session: account and credits of its pack
          Allowances,   \* values KENKUI_BETA_CREDITS takes over time
          OldAllowance, \* its value when lots were introduced
          Migrated,     \* accounts that existed then
          OldJobs,      \* their jobs that were unfinished then
          ActiveLimit   \* unfinished jobs an account may have

OwnJobs(S, a) == {j \in S : Request[j].account = a}

\* Credits that a set of jobs costs together.
Cost(S) == SumFunction([j \in S |-> Request[j].price])

ASSUME RequestAssumption ==
  /\ IsFiniteSet(Jobs)
  /\ \A j \in Jobs : Request[j].account \in Accounts /\ Request[j].price \in Nat \ {0}
  /\ \A p \in Payments : Session[p].account \in Accounts /\ Session[p].credits \in Nat \ {0}

ASSUME LimitAssumption == ActiveLimit \in Nat \ {0}

ASSUME MigrationAssumption ==
  /\ Allowances \subseteq Nat \ {0} /\ OldAllowance \in Allowances
  /\ Migrated \subseteq Accounts /\ OldJobs \subseteq Jobs
  /\ \A j \in OldJobs : Request[j].account \in Migrated
  /\ \A a \in Migrated : /\ Cost(OwnJobs(OldJobs, a)) <= OldAllowance
                         /\ Cardinality(OwnJobs(OldJobs, a)) <= ActiveLimit
  /\ \A i, k \in OldJobs : /\ Request[i].account = Request[k].account
                           /\ Request[i].key = Request[k].key /\ Request[i].key # NoKey
                           => i = k

VARIABLES balance,       \* available_credits of each account
          ledger,        \* credit_ledger_entries: credits of each reference used
          lots,          \* credit_lots of each account, by sequence
          allocation,    \* credit_allocations: credits each job takes of each lot
          authorization, \* status in credit_authorizations
          idempotency,   \* job_idempotency: the jobs with a row
          outcome,       \* how each request was answered
          admission,     \* per account, the admission holding its lock, if any
          allowance,     \* KENKUI_BETA_CREDITS
          session,       \* state of each Checkout Session at Stripe
          sent           \* webhook events Stripe sends and may repeat

requests == <<idempotency, outcome, admission>>
stripe == <<session, sent>>
vars == <<balance, ledger, lots, allocation, authorization, requests, allowance, stripe>>

References ==
  ({"grant"} \X Accounts) \cup ({"stripe"} \X Payments)
    \cup ({"reservation", "settlement", "release"} \X Jobs)

\* The account column of an entry.
LedgerAccount(r) == CASE r[1] = "grant"  -> r[2]
                      [] r[1] = "stripe" -> Session[r[2]].account
                      [] OTHER           -> Request[r[2]].account

NewLot(kind, credits) ==
  [kind |-> kind, credited |-> credits, reserved |-> 0, consumed |-> 0]

-----------------------------------------------------------------------------
(* The tables as the migration to lots leaves them. *)

\* 0004_credit_lots: the credits an account has left and those its unfinished
\* jobs reserve become one lot, and the reservations its allocations.
Init ==
  /\ balance = [a \in Accounts |->
        IF a \in Migrated THEN OldAllowance - Cost(OwnJobs(OldJobs, a)) ELSE 0]
  /\ ledger = [r \in ({"grant"} \X Migrated) \cup ({"reservation"} \X OldJobs) |->
        IF r[1] = "grant" THEN OldAllowance ELSE - Request[r[2]].price]
  /\ lots = [a \in Accounts |->
        IF a \in Migrated
        THEN <<[NewLot("legacy", OldAllowance) EXCEPT
                  !.reserved = Cost(OwnJobs(OldJobs, a))]>>
        ELSE <<>>]
  /\ allocation = [j \in Jobs |->
        IF j \in OldJobs THEN <<Request[j].price>> ELSE <<>>]
  /\ authorization = [j \in Jobs |-> IF j \in OldJobs THEN "reserved" ELSE "none"]
  /\ idempotency = {j \in OldJobs : Request[j].key # NoKey}
  /\ outcome = [j \in Jobs |-> IF j \in OldJobs THEN "admitted" ELSE "unasked"]
  /\ admission = [a \in Accounts |-> {}]
  /\ allowance = OldAllowance
  /\ session = [p \in Payments |-> "none"]
  /\ sent = {}

Unlocked(a) == admission[a] = {}

\* The UNIQUE reference: an entry is inserted once and stays.
Record(r, credits) ==
  /\ r \notin DOMAIN ledger
  /\ ledger' = [x \in DOMAIN ledger \cup {r} |-> IF x = r THEN credits ELSE ledger[x]]

-----------------------------------------------------------------------------
(* Credits coming in. *)

\* _grant of a reference not used before; a reference used before changes
\* nothing, whether it is a replay or payment_reference_conflict.
Grant(a, r, kind, credits) ==
  /\ Unlocked(a)
  /\ Record(r, credits)
  /\ lots' = [lots EXCEPT ![a] = Append(@, NewLot(kind, credits))]
  /\ balance' = [balance EXCEPT ![a] = @ + credits]
  /\ UNCHANGED <<allocation, authorization, requests, allowance>>

\* Mutant of Visit: a changed allowance replaces the one granted.
VisitTopsUp(a) ==
  /\ Unlocked(a)
  /\ <<"grant", a>> \in DOMAIN ledger => ledger[<<"grant", a>>] < allowance
  /\ ledger' = [x \in DOMAIN ledger \cup {<<"grant", a>>} |->
                  IF x = <<"grant", a>> THEN allowance ELSE ledger[x]]
  /\ UNCHANGED <<balance, lots, allocation, authorization, requests, allowance, stripe>>

\* account_for_identity, which every request to a billed route calls.
Visit(a) ==
  /\ Grant(a, <<"grant", a>>, "grant", allowance)
  /\ UNCHANGED stripe

\* The call succeeds: the allowance granted is the one configured.
Served(a) == /\ <<"grant", a>> \in DOMAIN ledger
             /\ ledger[<<"grant", a>>] = allowance

\* The server is deployed with another allowance.
Redeploy ==
  /\ \E c \in Allowances \ {allowance} : allowance' = c
  /\ UNCHANGED <<balance, ledger, lots, allocation, authorization, requests, stripe>>

\* POST /billing/checkout
Checkout(p) ==
  /\ session[p] = "none"
  /\ Served(Session[p].account)
  /\ session' = [session EXCEPT ![p] = "open"]
  /\ UNCHANGED <<balance, ledger, lots, allocation, authorization, requests, allowance, sent>>

Send(p, type) ==
  sent' = sent \cup {[session |-> p, type |-> type, status |-> session'[p]]}

\* The customer completes the session and pays at once or later.
Complete(p) ==
  /\ session[p] = "open"
  /\ \E status \in {"paid", "unpaid"} : session' = [session EXCEPT ![p] = status]
  /\ Send(p, "completed")
  /\ UNCHANGED <<balance, ledger, lots, allocation, authorization, requests, allowance>>

\* The later payment succeeds.
AsyncPayment(p) ==
  /\ session[p] = "unpaid"
  /\ session' = [session EXCEPT ![p] = "paid"]
  /\ Send(p, "async_payment_succeeded")
  /\ UNCHANGED <<balance, ledger, lots, allocation, authorization, requests, allowance>>

\* Mutant of Deliver: only completed sessions are fulfilled.
DeliverCompleted(e) ==
  /\ e.type = "completed" /\ e.status = "paid"
  /\ Grant(Session[e.session].account, <<"stripe", e.session>>, "purchase",
           Session[e.session].credits)
  /\ UNCHANGED stripe

\* Mutant of Deliver: a repeated event is credited again.
DeliverAgain(e) ==
  LET a == Session[e.session].account
      c == Session[e.session].credits IN
  /\ e.status = "paid"
  /\ Unlocked(a)
  /\ ledger' = [r \in DOMAIN ledger \cup {<<"stripe", e.session>>} |->
                  IF r = <<"stripe", e.session>> THEN c ELSE ledger[r]]
  /\ lots' = [lots EXCEPT ![a] = Append(@, NewLot("purchase", c))]
  /\ balance' = [balance EXCEPT ![a] = @ + c]
  /\ UNCHANGED <<allocation, authorization, requests, allowance, stripe>>

\* The webhook: an event that does not say the session is paid is ignored.
Deliver(e) ==
  /\ e.status = "paid"
  /\ Grant(Session[e.session].account, <<"stripe", e.session>>, "purchase",
           Session[e.session].credits)
  /\ UNCHANGED stripe

-----------------------------------------------------------------------------
(* Lots. *)

Available(lot) == lot.credited - lot.reserved - lot.consumed

\* Mutant of Precedes: the newest lot first.
PrecedesNewest(ls, i, k) == i > k

\* Lots that are not purchases come first, then the older one.
Precedes(ls, i, k) ==
  IF (ls[i].kind = "purchase") = (ls[k].kind = "purchase")
  THEN i < k
  ELSE ls[k].kind = "purchase"

\* What the lots before the k-th leave of a debt.
Remaining(ls, credits, k) ==
  LET ahead == {i \in DOMAIN ls : Precedes(ls, i, k)}
  IN  credits - SumFunctionOnSet([i \in DOMAIN ls |-> Available(ls[i])], ahead)

\* PostgresCreditLots.reserve: each lot gives what it has until nothing remains.
Shares(ls, credits) ==
  LET giving == {k \in DOMAIN ls : Remaining(ls, credits, k) > 0 /\ Available(ls[k]) > 0}
  IN  [k \in giving |-> IF Available(ls[k]) < Remaining(ls, credits, k)
                        THEN Available(ls[k])
                        ELSE Remaining(ls, credits, k)]

ReserveLots(ls, shares) ==
  [k \in DOMAIN ls |->
     IF k \in DOMAIN shares THEN [ls[k] EXCEPT !.reserved = @ + shares[k]] ELSE ls[k]]

\* Mutant of FinalizeLots: settled credits stay reserved as well.
FinalizeLotsOnce(ls, shares, status) ==
  [k \in DOMAIN ls |->
     IF k \notin DOMAIN shares THEN ls[k]
     ELSE IF status = "settled" THEN [ls[k] EXCEPT !.consumed = @ + shares[k]]
     ELSE [ls[k] EXCEPT !.reserved = @ - shares[k]]]

\* PostgresCreditLots.finalize
FinalizeLots(ls, shares, status) ==
  [k \in DOMAIN ls |->
     IF k \notin DOMAIN shares THEN ls[k]
     ELSE [ls[k] EXCEPT !.reserved = @ - shares[k],
                        !.consumed = IF status = "settled" THEN @ + shares[k] ELSE @]]

-----------------------------------------------------------------------------
(* Admission. *)

\* The unfinished jobs: a job reaches its end in the transaction of Finalize.
Active(a) == {j \in Jobs : Request[j].account = a /\ authorization[j] = "reserved"}

\* The job of the row with the key of request j. Keys are hashed with the owner.
SameKey(j) == {i \in idempotency : /\ Request[i].account = Request[j].account
                                   /\ Request[i].key = Request[j].key}

\* Mutant of BeginAdmission: the account row is not locked.
BeginUnlocked(j) ==
  /\ outcome[j] = "unasked"
  /\ LET a == Request[j].account IN
     /\ Served(a)
     /\ \A r \in admission[a] : r.job # j
     /\ admission' = [admission EXCEPT ![a] =
           @ \cup {[job |-> j, replayed |-> SameKey(j), active |-> Cardinality(Active(a))]}]
  /\ UNCHANGED <<balance, ledger, lots, allocation, authorization, idempotency, outcome,
                 allowance, stripe>>

\* admit locks the account, then looks for the key and counts unfinished jobs.
BeginAdmission(j) ==
  /\ outcome[j] = "unasked"
  /\ LET a == Request[j].account IN
     /\ Served(a)
     /\ Unlocked(a)
     /\ admission' = [admission EXCEPT ![a] =
           {[job |-> j, replayed |-> SameKey(j), active |-> Cardinality(Active(a))]}]
  /\ UNCHANGED <<balance, ledger, lots, allocation, authorization, idempotency, outcome,
                 allowance, stripe>>

\* The early returns and errors of admit, "admitted" if there is none.
Verdict(r) ==
  LET a == Request[r.job].account
      c == Request[r.job].price IN
  IF r.replayed # {}
  THEN IF \E i \in r.replayed : Request[i].spec = Request[r.job].spec
       THEN "replayed" ELSE "idempotency_conflict"
  ELSE IF r.active >= ActiveLimit THEN "active_job_limit"
  ELSE IF balance[a] < c THEN "insufficient_credits"
  ELSE IF SumFunction(Shares(lots[a], c)) # c THEN "credit_lot_balance_mismatch"
  ELSE "admitted"

Unlock(r) == LET a == Request[r.job].account
             IN  admission' = [admission EXCEPT ![a] = @ \ {r}]

\* The transaction ends without a job: a replay, a refusal, or else a rollback,
\* because the source was deleted (source_expired) or the connection lost.
Refuse(r) ==
  /\ \/ Verdict(r) # "admitted" /\ outcome' = [outcome EXCEPT ![r.job] = Verdict(r)]
     \/ outcome' = [outcome EXCEPT ![r.job] = "rolled_back"]
  /\ Unlock(r)
  /\ UNCHANGED <<balance, ledger, lots, allocation, authorization, idempotency, allowance,
                 stripe>>

\* Mutant of Admit: the key is not stored.
AdmitUnkeyed(r) ==
  LET j == r.job
      a == Request[j].account
      shares == Shares(lots[a], Request[j].price) IN
  /\ Verdict(r) = "admitted"
  /\ balance' = [balance EXCEPT ![a] = @ - Request[j].price]
  /\ authorization' = [authorization EXCEPT ![j] = "reserved"]
  /\ lots' = [lots EXCEPT ![a] = ReserveLots(@, shares)]
  /\ allocation' = [allocation EXCEPT ![j] = shares]
  /\ Record(<<"reservation", j>>, - Request[j].price)
  /\ outcome' = [outcome EXCEPT ![j] = "admitted"]
  /\ Unlock(r)
  /\ UNCHANGED <<idempotency, allowance, stripe>>

\* The job is created with its reservation.
Admit(r) ==
  LET j == r.job
      a == Request[j].account
      shares == Shares(lots[a], Request[j].price) IN
  /\ Verdict(r) = "admitted"
  /\ balance' = [balance EXCEPT ![a] = @ - Request[j].price]
  /\ authorization' = [authorization EXCEPT ![j] = "reserved"]
  /\ lots' = [lots EXCEPT ![a] = ReserveLots(@, shares)]
  /\ allocation' = [allocation EXCEPT ![j] = shares]
  /\ Record(<<"reservation", j>>, - Request[j].price)
  /\ idempotency' = IF Request[j].key = NoKey THEN idempotency ELSE idempotency \cup {j}
  /\ outcome' = [outcome EXCEPT ![j] = "admitted"]
  /\ Unlock(r)
  /\ UNCHANGED <<allowance, stripe>>

-----------------------------------------------------------------------------
(* The end of a job. *)

LedgerKind(status) == IF status = "released" THEN "release" ELSE "settlement"

\* Mutant of Finalize: the lots are left alone.
FinalizeBalance(j, status) ==
  LET a == Request[j].account
      returned == IF status = "released" THEN Request[j].price ELSE 0 IN
  /\ Unlocked(a)
  /\ authorization[j] = "reserved"
  /\ authorization' = [authorization EXCEPT ![j] = status]
  /\ balance' = [balance EXCEPT ![a] = @ + returned]
  /\ Record(<<LedgerKind(status), j>>, returned)
  /\ UNCHANGED <<lots, allocation, requests, allowance, stripe>>

\* Mutant of Finalize: a job may be finalized twice, with two outcomes.
FinalizeTwice(j, status) ==
  LET a == Request[j].account
      returned == IF status = "released" THEN Request[j].price ELSE 0 IN
  /\ Unlocked(a)
  /\ authorization[j] \in {"reserved", "settled", "released"} \ {status}
  /\ authorization' = [authorization EXCEPT ![j] = status]
  /\ lots' = [lots EXCEPT ![a] = FinalizeLots(@, allocation[j], status)]
  /\ balance' = [balance EXCEPT ![a] = @ + returned]
  /\ Record(<<LedgerKind(status), j>>, returned)
  /\ UNCHANGED <<allocation, requests, allowance, stripe>>

\* finalize, in the transaction that ends the job; later calls, also with the
\* other outcome, change nothing. A mismatch of the lots would keep the job
\* from ending.
Finalize(j, status) ==
  LET a == Request[j].account
      returned == IF status = "released" THEN Request[j].price ELSE 0 IN
  /\ Unlocked(a)
  /\ authorization[j] = "reserved"
  /\ SumFunction(allocation[j]) = Request[j].price
  /\ \A k \in DOMAIN allocation[j] : lots[a][k].reserved >= allocation[j][k]
  /\ lots' = [lots EXCEPT ![a] = FinalizeLots(@, allocation[j], status)]
  /\ authorization' = [authorization EXCEPT ![j] = status]
  /\ balance' = [balance EXCEPT ![a] = @ + returned]
  /\ Record(<<LedgerKind(status), j>>, returned)
  /\ UNCHANGED <<allocation, requests, allowance, stripe>>

-----------------------------------------------------------------------------
EndAdmission(a) == \E r \in admission[a] : Refuse(r) \/ Admit(r)

Next ==
  \/ Redeploy
  \/ \E a \in Accounts : Visit(a) \/ EndAdmission(a)
  \/ \E p \in Payments : Checkout(p) \/ Complete(p) \/ AsyncPayment(p)
  \/ \E e \in sent : Deliver(e)
  \/ \E j \in Jobs : BeginAdmission(j)
  \/ \E j \in Jobs, status \in {"settled", "released"} : Finalize(j, status)

\* Transactions end, and Stripe repeats an event until it is answered.
Fairness ==
  /\ \A a \in Accounts : WF_vars(EndAdmission(a))
  /\ \A p \in Payments : SF_vars(\E e \in sent : e.session = p /\ Deliver(e))

Spec == Init /\ [][Next]_vars /\ Fairness

-----------------------------------------------------------------------------
(* Properties. *)

Outcomes == {"unasked", "admitted", "replayed", "rolled_back",
             "idempotency_conflict", "active_job_limit", "insufficient_credits"}

\* Types, and the CHECK constraints of the tables: no balance and no column of
\* a lot is negative, no lot gives more than it has. No request is answered
\* with credit_lot_balance_mismatch (credit_lots.py:69).
TypeOK ==
  /\ balance \in [Accounts -> Nat]
  /\ DOMAIN ledger \subseteq References /\ \A r \in DOMAIN ledger : ledger[r] \in Int
  /\ \A a \in Accounts : \A k \in DOMAIN lots[a] :
       LET lot == lots[a][k] IN
       /\ lot.reserved \in Nat /\ lot.consumed \in Nat
       /\ lot.reserved + lot.consumed <= lot.credited
  /\ authorization \in [Jobs -> {"none", "reserved", "settled", "released"}]
  /\ idempotency \subseteq Jobs
  /\ outcome \in [Jobs -> Outcomes]
  /\ allowance \in Allowances

\* The lots of an account have available together what its balance says, so
\* that an admission the balance covers never fails for want of lots
\* (PostgresCreditLots.reserve raises and rolls back when they do not).
LotsMatchBalance ==
  \A a \in Accounts :
    balance[a] = SumFunction([k \in DOMAIN lots[a] |-> Available(lots[a][k])])

\* The balance is the sum of the ledger entries of the account, whatever was
\* repeated, refused or lost.
LedgerMatchesBalance ==
  \A a \in Accounts :
    balance[a] = SumFunctionOnSet(ledger, {r \in DOMAIN ledger : LedgerAccount(r) = a})

\* Credits that the jobs in one status took of the k-th lot of an account.
Taken(a, k, status) ==
  LET takers == {j \in Jobs : /\ Request[j].account = a /\ authorization[j] = status
                              /\ k \in DOMAIN allocation[j]}
  IN  SumFunction([j \in takers |-> allocation[j][k]])

\* A lot's reserved and consumed credits are those its allocations account
\* for, in whichever order jobs end: usage_status is evidence of use.
LotsMatchAllocations ==
  \A a \in Accounts : \A k \in DOMAIN lots[a] :
    /\ lots[a][k].reserved = Taken(a, k, "reserved")
    /\ lots[a][k].consumed = Taken(a, k, "settled")

\* At most one job is admitted for a key of an account, so that a repeated
\* request is never charged again (PostgresHostedRepository.admit).
OneJobPerKey ==
  \A i, k \in Jobs :
    /\ outcome[i] = "admitted" /\ outcome[k] = "admitted"
    /\ Request[i].account = Request[k].account
    /\ Request[i].key = Request[k].key /\ Request[i].key # NoKey
    => i = k

\* No account has more unfinished jobs than admit allows, however its
\* admissions overlap.
AccountWithinLimit == \A a \in Accounts : Cardinality(Active(a)) <= ActiveLimit

Readings == [job : Jobs, replayed : SUBSET Jobs, active : Nat]

\* An admission under way holds the lock of its account alone, and what it read
\* there is still so: nothing that decides it can change before it ends.
ReadingsCurrent ==
  \A a \in Accounts : \A r \in admission[a] :
    /\ admission[a] = {r}
    /\ Request[r.job].account = a
    /\ outcome[r.job] = "unasked"
    /\ r.replayed = SameKey(r.job)
    /\ r.active = Cardinality(Active(a))

\* The rows of job_idempotency are the admitted jobs with a key.
KeysRecorded ==
  idempotency = {j \in Jobs : outcome[j] = "admitted" /\ Request[j].key # NoKey}

\* The inductive invariant of admissions.
IInv ==
  /\ authorization \in [Jobs -> {"none", "reserved", "settled", "released"}]
  /\ outcome \in [Jobs -> Outcomes \cup {"credit_lot_balance_mismatch"}]
  /\ admission \in [Accounts -> SUBSET Readings]
  /\ ReadingsCurrent
  /\ KeysRecorded
  /\ OneJobPerKey
  /\ AccountWithinLimit

\* No credits of a pack are reserved while a grant or legacy credits are left,
\* and none of a newer pack while an older one has some (deploy/payments.md).
GrantsSpentFirst ==
  [][\A a \in Accounts : \A k \in DOMAIN lots[a] : \A i \in 1..Len(lots[a]) :
       (/\ lots'[a][k].kind = "purchase"
        /\ lots'[a][k].reserved > lots[a][k].reserved
        /\ lots[a][i].kind # "purchase" \/ i < k)
       => Available(lots'[a][i]) = 0]_vars

\* An entry of the ledger is never changed or removed: a reference is credited
\* once, with its first amount, also after the allowance changed.
LedgerAppendOnly ==
  [][\A r \in DOMAIN ledger : r \in DOMAIN ledger' /\ ledger'[r] = ledger[r]]_vars

\* The entry of the book for a reference of the ledger.
BookEntry(r) ==
  LET bought == r[1] \in {"grant", "stripe"} IN
  [kind      |-> IF bought THEN "purchase" ELSE r[1],
   reference |-> IF bought THEN r ELSE r[2],
   credits   |-> ledger[r]]

\* The in-memory repository of billing/models.py, over the tables.
Book == INSTANCE CreditBook WITH
  Amounts <- Allowances,
  accounts <- balance,
  allocations <- allocation,
  authorizations <- authorization,
  entries <- {BookEntry(r) : r \in DOMAIN ledger}

\* Whatever overlaps, repeats or fails, hosted storage takes only the steps of
\* the in-memory repository that the tests of the credit policy run against:
\* "the same idempotency invariants as hosted storage" (billing/models.py:95).
FollowsBook == [][Book!Next]_(Book!books)

\* A session that is paid, at once or later, is credited in the end.
PaidIsCredited ==
  \A p \in Payments : session[p] = "paid" ~> <<"stripe", p>> \in DOMAIN ledger
=============================================================================
