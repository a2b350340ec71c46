------------------------------ MODULE CreditBook ------------------------------
(***************************************************************************)
(* What the credit policy promises of its storage: the BillingRepository   *)
(* of billing/models.py as its in-memory implementation, "with the same    *)
(* idempotency invariants as hosted storage", keeps it.  Each operation is *)
(* one step on one account.  Entries are kept as a set: an operation that  *)
(* changes the books appends one entry that was not there.  CreditLedger,  *)
(* the hosted storage, is checked to follow this book; its tables need not *)
(* begin empty, so the book has no initial state of its own.               *)
(***************************************************************************)
EXTENDS Integers, Sequences, FiniteSets, Functions

CONSTANTS Accounts,
          Jobs,
          Request,  \* per job: account and price, among others
          Payments,
          Session,  \* per payment: account and credits
          Amounts   \* credits that may be granted

VARIABLES accounts,       \* available credits
          lots,           \* per account, the lots in the order they were made
          allocations,    \* per job, credits of each lot
          authorizations, \* per job, "none" before it is reserved
          entries

books == <<accounts, lots, allocations, authorizations, entries>>

Entry(kind, reference, credits) == [kind |-> kind, reference |-> reference, credits |-> credits]

\* _grant: a reference that was used before changes nothing.
Grant(a, reference, kind, credits) ==
  /\ \A e \in entries : e.kind = "purchase" => e.reference # reference
  /\ accounts' = [accounts EXCEPT ![a] = @ + credits]
  /\ lots' = [lots EXCEPT ![a] =
        Append(@, [kind |-> kind, credited |-> credits, reserved |-> 0, consumed |-> 0])]
  /\ entries' = entries \cup {Entry("purchase", reference, credits)}
  /\ UNCHANGED <<allocations, authorizations>>

\* process_payment_event
Pay(p) == Grant(Session[p].account, <<"stripe", p>>, "purchase", Session[p].credits)

-----------------------------------------------------------------------------

\* The stable sort of reserve: purchases come last.
Earlier(ls, i, k) ==
  \/ ls[i].kind # "purchase" /\ ls[k].kind = "purchase"
  \/ (ls[i].kind = "purchase") = (ls[k].kind = "purchase") /\ i < k

Least(m, n) == IF m < n THEN m ELSE n

\* The loop of reserve: in its turn a lot gives what it has, at most what remains
\* of the credits.
GiveInTurn(ls, credits, amounts) ==
  \A k \in DOMAIN ls :
    LET given == SumFunctionOnSet(amounts, {i \in DOMAIN ls : Earlier(ls, i, k)})
        available == ls[k].credited - ls[k].reserved - ls[k].consumed
    IN  amounts[k] = Least(credits - given, available)

\* The lots with amounts reserved, and with shares of a job that ends returned or
\* consumed.
Reserved(ls, amounts) == [k \in DOMAIN ls |-> [ls[k] EXCEPT !.reserved = @ + amounts[k]]]

Closed(ls, shares, consumed) ==
  [k \in DOMAIN ls |->
     IF k \notin DOMAIN shares THEN ls[k]
     ELSE [ls[k] EXCEPT !.reserved = @ - shares[k],
                        !.consumed = @ + consumed * shares[k]]]

\* A job is reserved once, if the balance and the lots have its price.
Reserve(j) ==
  LET a == Request[j].account
      credits == Request[j].price IN
  /\ authorizations[j] = "none"
  /\ accounts[a] >= credits
  /\ \E amounts \in [DOMAIN lots[a] -> 0 .. credits] :
       /\ GiveInTurn(lots[a], credits, amounts)
       /\ SumFunction(amounts) = credits
       /\ lots' = [lots EXCEPT ![a] = Reserved(@, amounts)]
       /\ allocations' = [allocations EXCEPT ![j] =
             Restrict(amounts, {k \in DOMAIN amounts : amounts[k] > 0})]
  /\ accounts' = [accounts EXCEPT ![a] = @ - credits]
  /\ authorizations' = [authorizations EXCEPT ![j] = "reserved"]
  /\ entries' = entries \cup {Entry("reservation", j, - credits)}

\* A job that is not reserved any more stays as it is.
Close(j, status, kind, consumed, returned) ==
  LET a == Request[j].account IN
  /\ authorizations[j] = "reserved"
  /\ authorizations' = [authorizations EXCEPT ![j] = status]
  /\ lots' = [lots EXCEPT ![a] = Closed(@, allocations[j], consumed)]
  /\ accounts' = [accounts EXCEPT ![a] = @ + returned]
  /\ entries' = entries \cup {Entry(kind, j, returned)}
  /\ UNCHANGED allocations

\* finalize
Settle(j)  == Close(j, "settled", "settlement", 1, 0)
Release(j) == Close(j, "released", "release", 0, Request[j].price)

-----------------------------------------------------------------------------

Next ==
  \/ \E a \in Accounts, credits \in Amounts : Grant(a, <<"grant", a>>, "grant", credits)
  \/ \E p \in Payments : Pay(p)
  \/ \E j \in Jobs : Reserve(j) \/ Settle(j) \/ Release(j)
=============================================================================
