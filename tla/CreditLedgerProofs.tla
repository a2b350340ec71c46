------------------------- MODULE CreditLedgerProofs -------------------------
(***************************************************************************)
(* Theorems about CreditLedger, for all accounts, requests and payments:   *)
(* what the references of the ledger, the account lock and the idempotency *)
(* rows guarantee, and that balance, ledger, lots and allocations always   *)
(* add up. The inductive invariant is BooksInv: IInv for the admissions,   *)
(* Books for the sums.                                                     *)
(***************************************************************************)
EXTENDS CreditLedger, SumFacts, FiniteSetTheorems, TLAPS

-----------------------------------------------------------------------------
(* The ledger. *)

\* Recording a new reference keeps the entries there are.
LEMMA RecordKeeps ==
  ASSUME NEW r, NEW c, Record(r, c)
  PROVE  \A x \in DOMAIN ledger : x \in DOMAIN ledger' /\ ledger'[x] = ledger[x]
BY DEF Record

\* A step on the ledger records one reference; no other step touches it.
LEMMA LedgerStep ==
  ASSUME [Next]_vars
  PROVE  UNCHANGED ledger \/ \E r, c : Record(r, c)
<1>1. ASSUME NEW a \in Accounts, Visit(a)
      PROVE  \E r, c : Record(r, c)
  BY <1>1 DEF Visit, Grant
<1>2. ASSUME NEW e \in sent, Deliver(e)
      PROVE  \E r, c : Record(r, c)
  BY <1>2 DEF Deliver, Grant
<1>3. ASSUME NEW a \in Accounts, NEW r \in admission[a], Admit(r)
      PROVE  \E x, c : Record(x, c)
  BY <1>3 DEF Admit
<1>4. ASSUME NEW j \in Jobs, NEW status \in {"settled", "released"}, Finalize(j, status)
      PROVE  \E r, c : Record(r, c)
  BY <1>4 DEF Finalize
<1>5. ASSUME NEW p \in Payments, Checkout(p) \/ Complete(p) \/ AsyncPayment(p)
      PROVE  UNCHANGED ledger
  BY <1>5 DEF Checkout, Complete, AsyncPayment
<1>6. ASSUME NEW a \in Accounts, NEW r \in admission[a], Refuse(r)
      PROVE  UNCHANGED ledger
  BY <1>6 DEF Refuse
<1>7. ASSUME NEW j \in Jobs, BeginAdmission(j)
      PROVE  UNCHANGED ledger
  BY <1>7 DEF BeginAdmission
<1>8. Redeploy => UNCHANGED ledger
  BY DEF Redeploy
<1>9. (UNCHANGED vars) => UNCHANGED ledger
  BY DEF vars
<1> QED
  BY <1>1, <1>2, <1>3, <1>4, <1>5, <1>6, <1>7, <1>8, <1>9 DEF Next, EndAdmission

\* No entry of the ledger is ever changed or removed (_grant, admit and
\* finalize insert under a UNIQUE reference and nothing updates the table).
THEOREM LedgerPermanent == Spec => LedgerAppendOnly
<1>1. [Next]_vars =>
        [\A r \in DOMAIN ledger : r \in DOMAIN ledger' /\ ledger'[r] = ledger[r]]_vars
  <2> SUFFICES ASSUME [Next]_vars
               PROVE  \A r \in DOMAIN ledger : r \in DOMAIN ledger' /\ ledger'[r] = ledger[r]
    OBVIOUS
  <2>1. CASE UNCHANGED ledger
    BY <2>1
  <2>2. CASE \E r, c : Record(r, c)
    <3>1. PICK r, c : Record(r, c)
      BY <2>2
    <3> QED
      BY <3>1, RecordKeeps
  <2> QED
    BY <2>1, <2>2, LedgerStep
<1> QED
  BY <1>1, PTL DEF Spec, LedgerAppendOnly

-----------------------------------------------------------------------------
(* Admissions. *)

AdmissionTypes ==
  /\ authorization \in [Jobs -> {"none", "reserved", "settled", "released"}]
  /\ outcome \in [Jobs -> Outcomes \cup {"credit_lot_balance_mismatch"}]
  /\ admission \in [Accounts -> SUBSET Readings]

\* An admission goes through only if no row had its key and the account was
\* below its limit.
LEMMA AdmittedReadings ==
  ASSUME NEW r, Verdict(r) = "admitted"
  PROVE  r.replayed = {} /\ ~(r.active >= ActiveLimit)
BY DEF Verdict

LEMMA VerdictType ==
  ASSUME NEW r
  PROVE  Verdict(r) \in Outcomes \cup {"credit_lot_balance_mismatch"}
BY DEF Verdict, Outcomes

\* The unfinished jobs of an account can be counted.
LEMMA ActiveFinite ==
  ASSUME NEW a
  PROVE  IsFiniteSet(Active(a)) /\ Cardinality(Active(a)) \in Nat
<1>1. Active(a) \subseteq Jobs
  BY DEF Active
<1> QED
  BY <1>1, RequestAssumption, FS_Subset, FS_CardinalityType

\* Steps that leave the requests and the authorizations alone.
LEMMA Idle ==
  ASSUME IInv, UNCHANGED <<authorization, requests>>
  PROVE  IInv'
<1>1. UNCHANGED <<authorization, idempotency, outcome, admission>>
  BY DEF requests
<1>2. \A a : Active(a)' = Active(a) /\ \A i : SameKey(i)' = SameKey(i)
  BY <1>1 DEF Active, SameKey
<1>3. ReadingsCurrent'
  BY <1>1, <1>2 DEF IInv, ReadingsCurrent
<1>4. KeysRecorded' /\ OneJobPerKey' /\ AccountWithinLimit'
  BY <1>1, <1>2 DEF IInv, KeysRecorded, OneJobPerKey, AccountWithinLimit
<1> QED
  BY <1>1, <1>3, <1>4 DEF IInv

\* Only the lock and the reading of the beginning admission change.
LEMMA BeginKeeps ==
  ASSUME IInv, NEW j \in Jobs, BeginAdmission(j)
  PROVE  IInv'
<1> DEFINE a == Request[j].account
           r == [job |-> j, replayed |-> SameKey(j), active |-> Cardinality(Active(a))]
<1>1. a \in Accounts
  BY RequestAssumption
<1>2. /\ admission[a] = {} /\ outcome[j] = "unasked"
      /\ admission' = [admission EXCEPT ![a] = {r}]
      /\ UNCHANGED <<authorization, idempotency, outcome>>
  BY DEF BeginAdmission, Unlocked
<1>3. r \in Readings
  BY ActiveFinite DEF Readings, SameKey, IInv, KeysRecorded
<1>4. (AdmissionTypes)'
  BY <1>1, <1>2, <1>3 DEF IInv, AdmissionTypes
<1>5. \A b : Active(b)' = Active(b)
  BY <1>2 DEF Active
<1>6. \A i : SameKey(i)' = SameKey(i)
  BY <1>2 DEF SameKey
<1>7. ReadingsCurrent'
  <2> SUFFICES ASSUME NEW b \in Accounts, NEW s \in admission'[b]
               PROVE  /\ admission'[b] = {s}
                      /\ Request[s.job].account = b
                      /\ outcome[s.job] = "unasked"
                      /\ s.replayed = SameKey(s.job)
                      /\ s.active = Cardinality(Active(b))
    BY <1>2, <1>5, <1>6 DEF ReadingsCurrent
  <2>1. CASE b = a
    BY <2>1, <1>1, <1>2 DEF IInv
  <2>2. CASE b # a
    BY <2>2, <1>2 DEF IInv, ReadingsCurrent
  <2> QED
    BY <2>1, <2>2
<1>8. KeysRecorded' /\ OneJobPerKey' /\ AccountWithinLimit'
  BY <1>2, <1>5 DEF IInv, KeysRecorded, OneJobPerKey, AccountWithinLimit
<1> QED
  BY <1>4, <1>7, <1>8 DEF IInv, AdmissionTypes

\* What the end of an admission does to the locks.
LEMMA UnlockFacts ==
  ASSUME IInv, NEW a \in Accounts, NEW r \in admission[a], Unlock(r)
  PROVE  /\ r.job \in Jobs /\ Request[r.job].account = a
         /\ outcome[r.job] = "unasked"
         /\ admission'[a] = {}
         /\ \A b \in Accounts \ {a} : admission'[b] = admission[b]
         /\ admission' \in [Accounts -> SUBSET Readings]
<1>1. r \in Readings /\ admission[a] = {r} /\ Request[r.job].account = a
      /\ outcome[r.job] = "unasked"
  BY DEF IInv, ReadingsCurrent
<1>2. admission' = [admission EXCEPT ![a] = admission[a] \ {r}]
  BY <1>1 DEF Unlock
<1> QED
  BY <1>1, <1>2 DEF IInv, Readings

\* A refused request leaves the tables as they are.
LEMMA RefuseKeeps ==
  ASSUME IInv, NEW a \in Accounts, NEW r \in admission[a], Refuse(r)
  PROVE  IInv'
<1> DEFINE j == r.job
<1>1. Unlock(r) /\ UNCHANGED <<authorization, idempotency>>
  BY DEF Refuse
<1>2. /\ j \in Jobs /\ Request[j].account = a /\ outcome[j] = "unasked"
      /\ admission'[a] = {}
      /\ \A b \in Accounts \ {a} : admission'[b] = admission[b]
      /\ admission' \in [Accounts -> SUBSET Readings]
  BY <1>1, UnlockFacts
<1>3. PICK v \in (Outcomes \cup {"credit_lot_balance_mismatch"}) \ {"admitted"} :
        outcome' = [outcome EXCEPT ![j] = v]
  BY VerdictType DEF Refuse, Outcomes
<1>4. (AdmissionTypes)'
  BY <1>1, <1>2, <1>3 DEF IInv, AdmissionTypes
<1>5. \A b : Active(b)' = Active(b)
  BY <1>1 DEF Active
<1>6. \A i : SameKey(i)' = SameKey(i)
  BY <1>1 DEF SameKey
<1>7. \A i \in Jobs : outcome'[i] = "admitted" <=> outcome[i] = "admitted"
  BY <1>2, <1>3 DEF IInv
<1>8. ReadingsCurrent'
  <2> SUFFICES ASSUME NEW b \in Accounts, NEW s \in admission'[b]
               PROVE  /\ admission'[b] = {s}
                      /\ Request[s.job].account = b
                      /\ outcome'[s.job] = "unasked"
                      /\ s.replayed = SameKey(s.job)
                      /\ s.active = Cardinality(Active(b))
    BY <1>5, <1>6 DEF ReadingsCurrent
  <2>1. b # a /\ s \in admission[b]
    BY <1>2
  <2>2. /\ admission[b] = {s} /\ Request[s.job].account = b
        /\ outcome[s.job] = "unasked" /\ s.replayed = SameKey(s.job)
        /\ s.active = Cardinality(Active(b))
    BY <2>1 DEF IInv, ReadingsCurrent
  <2>3. s.job \in Jobs
    BY <2>1 DEF IInv, Readings
  <2>4. outcome'[s.job] = "unasked"
    BY <2>1, <2>2, <2>3, <1>2, <1>3 DEF IInv
  <2> QED
    BY <2>1, <2>2, <2>4, <1>2
<1>9. KeysRecorded' /\ OneJobPerKey' /\ AccountWithinLimit'
  <2>1. KeysRecorded' /\ OneJobPerKey'
    BY <1>1, <1>7 DEF IInv, KeysRecorded, OneJobPerKey
  <2>2. AccountWithinLimit'
    BY <1>5 DEF IInv, AccountWithinLimit
  <2> QED
    BY <2>1, <2>2
<1> QED
  BY <1>4, <1>8, <1>9 DEF IInv, AdmissionTypes

\* An admitted job is the first with its key, and its account had room for it.
LEMMA AdmitKeeps ==
  ASSUME IInv, NEW a \in Accounts, NEW r \in admission[a], Admit(r)
  PROVE  IInv'
<1> DEFINE j == r.job
<1>1. Unlock(r) /\ Verdict(r) = "admitted"
  BY DEF Admit
<1>2. /\ j \in Jobs /\ Request[j].account = a /\ outcome[j] = "unasked"
      /\ admission'[a] = {}
      /\ \A b \in Accounts \ {a} : admission'[b] = admission[b]
      /\ admission' \in [Accounts -> SUBSET Readings]
  BY <1>1, UnlockFacts
<1>3. /\ authorization' = [authorization EXCEPT ![j] = "reserved"]
      /\ outcome' = [outcome EXCEPT ![j] = "admitted"]
      /\ idempotency' = IF Request[j].key = NoKey THEN idempotency ELSE idempotency \cup {j}
  BY DEF Admit
<1>4. /\ SameKey(j) = {}
      /\ ~(Cardinality(Active(a)) >= ActiveLimit)
  BY <1>1, AdmittedReadings DEF IInv, ReadingsCurrent
<1>5. (AdmissionTypes)'
  BY <1>2, <1>3 DEF IInv, AdmissionTypes, Outcomes
<1>6. /\ Active(a)' = Active(a) \cup {j}
      /\ \A b \in Accounts \ {a} : Active(b)' = Active(b)
  BY <1>2, <1>3 DEF IInv, Active
<1>7. \A i \in Jobs : Request[i].account # a => SameKey(i)' = SameKey(i)
  BY <1>2, <1>3 DEF SameKey
<1>8. ReadingsCurrent'
  <2> SUFFICES ASSUME NEW b \in Accounts, NEW s \in admission'[b]
               PROVE  /\ admission'[b] = {s}
                      /\ Request[s.job].account = b
                      /\ outcome'[s.job] = "unasked"
                      /\ s.replayed = SameKey(s.job)'
                      /\ s.active = Cardinality(Active(b)')
    BY DEF ReadingsCurrent
  <2>1. b # a /\ s \in admission[b]
    BY <1>2
  <2>2. /\ admission[b] = {s} /\ Request[s.job].account = b
        /\ outcome[s.job] = "unasked" /\ s.replayed = SameKey(s.job)
        /\ s.active = Cardinality(Active(b))
    BY <2>1 DEF IInv, ReadingsCurrent
  <2>3. s.job \in Jobs
    BY <2>1 DEF IInv, Readings
  <2>4. outcome'[s.job] = "unasked"
    BY <2>1, <2>2, <2>3, <1>2, <1>3 DEF IInv
  <2>5. SameKey(s.job)' = SameKey(s.job)
    BY <2>1, <2>2, <2>3, <1>7
  <2>6. Active(b)' = Active(b)
    BY <2>1, <1>6
  <2> QED
    BY <2>1, <2>2, <2>4, <2>5, <2>6, <1>2
<1>9. KeysRecorded'
  BY <1>2, <1>3 DEF IInv, KeysRecorded
<1>10. OneJobPerKey'
  <2>1. ASSUME NEW i \in Jobs, outcome[i] = "admitted",
               Request[i].account = a, Request[i].key = Request[j].key
        PROVE  Request[j].key = NoKey
    BY <2>1, <1>2, <1>4 DEF IInv, KeysRecorded, SameKey
  <2> QED
    BY <2>1, <1>2, <1>3 DEF IInv, OneJobPerKey
<1>11. AccountWithinLimit'
  <2> DEFINE n == Cardinality(Active(a))
  <2>1. IsFiniteSet(Active(a)) /\ n \in Nat
    BY ActiveFinite
  <2>2. Cardinality(Active(a) \cup {j}) = IF j \in Active(a) THEN n ELSE n + 1
    BY <2>1, FS_AddElement
  <2>3. n < ActiveLimit
    BY <2>1, <1>4, LimitAssumption
  <2>4. Cardinality(Active(a) \cup {j}) <= ActiveLimit
    BY <2>1, <2>2, <2>3, LimitAssumption
  <2> QED
    BY <2>4, <1>6 DEF IInv, AccountWithinLimit
<1> QED
  BY <1>5, <1>8, <1>9, <1>10, <1>11 DEF IInv, AdmissionTypes

\* The end of a job waits for the admissions of its account.
LEMMA FinalizeKeeps ==
  ASSUME IInv, NEW j \in Jobs, NEW status \in {"settled", "released"},
         Finalize(j, status)
  PROVE  IInv'
<1> DEFINE a == Request[j].account
<1>1. /\ a \in Accounts /\ admission[a] = {}
      /\ authorization' = [authorization EXCEPT ![j] = status]
      /\ UNCHANGED <<idempotency, outcome, admission>>
  BY RequestAssumption DEF Finalize, Unlocked, requests
<1>2. (AdmissionTypes)'
  BY <1>1 DEF IInv, AdmissionTypes
<1>3. /\ \A b \in Accounts \ {a} : Active(b)' = Active(b)
      /\ Active(a)' \subseteq Active(a)
  BY <1>1 DEF IInv, Active
<1>4. \A i : SameKey(i)' = SameKey(i)
  BY <1>1 DEF SameKey
<1>5. ReadingsCurrent'
  <2> SUFFICES ASSUME NEW b \in Accounts, NEW s \in admission[b]
               PROVE  /\ admission[b] = {s}
                      /\ Request[s.job].account = b
                      /\ outcome[s.job] = "unasked"
                      /\ s.replayed = SameKey(s.job)
                      /\ s.active = Cardinality(Active(b)')
    BY <1>1, <1>4 DEF ReadingsCurrent
  <2>1. Active(b)' = Active(b)
    BY <1>1, <1>3
  <2> QED
    BY <2>1 DEF IInv, ReadingsCurrent
<1>6. KeysRecorded' /\ OneJobPerKey'
  BY <1>1 DEF IInv, KeysRecorded, OneJobPerKey
<1>7. AccountWithinLimit'
  <2> SUFFICES ASSUME NEW b \in Accounts
               PROVE  Cardinality(Active(b)') <= ActiveLimit
    BY DEF AccountWithinLimit
  <2>1. Active(b)' \subseteq Active(b)
    BY <1>3
  <2>2. Cardinality(Active(b)') <= Cardinality(Active(b)) /\ Cardinality(Active(b)') \in Nat
    BY <2>1, ActiveFinite, FS_Subset, FS_CardinalityType
  <2>3. Cardinality(Active(b)) <= ActiveLimit
    BY DEF IInv, AccountWithinLimit
  <2> QED
    BY <2>2, <2>3, ActiveFinite, LimitAssumption
<1> QED
  BY <1>2, <1>5, <1>6, <1>7 DEF IInv, AdmissionTypes

\* The migration leaves the jobs of the earlier release within the limit, with
\* the keys they had.
LEMMA InitKeeps == Init => IInv
<1> SUFFICES ASSUME Init
             PROVE  IInv
  OBVIOUS
<1>1. (AdmissionTypes)
  BY DEF Init, AdmissionTypes, Outcomes
<1>2. ReadingsCurrent
  BY DEF Init, ReadingsCurrent
<1>3. KeysRecorded /\ OneJobPerKey
  BY MigrationAssumption DEF Init, KeysRecorded, OneJobPerKey
<1>4. AccountWithinLimit
  <2> SUFFICES ASSUME NEW a \in Accounts
               PROVE  Cardinality(Active(a)) <= ActiveLimit
    BY DEF AccountWithinLimit
  <2>1. Active(a) = OwnJobs(OldJobs, a)
    BY MigrationAssumption DEF Init, Active, OwnJobs
  <2>2. CASE a \in Migrated
    BY <2>1, <2>2, MigrationAssumption
  <2>3. CASE a \notin Migrated
    <3>1. Active(a) = {}
      BY <2>1, <2>3, MigrationAssumption DEF OwnJobs
    <3> QED
      BY <3>1, FS_EmptySet, LimitAssumption
  <2> QED
    BY <2>2, <2>3
<1> QED
  BY <1>1, <1>2, <1>3, <1>4 DEF IInv, AdmissionTypes

LEMMA StepKeeps == IInv /\ [Next]_vars => IInv'
<1> SUFFICES ASSUME IInv, [Next]_vars
             PROVE  IInv'
  OBVIOUS
<1>1. ASSUME NEW a \in Accounts, NEW r \in admission[a], Refuse(r)
      PROVE  IInv'
  BY <1>1, RefuseKeeps
<1>2. ASSUME NEW a \in Accounts, NEW r \in admission[a], Admit(r)
      PROVE  IInv'
  BY <1>2, AdmitKeeps
<1>3. ASSUME NEW j \in Jobs, BeginAdmission(j)
      PROVE  IInv'
  BY <1>3, BeginKeeps
<1>4. ASSUME NEW j \in Jobs, NEW status \in {"settled", "released"}, Finalize(j, status)
      PROVE  IInv'
  BY <1>4, FinalizeKeeps
<1>5. ASSUME NEW a \in Accounts, Visit(a)
      PROVE  UNCHANGED <<authorization, requests>>
  BY <1>5 DEF Visit, Grant
<1>6. ASSUME NEW e \in sent, Deliver(e)
      PROVE  UNCHANGED <<authorization, requests>>
  BY <1>6 DEF Deliver, Grant
<1>7. ASSUME NEW p \in Payments, Checkout(p) \/ Complete(p) \/ AsyncPayment(p)
      PROVE  UNCHANGED <<authorization, requests>>
  BY <1>7 DEF Checkout, Complete, AsyncPayment
<1>8. Redeploy \/ (UNCHANGED vars) => UNCHANGED <<authorization, requests>>
  BY DEF Redeploy, vars
<1> QED
  BY <1>1, <1>2, <1>3, <1>4, <1>5, <1>6, <1>7, <1>8, Idle DEF Next, EndAdmission

\* The lock of the account, the readings under it and the rows of the keys stay
\* consistent for ever.
THEOREM AdmissionsSerial == Spec => []IInv
BY InitKeeps, StepKeeps, PTL DEF Spec

\* A repeated request never creates a second job, so it is never charged again.
THEOREM RetriesSafe == Spec => []OneJobPerKey
<1>1. IInv => OneJobPerKey
  BY DEF IInv
<1> QED
  BY <1>1, AdmissionsSerial, PTL

\* Overlapping admissions never exceed the limit of unfinished jobs.
THEOREM LimitSafe == Spec => []AccountWithinLimit
<1>1. IInv => AccountWithinLimit
  BY DEF IInv
<1> QED
  BY <1>1, AdmissionsSerial, PTL

-----------------------------------------------------------------------------
(* What reserve takes of the lots of an account. *)

Kinds == {"legacy", "grant", "purchase"}

Lot == [kind : Kinds, credited : Nat, reserved : Nat, consumed : Nat]

\* Lots none of which gives more than it has.
Lots == {ls \in Seq(Lot) : \A k \in DOMAIN ls : ls[k].reserved + ls[k].consumed <= ls[k].credited}

Availables(ls) == [k \in DOMAIN ls |-> Available(ls[k])]

Ahead(ls, k) == {i \in DOMAIN ls : Precedes(ls, i, k)}

\* Lots and what they have are numbered and finite.
LEMMA LotsType ==
  ASSUME NEW ls \in Lots
  PROVE  /\ ls \in Seq(Lot) /\ Len(ls) \in Nat /\ DOMAIN ls = 1 .. Len(ls)
         /\ IsFiniteSet(DOMAIN ls)
         /\ \A k \in DOMAIN ls : /\ ls[k] \in Lot
                                 /\ Available(ls[k]) \in Nat
                                 /\ Availables(ls)[k] = Available(ls[k])
<1>1. ls \in Seq(Lot) /\ Len(ls) \in Nat /\ DOMAIN ls = 1 .. Len(ls)
  BY DEF Lots
<1>2. IsFiniteSet(DOMAIN ls)
  BY <1>1, FS_Interval
<1>3. ASSUME NEW k \in DOMAIN ls
      PROVE  ls[k] \in Lot /\ Available(ls[k]) \in Nat
  <2>1. ls[k] \in Lot /\ ls[k].reserved + ls[k].consumed <= ls[k].credited
    BY <1>1 DEF Lots
  <2>. QED
    BY <2>1 DEF Available, Lot
<1>. QED
  BY <1>1, <1>2, <1>3 DEF Availables

\* The lots before the k-th come to a sum, what they leave to a number.
LEMMA AheadSum ==
  ASSUME NEW ls \in Lots, NEW credits \in Nat, NEW k
  PROVE  /\ Ahead(ls, k) \subseteq DOMAIN ls /\ IsFiniteSet(Ahead(ls, k))
         /\ SumFunctionOnSet(Availables(ls), Ahead(ls, k)) \in Nat
         /\ Remaining(ls, credits, k) =
              credits - SumFunctionOnSet(Availables(ls), Ahead(ls, k))
<1>1. Ahead(ls, k) \subseteq DOMAIN ls /\ IsFiniteSet(Ahead(ls, k))
  BY LotsType, FS_Subset DEF Ahead
<1>2. \A i \in Ahead(ls, k) : Availables(ls)[i] \in Nat
  BY <1>1, LotsType
<1>3. SumFunctionOnSet(Availables(ls), Ahead(ls, k)) \in Nat
  BY <1>1, <1>2, SumType
<1>. QED
  BY <1>1, <1>3 DEF Remaining, Ahead, Availables

\* A lot gives something, and at most what it has.
LEMMA SharesType ==
  ASSUME NEW ls \in Lots, NEW credits \in Nat
  PROVE  /\ DOMAIN Shares(ls, credits) \subseteq DOMAIN ls
         /\ \A k \in DOMAIN Shares(ls, credits) :
              /\ Shares(ls, credits)[k] \in Nat \ {0}
              /\ Shares(ls, credits)[k] <= Available(ls[k])
<1>1. ASSUME NEW k \in DOMAIN ls
      PROVE  Remaining(ls, credits, k) \in Int /\ Available(ls[k]) \in Nat
  BY AheadSum, LotsType
<1>. QED
  BY <1>1 DEF Shares

\* A strict order of all lots.
LEMMA PrecedesOrder ==
  ASSUME NEW ls \in Lots
  PROVE  /\ \A i \in DOMAIN ls : ~Precedes(ls, i, i)
         /\ \A i, k \in DOMAIN ls : i = k \/ Precedes(ls, i, k) \/ Precedes(ls, k, i)
         /\ \A h, i, k \in DOMAIN ls : Precedes(ls, h, i) /\ Precedes(ls, i, k)
                                       => Precedes(ls, h, k)
<1>1. \A i \in DOMAIN ls : i \in Nat
  BY LotsType
<1>. QED
  BY <1>1 DEF Precedes

\* Some lot of several comes last.
LEMMA LastExists ==
  ASSUME NEW ls \in Lots, NEW S \in SUBSET DOMAIN ls, S # {}
  PROVE  \E m \in S : \A i \in S : i = m \/ Precedes(ls, i, m)
<1>. DEFINE G == {T \in SUBSET S :
                    T # {} => \E m \in T : \A i \in T : i = m \/ Precedes(ls, i, m)}
<1>1. ASSUME NEW T \in SUBSET S, \A U \in SUBSET T : U # T => U \in G
      PROVE  T \in G
  <2>1. SUFFICES ASSUME T # {}
                 PROVE  \E m \in T : \A i \in T : i = m \/ Precedes(ls, i, m)
    OBVIOUS
  <2>2. PICK x \in T : TRUE
    BY <2>1
  <2>3. CASE T = {x}
    BY <2>3
  <2>4. CASE T # {x}
    <3>. DEFINE U == T \ {x}
    <3>0. U \in SUBSET T /\ U # T /\ U # {}
      BY <2>2, <2>4
    <3>1. PICK m \in T \ {x} : \A i \in T \ {x} : i = m \/ Precedes(ls, i, m)
      <4>1. U \in G
        BY <1>1, <3>0
      <4>. QED
        BY <3>0, <4>1
    <3>2. CASE Precedes(ls, x, m)
      <4>1. m \in T /\ \A i \in T : i = m \/ Precedes(ls, i, m)
        BY <3>1, <3>2
      <4>. QED
        BY <4>1
    <3>3. CASE Precedes(ls, m, x)
      <4>1. \A i \in T : i = x \/ Precedes(ls, i, x)
        BY <2>2, <3>1, <3>3, PrecedesOrder
      <4>. QED
        BY <2>2, <4>1
    <3>. QED
      BY <2>2, <3>1, <3>2, <3>3, PrecedesOrder
  <2>. QED
    BY <2>3, <2>4
<1>2. IsFiniteSet(S)
  BY LotsType, FS_Subset
<1>3. \A T \in SUBSET S : T \in G
  <2>. HIDE DEF G
  <2>. QED
    BY <1>1, <1>2, SubsetInduction
<1>. QED
  BY <1>3

\* What each lot gives, 0 if nothing.
Given(ls, credits) ==
  [k \in DOMAIN ls |-> IF k \in DOMAIN Shares(ls, credits) THEN Shares(ls, credits)[k] ELSE 0]

\* The shares are what all lots give.
LEMMA GivenType ==
  ASSUME NEW ls \in Lots, NEW credits \in Nat
  PROVE  /\ \A k \in DOMAIN ls : Given(ls, credits)[k] \in Nat
         /\ SumFunction(Shares(ls, credits)) = SumFunctionOnSet(Given(ls, credits), DOMAIN ls)
<1>. DEFINE shares == Shares(ls, credits)
            given == Given(ls, credits)
<1>1. \A k \in DOMAIN ls : given[k] \in Nat
  BY SharesType DEF Given
<1>2. DOMAIN shares \in SUBSET DOMAIN ls /\ IsFiniteSet(DOMAIN ls) /\ IsFiniteSet(DOMAIN shares)
  BY SharesType, LotsType, FS_Subset
<1>3. /\ \A k \in DOMAIN shares : shares[k] = given[k]
      /\ \A k \in DOMAIN ls \ DOMAIN shares : given[k] = 0
  BY <1>2 DEF Given
<1>4. \A k \in DOMAIN shares : given[k] \in Int
  BY <1>1, <1>2
<1>. HIDE DEF given, shares
<1>5. SumFunctionOnSet(shares, DOMAIN shares) = SumFunctionOnSet(given, DOMAIN shares)
  BY <1>2, <1>3, SumSame
<1>6. SumFunctionOnSet(given, DOMAIN ls) = SumFunctionOnSet(given, DOMAIN shares)
  BY <1>2, <1>3, <1>4, SumWithoutZeros
<1>7. SumFunction(shares) = SumFunctionOnSet(given, DOMAIN ls)
  BY <1>5, <1>6 DEF SumFunction
<1>. QED
  BY <1>1, <1>7 DEF given, shares

Least(m, n) == IF m < n THEN m ELSE n

\* After the turns of some lots the debt is filled, or they have nothing left.
LEMMA TurnsFill ==
  ASSUME NEW ls \in Lots, NEW credits \in Nat,
         NEW S \in SUBSET DOMAIN ls, \A k \in S : Ahead(ls, k) \subseteq S
  PROVE  SumFunctionOnSet(Given(ls, credits), S)
           = Least(credits, SumFunctionOnSet(Availables(ls), S))
<1>. DEFINE given == Given(ls, credits)
            av == Availables(ls)
            Closed(T) == \A k \in T : Ahead(ls, k) \subseteq T
            G == {T \in SUBSET DOMAIN ls : Closed(T) =>
                    SumFunctionOnSet(given, T) = Least(credits, SumFunctionOnSet(av, T))}
<1>1. IsFiniteSet(DOMAIN ls) /\ \A k \in DOMAIN ls : av[k] \in Nat /\ av[k] = Available(ls[k])
  BY LotsType
<1>2. \A k \in DOMAIN ls : given[k] \in Nat
  BY GivenType
<1>3. ASSUME NEW T \in SUBSET DOMAIN ls, \A U \in SUBSET T : U # T => U \in G
      PROVE  T \in G
  <2>1. CASE T = {}
    <3>1. SumFunctionOnSet(given, {}) = 0 /\ SumFunctionOnSet(av, {}) = 0
      BY SumEmpty
    <3>. QED
      BY <2>1, <3>1 DEF Least
  <2>2. CASE T # {} /\ Closed(T)
    <3>1. PICK m \in T : \A i \in T : i = m \/ Precedes(ls, i, m)
      BY <2>2, LastExists
    <3>2. m \in DOMAIN ls /\ IsFiniteSet(T)
      BY <1>1, <3>1, FS_Subset
    <3>3. T \ {m} = Ahead(ls, m)
      <4>1. m \notin Ahead(ls, m)
        BY <3>2, PrecedesOrder DEF Ahead
      <4>2. Ahead(ls, m) \subseteq T
        BY <2>2, <3>1
      <4>3. T \ {m} \subseteq Ahead(ls, m)
        BY <3>1 DEF Ahead
      <4>. QED
        BY <4>1, <4>2, <4>3
    <3>4. Closed(T \ {m})
      <4>1. SUFFICES ASSUME NEW k \in T \ {m}, NEW i \in Ahead(ls, k)
                     PROVE  i \in Ahead(ls, m)
        BY <3>3
      <4>2. i \in DOMAIN ls /\ k \in DOMAIN ls /\ Precedes(ls, i, k) /\ Precedes(ls, k, m)
        BY <3>3, <4>1 DEF Ahead
      <4>3. Precedes(ls, i, m)
        BY <3>2, <4>2, PrecedesOrder
      <4>. QED
        BY <4>2, <4>3 DEF Ahead
    <3>. DEFINE s == SumFunctionOnSet(av, T \ {m})
                t == SumFunctionOnSet(given, T \ {m})
    <3>5. t = Least(credits, s)
      BY <1>3, <3>1, <3>4
    <3>6. s \in Nat /\ Remaining(ls, credits, m) = credits - s
      BY <3>3, AheadSum
    <3>7. given[m] = IF credits - s > 0 /\ av[m] > 0
                     THEN IF av[m] < credits - s THEN av[m] ELSE credits - s
                     ELSE 0
      BY <1>1, <3>2, <3>6 DEF Given, Shares
    <3>8. /\ SumFunctionOnSet(av, T) = av[m] + s
          /\ SumFunctionOnSet(given, T) = given[m] + t
      <4>1. \A k \in T : av[k] \in Int /\ given[k] \in Int
        BY <1>1, <1>2
      <4>. HIDE DEF av, given
      <4>. QED
        BY <3>1, <3>2, <4>1, SumElement
    <3>9. av[m] \in Nat /\ given[m] \in Nat
      BY <1>1, <1>2, <3>2
    <3>. HIDE DEF s, t, av, given
    <3>10. SumFunctionOnSet(given, T) = Least(credits, SumFunctionOnSet(av, T))
      BY <3>5, <3>6, <3>7, <3>8, <3>9 DEF Least
    <3>. QED
      BY <3>10
  <2>. QED
    BY <2>1, <2>2
<1>4. \A T \in SUBSET DOMAIN ls : T \in G
  <2>. HIDE DEF G
  <2>. QED
    BY <1>1, <1>3, SubsetInduction
<1>. QED
  BY <1>4

\* As long as the lots have enough, the turns of the loop fill the debt.
LEMMA SharesFill ==
  ASSUME NEW ls \in Lots, NEW credits \in Nat,
         SumFunctionOnSet(Availables(ls), DOMAIN ls) >= credits
  PROVE  SumFunction(Shares(ls, credits)) = credits
<1>1. \A k \in DOMAIN ls : Availables(ls)[k] \in Nat
  BY LotsType
<1>2. SumFunctionOnSet(Availables(ls), DOMAIN ls) \in Nat
  BY <1>1, LotsType, SumType
<1>3. \A k \in DOMAIN ls : Ahead(ls, k) \subseteq DOMAIN ls
  BY DEF Ahead
<1>4. SumFunctionOnSet(Given(ls, credits), DOMAIN ls)
        = Least(credits, SumFunctionOnSet(Availables(ls), DOMAIN ls))
  BY <1>3, TurnsFill
<1>. QED
  BY <1>2, <1>4, GivenType DEF Least

\* A lot gives only what those before it do not have.
LEMMA SharesInTurn ==
  ASSUME NEW ls \in Lots, NEW credits \in Nat, NEW k \in DOMAIN Shares(ls, credits),
         NEW i \in Ahead(ls, k), Available(ls[i]) # 0
  PROVE  i \in DOMAIN Shares(ls, credits) /\ Shares(ls, credits)[i] = Available(ls[i])
<1>. DEFINE av == Availables(ls)
            s == SumFunctionOnSet(av, Ahead(ls, i))
            t == SumFunctionOnSet(av, Ahead(ls, k))
            u == SumFunctionOnSet(av, Ahead(ls, i) \cup {i})
<1>1. k \in DOMAIN ls /\ i \in DOMAIN ls /\ Precedes(ls, i, k)
  BY SharesType DEF Ahead
<1>2. Remaining(ls, credits, k) > 0
  BY DEF Shares
<1>3. /\ Ahead(ls, k) \subseteq DOMAIN ls /\ IsFiniteSet(Ahead(ls, k))
      /\ t \in Nat /\ Remaining(ls, credits, k) = credits - t
  BY AheadSum
<1>4. /\ Ahead(ls, i) \subseteq DOMAIN ls /\ IsFiniteSet(Ahead(ls, i))
      /\ s \in Nat /\ Remaining(ls, credits, i) = credits - s
  BY AheadSum
<1>5. \A h \in DOMAIN ls : av[h] \in Nat /\ av[h] = Available(ls[h])
  BY LotsType
<1>6. Ahead(ls, i) \cup {i} \in SUBSET Ahead(ls, k)
  BY <1>1, PrecedesOrder DEF Ahead
<1>7. i \notin Ahead(ls, i)
  BY <1>1, PrecedesOrder DEF Ahead
<1>8. u = av[i] + s
  <2>1. \A h \in Ahead(ls, i) \cup {i} : av[h] \in Int
    BY <1>1, <1>4, <1>5
  <2>. HIDE DEF av
  <2>. QED
    BY <1>4, <1>7, <2>1, SumAdd
<1>9. u <= t
  <2>1. \A h \in Ahead(ls, k) : av[h] \in Nat
    BY <1>3, <1>5
  <2>. HIDE DEF av
  <2>. QED
    BY <1>3, <1>6, <2>1, SumOfPart
<1>10. av[i] \in Nat /\ av[i] = Available(ls[i])
  BY <1>1, <1>5
<1>. HIDE DEF s, t, u, av
<1>11. /\ Remaining(ls, credits, i) > 0
       /\ Available(ls[i]) > 0
       /\ Available(ls[i]) < Remaining(ls, credits, i)
  BY <1>2, <1>3, <1>4, <1>8, <1>9, <1>10
<1>. QED
  BY <1>1, <1>11 DEF Shares

-----------------------------------------------------------------------------
(* Reserving and finalizing, on the lots of one account. *)

\* Credits of a lot in all, and what its allocations change.
LEMMA ReserveLotsFacts ==
  ASSUME NEW ls \in Lots, NEW credits \in Nat,
         NEW shares, shares = Shares(ls, credits), SumFunction(shares) = credits,
         NEW reserved, reserved = ReserveLots(ls, shares)
  PROVE  /\ reserved \in Lots
         /\ DOMAIN reserved = DOMAIN ls
         /\ \A k \in DOMAIN ls :
              /\ reserved[k].kind = ls[k].kind
              /\ reserved[k].credited = ls[k].credited
              /\ reserved[k].consumed = ls[k].consumed
              /\ reserved[k].reserved =
                   ls[k].reserved + IF k \in DOMAIN shares THEN shares[k] ELSE 0
         /\ SumFunctionOnSet(Availables(reserved), DOMAIN ls)
              = SumFunctionOnSet(Availables(ls), DOMAIN ls) - credits
<1>. DEFINE given == Given(ls, credits)
            av == Availables(ls)
            left == Availables(reserved)
<1>1. /\ ls \in Seq(Lot) /\ DOMAIN ls = 1 .. Len(ls) /\ Len(ls) \in Nat
      /\ IsFiniteSet(DOMAIN ls)
      /\ \A k \in DOMAIN ls : ls[k] \in Lot /\ av[k] = Available(ls[k]) /\ av[k] \in Nat
      /\ \A k \in DOMAIN ls : ls[k].reserved + ls[k].consumed <= ls[k].credited
  BY LotsType DEF Lots
<1>2. /\ DOMAIN shares \subseteq DOMAIN ls
      /\ \A k \in DOMAIN shares : shares[k] \in Nat \ {0} /\ shares[k] <= Available(ls[k])
  BY SharesType
<1>3. \A k \in DOMAIN ls : given[k] = IF k \in DOMAIN shares THEN shares[k] ELSE 0
  BY DEF Given
<1>4. ASSUME NEW k \in DOMAIN ls
      PROVE  /\ reserved[k] \in Lot
             /\ reserved[k].kind = ls[k].kind
             /\ reserved[k].credited = ls[k].credited
             /\ reserved[k].consumed = ls[k].consumed
             /\ reserved[k].reserved = ls[k].reserved + given[k]
             /\ reserved[k].reserved + reserved[k].consumed <= reserved[k].credited
             /\ given[k] \in Nat
  <2>1. ls[k] \in Lot /\ ls[k].reserved + ls[k].consumed <= ls[k].credited
    BY <1>1
  <2>2. CASE k \in DOMAIN shares
    <3>1. reserved[k] = [ls[k] EXCEPT !.reserved = @ + shares[k]]
      BY <2>2 DEF ReserveLots
    <3>2. given[k] = shares[k] /\ shares[k] \in Nat /\ shares[k] <= Available(ls[k])
      BY <1>2, <1>3, <2>2
    <3>. HIDE DEF given
    <3>. QED
      BY <2>1, <3>1, <3>2 DEF Lot, Available
  <2>3. CASE k \notin DOMAIN shares
    <3>1. reserved[k] = ls[k]
      BY <2>3 DEF ReserveLots
    <3>2. given[k] = 0
      BY <1>3, <2>3
    <3>. HIDE DEF given
    <3>. QED
      BY <2>1, <3>1, <3>2 DEF Lot, Available
  <2>. QED
    BY <2>2, <2>3
<1>5. reserved = [k \in DOMAIN ls |-> reserved[k]] /\ DOMAIN reserved = DOMAIN ls
  BY DEF ReserveLots
<1>6. reserved \in Lots
  <2>. HIDE DEF given, av, left
  <2>1. reserved \in Seq(Lot)
    BY <1>1, <1>4, <1>5
  <2>. QED
    BY <1>4, <1>5, <2>1 DEF Lots
<1>7. \A k \in DOMAIN ls : left[k] \in Int /\ given[k] \in Int /\ av[k] = left[k] + given[k]
  <2>1. SUFFICES ASSUME NEW k \in DOMAIN ls
                 PROVE  left[k] \in Int /\ given[k] \in Int /\ av[k] = left[k] + given[k]
    OBVIOUS
  <2>2. left[k] = Available(reserved[k]) /\ left[k] \in Nat
    BY <1>5, <1>6, LotsType
  <2>3. ls[k] \in Lot /\ reserved[k] \in Lot /\ av[k] = Available(ls[k])
    BY <1>1, <1>4
  <2>4. given[k] \in Nat /\ reserved[k].reserved = ls[k].reserved + given[k]
        /\ reserved[k].credited = ls[k].credited /\ reserved[k].consumed = ls[k].consumed
    BY <1>4
  <2>. HIDE DEF given, av, left
  <2>. QED
    BY <2>2, <2>3, <2>4 DEF Lot, Available
<1>8. SumFunctionOnSet(av, DOMAIN ls)
        = SumFunctionOnSet(left, DOMAIN ls) + SumFunctionOnSet(given, DOMAIN ls)
  <2>. HIDE DEF given, av, left
  <2>. QED
    BY <1>1, <1>7, SumPlus
<1>9. SumFunctionOnSet(given, DOMAIN ls) = credits
  BY GivenType
<1>10. SumFunctionOnSet(left, DOMAIN ls) \in Int
  <2>. HIDE DEF given, av, left
  <2>. QED
    BY <1>1, <1>7, SumType
<1>11. SumFunctionOnSet(left, DOMAIN ls) = SumFunctionOnSet(av, DOMAIN ls) - credits
  <2>. HIDE DEF given, av, left
  <2>. QED
    BY <1>8, <1>9, <1>10
<1>. QED
  BY <1>3, <1>4, <1>5, <1>6, <1>11

\* An allocation whose credits the lots have reserved.
Allocated(ls, shares) ==
  /\ DOMAIN shares \subseteq DOMAIN ls
  /\ \A k \in DOMAIN shares : shares[k] \in Nat /\ ls[k].reserved >= shares[k]

\* The end of an allocation takes it off the reserved credits: it is consumed, or
\* available again.
LEMMA FinalizeLotsFacts ==
  ASSUME NEW ls \in Lots, NEW shares, Allocated(ls, shares),
         NEW status \in {"settled", "released"},
         NEW ended, ended = FinalizeLots(ls, shares, status)
  PROVE  /\ ended \in Lots
         /\ DOMAIN ended = DOMAIN ls
         /\ \A k \in DOMAIN ls :
              /\ ended[k].reserved =
                   ls[k].reserved - IF k \in DOMAIN shares THEN shares[k] ELSE 0
              /\ ended[k].consumed =
                   ls[k].consumed + IF k \in DOMAIN shares /\ status = "settled"
                                    THEN shares[k] ELSE 0
         /\ SumFunctionOnSet(Availables(ended), DOMAIN ls)
              = SumFunctionOnSet(Availables(ls), DOMAIN ls)
                  + IF status = "released" THEN SumFunction(shares) ELSE 0
<1>. DEFINE part == [k \in DOMAIN ls |-> IF k \in DOMAIN shares THEN shares[k] ELSE 0]
            back == [k \in DOMAIN ls |-> IF status = "released" THEN part[k] ELSE 0]
            av == Availables(ls)
            left == Availables(ended)
<1>1. /\ ls \in Seq(Lot) /\ DOMAIN ls = 1 .. Len(ls) /\ Len(ls) \in Nat
      /\ IsFiniteSet(DOMAIN ls)
      /\ \A k \in DOMAIN ls : ls[k] \in Lot /\ av[k] = Available(ls[k]) /\ av[k] \in Nat
      /\ \A k \in DOMAIN ls : ls[k].reserved + ls[k].consumed <= ls[k].credited
  BY LotsType DEF Lots
<1>2. ASSUME NEW k \in DOMAIN ls
      PROVE  /\ ended[k] \in Lot
             /\ ended[k].credited = ls[k].credited
             /\ ended[k].reserved = ls[k].reserved - part[k]
             /\ ended[k].consumed = ls[k].consumed + IF status = "settled" THEN part[k] ELSE 0
             /\ ended[k].reserved + ended[k].consumed <= ended[k].credited
             /\ part[k] \in Nat
  <2>1. ls[k] \in Lot /\ ls[k].reserved + ls[k].consumed <= ls[k].credited
    BY <1>1
  <2>2. CASE k \in DOMAIN shares
    <3>1. ended[k] = [ls[k] EXCEPT !.reserved = @ - shares[k],
                        !.consumed = IF status = "settled" THEN @ + shares[k] ELSE @]
      BY <2>2 DEF FinalizeLots
    <3>2. part[k] = shares[k] /\ shares[k] \in Nat /\ ls[k].reserved >= shares[k]
      BY <2>2 DEF Allocated
    <3>. HIDE DEF part
    <3>3. /\ ended[k].credited = ls[k].credited
          /\ ended[k].reserved = ls[k].reserved - shares[k]
          /\ ended[k].consumed =
               IF status = "settled" THEN ls[k].consumed + shares[k] ELSE ls[k].consumed
      BY <2>1, <3>1 DEF Lot
    <3>4. /\ ls[k].credited \in Nat /\ ls[k].reserved \in Nat /\ ls[k].consumed \in Nat
      BY <2>1 DEF Lot
    <3>5. /\ ended[k].reserved \in Nat /\ ended[k].consumed \in Nat
          /\ ended[k].reserved + ended[k].consumed <= ended[k].credited
      BY <2>1, <3>2, <3>3, <3>4
    <3>6. ended[k] \in Lot
      BY <2>1, <3>1, <3>3, <3>5 DEF Lot
    <3>. QED
      BY <3>2, <3>3, <3>4, <3>5, <3>6
  <2>3. CASE k \notin DOMAIN shares
    <3>1. ended[k] = ls[k] /\ part[k] = 0
      BY <2>3 DEF FinalizeLots
    <3>. HIDE DEF part
    <3>. QED
      BY <2>1, <3>1 DEF Lot
  <2>. QED
    BY <2>2, <2>3
<1>3. ended = [k \in DOMAIN ls |-> ended[k]] /\ DOMAIN ended = DOMAIN ls
  BY DEF FinalizeLots
<1>4. ended \in Lots
  <2>. HIDE DEF part
  <2>1. ended \in Seq(Lot)
    BY <1>1, <1>2, <1>3
  <2>. QED
    BY <1>2, <1>3, <2>1 DEF Lots
<1>5. \A k \in DOMAIN ls : av[k] \in Int /\ back[k] \in Int /\ left[k] = av[k] + back[k]
  <2>1. SUFFICES ASSUME NEW k \in DOMAIN ls
                 PROVE  av[k] \in Int /\ back[k] \in Int /\ left[k] = av[k] + back[k]
    OBVIOUS
  <2>2. left[k] = Available(ended[k])
    BY <1>3, <1>4, LotsType
  <2>3. ls[k] \in Lot /\ ended[k] \in Lot /\ av[k] = Available(ls[k]) /\ av[k] \in Nat
    BY <1>1, <1>2
  <2>4. /\ part[k] \in Nat /\ back[k] = IF status = "released" THEN part[k] ELSE 0
        /\ ended[k].credited = ls[k].credited
        /\ ended[k].reserved = ls[k].reserved - part[k]
        /\ ended[k].consumed = ls[k].consumed + IF status = "settled" THEN part[k] ELSE 0
    BY <1>2
  <2>. HIDE DEF part, back, av, left
  <2>. QED
    BY <2>2, <2>3, <2>4 DEF Lot, Available
<1>6. SumFunctionOnSet(left, DOMAIN ls)
        = SumFunctionOnSet(av, DOMAIN ls) + SumFunctionOnSet(back, DOMAIN ls)
  <2>. HIDE DEF part, back, av, left
  <2>. QED
    BY <1>1, <1>5, SumPlus
<1>7. SumFunctionOnSet(back, DOMAIN ls)
        = IF status = "released" THEN SumFunction(shares) ELSE 0
  <2>1. DOMAIN shares \in SUBSET DOMAIN ls /\ IsFiniteSet(DOMAIN shares)
    BY <1>1, FS_Subset DEF Allocated
  <2>2. CASE status = "released"
    <3>1. /\ \A k \in DOMAIN shares : shares[k] = back[k] /\ back[k] \in Int
          /\ \A k \in DOMAIN ls \ DOMAIN shares : back[k] = 0
      BY <2>1, <2>2 DEF Allocated
    <3>. HIDE DEF back
    <3>2. SumFunctionOnSet(back, DOMAIN ls) = SumFunctionOnSet(back, DOMAIN shares)
      BY <1>1, <2>1, <3>1, SumWithoutZeros
    <3>3. SumFunctionOnSet(shares, DOMAIN shares) = SumFunctionOnSet(back, DOMAIN shares)
      BY <2>1, <3>1, SumSame
    <3>. QED
      BY <2>2, <3>2, <3>3 DEF SumFunction
  <2>3. CASE status # "released"
    <3>1. {} \in SUBSET DOMAIN ls /\ \A k \in DOMAIN ls \ {} : back[k] = 0
      BY <2>3
    <3>. HIDE DEF back
    <3>2. SumFunctionOnSet(back, DOMAIN ls) = SumFunctionOnSet(back, {})
      BY <1>1, <3>1, SumWithoutZeros
    <3>. QED
      BY <2>3, <3>2, SumEmpty
  <2>. QED
    BY <2>2, <2>3
<1>. QED
  BY <1>2, <1>3, <1>4, <1>6, <1>7

\* The lots with a new one, the n-th.
Longer(ls, kind, credits, longer, n) ==
  longer = Append(ls, NewLot(kind, credits)) /\ n = Len(ls) + 1

\* A new lot leaves the others as they are.
LEMMA AppendLotFacts ==
  ASSUME NEW ls \in Lots, NEW kind \in Kinds, NEW credits \in Nat,
         NEW longer, NEW n, Longer(ls, kind, credits, longer, n)
  PROVE  /\ longer \in Lots
         /\ DOMAIN longer = DOMAIN ls \cup {n} /\ n \notin DOMAIN ls
         /\ \A k \in DOMAIN ls : longer[k] = ls[k]
         /\ longer[n] = NewLot(kind, credits)
<1>0. PICK lot : lot = NewLot(kind, credits)
  OBVIOUS
<1>1. /\ ls \in Seq(Lot) /\ DOMAIN ls = 1 .. Len(ls) /\ Len(ls) \in Nat
      /\ \A k \in DOMAIN ls : ls[k].reserved + ls[k].consumed <= ls[k].credited
  BY LotsType DEF Lots
<1>2. lot \in Lot /\ lot.reserved + lot.consumed <= lot.credited
  BY <1>0 DEF NewLot, Lot, Kinds
<1>3. /\ longer \in Seq(Lot)
      /\ DOMAIN longer = DOMAIN ls \cup {n} /\ n \notin DOMAIN ls
      /\ \A k \in DOMAIN ls : longer[k] = ls[k]
      /\ longer[n] = lot
  <2>1. longer = Append(ls, lot) /\ n = Len(ls) + 1
    BY <1>0 DEF Longer
  <2>. QED
    BY <1>1, <1>2, <2>1
<1>4. longer \in Lots
  BY <1>1, <1>2, <1>3 DEF Lots
<1>. QED
  BY <1>0, <1>3, <1>4

\* A new lot adds what it was credited.
LEMMA AppendLotSum ==
  ASSUME NEW ls \in Lots, NEW kind \in Kinds, NEW credits \in Nat,
         NEW longer, NEW n, Longer(ls, kind, credits, longer, n)
  PROVE  SumFunctionOnSet(Availables(longer), DOMAIN longer)
           = SumFunctionOnSet(Availables(ls), DOMAIN ls) + credits
<1>. DEFINE av == Availables(ls)
            more == Availables(longer)
<1>1. IsFiniteSet(DOMAIN ls) /\ \A k \in DOMAIN ls : av[k] = Available(ls[k]) /\ av[k] \in Nat
  BY LotsType
<1>2. /\ longer \in Lots
      /\ DOMAIN longer = DOMAIN ls \cup {n} /\ n \notin DOMAIN ls
      /\ \A k \in DOMAIN ls : longer[k] = ls[k]
      /\ longer[n] = NewLot(kind, credits)
  BY AppendLotFacts
<1>3. Available(NewLot(kind, credits)) = credits
  BY DEF NewLot, Available
<1>5. /\ \A k \in DOMAIN ls : more[k] = av[k]
      /\ more[n] = credits
      /\ \A k \in DOMAIN ls \cup {n} : more[k] \in Int
  BY <1>1, <1>2, <1>3 DEF Availables
<1>6. SumFunctionOnSet(more, DOMAIN ls \cup {n}) = more[n] + SumFunctionOnSet(more, DOMAIN ls)
  <2>. HIDE DEF more
  <2>. QED
    BY <1>1, <1>2, <1>5, SumAdd
<1>7. SumFunctionOnSet(more, DOMAIN ls) = SumFunctionOnSet(av, DOMAIN ls)
  <2>. HIDE DEF more, av
  <2>. QED
    BY <1>1, <1>5, SumSame
<1>8. SumFunctionOnSet(av, DOMAIN ls) \in Nat
  BY <1>1, SumType
<1>9. SumFunctionOnSet(more, DOMAIN longer) = SumFunctionOnSet(av, DOMAIN ls) + credits
  BY <1>2, <1>5, <1>6, <1>7, <1>8
<1>. QED
  BY <1>9

-----------------------------------------------------------------------------
(* The books: balance, ledger, lots and allocations. *)

Account(j) == Request[j].account

\* The entries of an account.
Entries(a) == {r \in DOMAIN ledger : LedgerAccount(r) = a}

BookTypes ==
  /\ balance \in [Accounts -> Nat]
  /\ lots \in [Accounts -> Lots]
  /\ allocation = [j \in Jobs |-> allocation[j]]
  /\ DOMAIN ledger \subseteq References
  /\ \A r \in DOMAIN ledger : ledger[r] \in Int
  /\ \A a \in Accounts : IsFiniteSet(Entries(a))
  /\ outcome \in [Jobs -> Outcomes]
  /\ \A e \in sent : e.session \in Payments
  /\ allowance \in Allowances

\* What a job was charged was taken of lots of its account.
AllocationsSound ==
  \A j \in Jobs : authorization[j] # "none" =>
    /\ DOMAIN allocation[j] \subseteq DOMAIN lots[Account(j)]
    /\ \A k \in DOMAIN allocation[j] : allocation[j][k] \in Nat
    /\ SumFunction(allocation[j]) = Request[j].price

\* A request that was not answered has taken nothing.
UnaskedFree == \A j \in Jobs : outcome[j] = "unasked" => authorization[j] = "none"

Books == /\ BookTypes /\ AllocationsSound /\ UnaskedFree
         /\ LotsMatchBalance /\ LedgerMatchesBalance /\ LotsMatchAllocations

\* The inductive invariant of the books.
BooksInv == IInv /\ Books

\* Whose request it is, and that it costs something.
LEMMA RequestFacts ==
  ASSUME NEW j \in Jobs
  PROVE  Account(j) \in Accounts /\ Request[j].price \in Nat /\ Request[j].price > 0
BY RequestAssumption DEF Account

\* The accounts of references, and what a reference is.
LEMMA ReferenceFacts ==
  /\ \A a \in Accounts : /\ <<"grant", a>> \in References
                         /\ LedgerAccount(<<"grant", a>>) = a
  /\ \A p \in Payments : /\ <<"stripe", p>> \in References
                         /\ LedgerAccount(<<"stripe", p>>) = Session[p].account
  /\ \A j \in Jobs, kind \in {"reservation", "settlement", "release"} :
       /\ <<kind, j>> \in References
       /\ LedgerAccount(<<kind, j>>) = Account(j)
BY DEF References, LedgerAccount, Account

\* One reference more, with what it adds to the balance.
LEMMA EntryRecorded ==
  ASSUME BookTypes, LedgerMatchesBalance,
         NEW r \in References, NEW c \in Int, NEW a \in Accounts,
         LedgerAccount(r) = a, Record(r, c),
         balance'[a] = balance[a] + c,
         \A b \in Accounts \ {a} : balance'[b] = balance[b]
  PROVE  /\ LedgerMatchesBalance'
         /\ DOMAIN ledger' \subseteq References
         /\ \A x \in DOMAIN ledger' : ledger'[x] \in Int
         /\ \A b \in Accounts : IsFiniteSet(Entries(b)')
<1>1. /\ r \notin DOMAIN ledger /\ DOMAIN ledger' = DOMAIN ledger \cup {r}
      /\ ledger'[r] = c /\ \A x \in DOMAIN ledger : ledger'[x] = ledger[x]
  BY DEF Record
<1>2. /\ Entries(a)' = Entries(a) \cup {r} /\ r \notin Entries(a)
      /\ \A b \in Accounts \ {a} : Entries(b)' = Entries(b)
  BY <1>1 DEF Entries, LedgerAccount
<1>3. /\ DOMAIN ledger' \subseteq References
      /\ \A x \in DOMAIN ledger' : ledger'[x] \in Int
  BY <1>1 DEF BookTypes
<1>4. ASSUME NEW b \in Accounts
      PROVE  IsFiniteSet(Entries(b)) /\ Entries(b) \subseteq DOMAIN ledger
             /\ SumFunctionOnSet(ledger', Entries(b)) = SumFunctionOnSet(ledger, Entries(b))
  <2>1. IsFiniteSet(Entries(b)) /\ Entries(b) \subseteq DOMAIN ledger
    BY DEF BookTypes, Entries
  <2>2. \A x \in Entries(b) : ledger'[x] = ledger[x]
    BY <1>1, <2>1
  <2>. QED
    BY <2>1, <2>2, SumSame
<1>5. \A b \in Accounts : IsFiniteSet(Entries(b)')
  BY <1>2, <1>4, FS_AddElement
<1>6. \A b \in Accounts : balance[b] = SumFunctionOnSet(ledger, Entries(b))
  BY DEF LedgerMatchesBalance, Entries
<1>7. \A b \in Accounts : balance'[b] = SumFunctionOnSet(ledger', Entries(b)')
  <2>1. SumFunctionOnSet(ledger', Entries(a) \cup {r})
          = ledger'[r] + SumFunctionOnSet(ledger', Entries(a))
    <3>1. \A x \in Entries(a) \cup {r} : ledger'[x] \in Int
      BY <1>1, <1>3, <1>4
    <3>. QED
      BY <1>2, <1>4, <3>1, SumAdd
  <2>2. balance[a] \in Nat
    BY DEF BookTypes
  <2>3. balance'[a] = SumFunctionOnSet(ledger', Entries(a)')
    BY <1>1, <1>2, <1>4, <1>6, <2>1, <2>2
  <2>4. ASSUME NEW b \in Accounts \ {a}
        PROVE  balance'[b] = SumFunctionOnSet(ledger', Entries(b)')
    BY <1>2, <1>4, <1>6
  <2>. QED
    BY <2>3, <2>4
<1>8. LedgerMatchesBalance'
  BY <1>7 DEF LedgerMatchesBalance, Entries
<1>. QED
  BY <1>3, <1>5, <1>8

\* The lots of one account change together with its balance.
LEMMA LotsMoved ==
  ASSUME BookTypes, LotsMatchBalance, NEW a \in Accounts, NEW c \in Int,
         lots'[a] \in Lots,
         SumFunctionOnSet(Availables(lots'[a]), DOMAIN lots'[a])
           = SumFunctionOnSet(Availables(lots[a]), DOMAIN lots[a]) + c,
         balance'[a] = balance[a] + c,
         \A b \in Accounts \ {a} : lots'[b] = lots[b] /\ balance'[b] = balance[b]
  PROVE  LotsMatchBalance'
<1>1. \A b \in Accounts :
        balance[b] = SumFunctionOnSet(Availables(lots[b]), DOMAIN lots[b])
  BY DEF LotsMatchBalance, Availables, SumFunction
<1>2. \A b \in Accounts :
        balance'[b] = SumFunctionOnSet(Availables(lots'[b]), DOMAIN lots'[b])
  BY <1>1
<1>. QED
  BY <1>2 DEF LotsMatchBalance, Availables, SumFunction

\* The sum of what jobs took of one lot, when one more job takes of it.
LEMMA TakenMore ==
  ASSUME NEW A, NEW B, NEW S, IsFiniteSet(S), NEW j, j \notin S, NEW k,
         \A i \in S : A[i][k] \in Int /\ B[i][k] = A[i][k], B[j][k] \in Int
  PROVE  SumFunction([i \in S \cup {j} |-> B[i][k]])
           = SumFunction([i \in S |-> A[i][k]]) + B[j][k]
<1>1. PICK f : f = [i \in S |-> A[i][k]]
  OBVIOUS
<1>2. PICK g : g = [i \in S \cup {j} |-> B[i][k]]
  OBVIOUS
<1>3. /\ \A i \in S : f[i] \in Int /\ g[i] = f[i]
      /\ g[j] = B[j][k]
      /\ \A i \in S \cup {j} : g[i] \in Int
  BY <1>1, <1>2
<1>4. SumFunctionOnSet(g, S \cup {j}) = g[j] + SumFunctionOnSet(g, S)
  BY <1>3, SumAdd
<1>5. SumFunctionOnSet(f, S) = SumFunctionOnSet(g, S)
  BY <1>3, SumSame
<1>6. SumFunctionOnSet(f, S) \in Int
  BY <1>3, SumType
<1>7. SumFunction(f) = SumFunctionOnSet(f, S) /\ SumFunction(g) = SumFunctionOnSet(g, S \cup {j})
  BY <1>1, <1>2 DEF SumFunction
<1>8. SumFunction(g) = SumFunction(f) + g[j]
  BY <1>3, <1>4, <1>5, <1>6, <1>7
<1>. QED
  BY <1>1, <1>2, <1>3, <1>8

\* The same when one job less does.
LEMMA TakenLess ==
  ASSUME NEW A, NEW S, IsFiniteSet(S), NEW j \in S, NEW k,
         \A i \in S : A[i][k] \in Int
  PROVE  SumFunction([i \in S \ {j} |-> A[i][k]])
           = SumFunction([i \in S |-> A[i][k]]) - A[j][k]
<1>1. PICK f : f = [i \in S |-> A[i][k]]
  OBVIOUS
<1>2. PICK g : g = [i \in S \ {j} |-> A[i][k]]
  OBVIOUS
<1>3. /\ \A i \in S : f[i] \in Int
      /\ f[j] = A[j][k]
      /\ \A i \in S \ {j} : g[i] = f[i]
      /\ IsFiniteSet(S \ {j})
  BY <1>1, <1>2, FS_Subset
<1>4. SumFunctionOnSet(f, S) = f[j] + SumFunctionOnSet(f, S \ {j})
  BY <1>3, SumElement
<1>5. SumFunctionOnSet(g, S \ {j}) = SumFunctionOnSet(f, S \ {j})
  BY <1>3, SumSame
<1>6. SumFunctionOnSet(f, S \ {j}) \in Int /\ f[j] \in Int
  BY <1>3, SumType
<1>7. SumFunction(f) = SumFunctionOnSet(f, S) /\ SumFunction(g) = SumFunctionOnSet(g, S \ {j})
  BY <1>1, <1>2 DEF SumFunction
<1>8. SumFunction(g) = SumFunction(f) - f[j]
  BY <1>4, <1>5, <1>6, <1>7
<1>. QED
  BY <1>1, <1>2, <1>3, <1>8

\* The jobs that have taken of a lot.
Takers(a, k, status) ==
  {j \in Jobs : /\ Request[j].account = a /\ authorization[j] = status
                /\ k \in DOMAIN allocation[j]}

\* What was taken of a lot is summed over those who took.
LEMMA TakenIs ==
  ASSUME NEW a, NEW k, NEW status
  PROVE  Taken(a, k, status) = SumFunction([j \in Takers(a, k, status) |-> allocation[j][k]])
BY DEF Taken, Takers

\* They are finitely many.
LEMMA TakersFinite ==
  ASSUME AllocationsSound, NEW a, NEW k, NEW status \in {"reserved", "settled", "released"}
  PROVE  /\ IsFiniteSet(Takers(a, k, status))
         /\ \A j \in Takers(a, k, status) : allocation[j][k] \in Nat
<1>1. Takers(a, k, status) \subseteq Jobs
  BY DEF Takers
<1>2. IsFiniteSet(Takers(a, k, status))
  BY <1>1, RequestAssumption, FS_Subset
<1>. QED
  BY <1>2 DEF Takers, AllocationsSound

\* A job that reserves credits has them reserved in its lots.
LEMMA ReservedAllocated ==
  ASSUME Books, NEW j \in Jobs, authorization[j] = "reserved"
  PROVE  Allocated(lots[Account(j)], allocation[j])
<1>. DEFINE a == Account(j)
<1>1. AllocationsSound /\ LotsMatchAllocations /\ a \in Accounts
  BY RequestFacts DEF Books
<1>2. /\ DOMAIN allocation[j] \subseteq DOMAIN lots[a]
      /\ \A k \in DOMAIN allocation[j] : allocation[j][k] \in Nat
  BY <1>1 DEF AllocationsSound
<1>3. ASSUME NEW k \in DOMAIN allocation[j]
      PROVE  lots[a][k].reserved >= allocation[j][k]
  <2>1. PICK S : S = Takers(a, k, "reserved")
    OBVIOUS
  <2>2. IsFiniteSet(S) /\ j \in S /\ \A i \in S : allocation[i][k] \in Nat
    <3>1. IsFiniteSet(S) /\ \A i \in S : allocation[i][k] \in Nat
      BY <1>1, <2>1, TakersFinite
    <3>. QED
      BY <2>1, <3>1 DEF Takers, Account
  <2>3. PICK f : f = [i \in S |-> allocation[i][k]]
    OBVIOUS
  <2>4. \A i \in S : f[i] \in Nat
    BY <2>2, <2>3
  <2>5. SumFunctionOnSet(f, {j}) <= SumFunctionOnSet(f, S)
    BY <2>2, <2>4, SumOfPart
  <2>6. SumFunctionOnSet(f, {j}) = f[j]
    <3>1. f[j] \in Int
      BY <2>2, <2>4
    <3>. QED
      BY <3>1, SumOne
  <2>7. lots[a][k].reserved = SumFunctionOnSet(f, S)
    <3>1. lots[a][k].reserved = Taken(a, k, "reserved")
      BY <1>1, <1>2 DEF LotsMatchAllocations
    <3>2. Taken(a, k, "reserved") = SumFunction(f)
      BY <2>1, <2>3, TakenIs
    <3>3. DOMAIN f = S
      BY <2>3
    <3>. QED
      BY <3>1, <3>2, <3>3 DEF SumFunction
  <2>8. f[j] = allocation[j][k]
    BY <2>2, <2>3
  <2>9. SumFunctionOnSet(f, S) \in Nat /\ f[j] \in Nat
    BY <2>2, <2>4, SumType
  <2>. QED
    BY <2>5, <2>6, <2>7, <2>8, <2>9
<1>. QED
  BY <1>2, <1>3 DEF Allocated

\* What was taken of a lot nobody could take of.
LEMMA Untaken ==
  ASSUME AllocationsSound, NEW a \in Accounts, NEW k, k \notin DOMAIN lots[a],
         NEW status \in {"reserved", "settled"}
  PROVE  Taken(a, k, status) = 0
<1>1. PICK f : f = [j \in Takers(a, k, status) |-> allocation[j][k]]
  OBVIOUS
<1>2. Takers(a, k, status) = {}
  BY DEF Takers, AllocationsSound, Account
<1>3. DOMAIN f = {} /\ Taken(a, k, status) = SumFunction(f)
  BY <1>1, <1>2, TakenIs
<1>. QED
  BY <1>3, SumEmpty DEF SumFunction

\* The credits of a lot that count under status s, with an allocation of job j in
\* the status.
Moved(a, j, k, s, status, shares) ==
  IF a = Account(j) /\ s = status /\ k \in DOMAIN shares THEN shares[k] ELSE 0

\* The job moves to the status, no other one moves.
Moves(j, status) ==
  /\ authorization \in [Jobs -> {"none", "reserved", "settled", "released"}]
  /\ status \in {"reserved", "settled", "released"} \ {authorization[j]}
  /\ authorization' = [authorization EXCEPT ![j] = status]
  /\ \A i \in Jobs \ {j} : allocation'[i] = allocation[i]

\* The statuses whose credits a lot counts.
Counted == {"reserved", "settled"}

\* What a move changes of what was taken.
LEMMA TakenMoved ==
  ASSUME AllocationsSound, AllocationsSound', NEW j \in Jobs, NEW status, Moves(j, status)
  PROVE  \A a, k : \A s \in Counted :
           Taken(a, k, s)' = Taken(a, k, s) + Moved(a, j, k, s, status, allocation'[j])
                               - Moved(a, j, k, s, authorization[j], allocation[j])
<1>. SUFFICES ASSUME NEW a, NEW k, NEW s \in Counted
              PROVE  Taken(a, k, s)' =
                       Taken(a, k, s) + Moved(a, j, k, s, status, allocation'[j])
                         - Moved(a, j, k, s, authorization[j], allocation[j])
  OBVIOUS
<1>0. /\ authorization \in [Jobs -> {"none", "reserved", "settled", "released"}]
      /\ status \in {"reserved", "settled", "released"} /\ status # authorization[j]
      /\ authorization' = [authorization EXCEPT ![j] = status]
      /\ \A i \in Jobs \ {j} : allocation'[i] = allocation[i]
      /\ s \in {"reserved", "settled"}
  BY DEF Moves, Counted
<1>1. PICK S : S = Takers(a, k, s)
  OBVIOUS
<1>2. PICK T : T = Takers(a, k, s)'
  OBVIOUS
<1>3. IsFiniteSet(S) /\ \A i \in S : allocation[i][k] \in Nat
  BY <1>0, <1>1, TakersFinite
<1>4. IsFiniteSet(T) /\ \A i \in T : allocation'[i][k] \in Nat
  <2>1. T \subseteq Jobs
    BY <1>0, <1>2 DEF Takers
  <2>2. IsFiniteSet(T)
    BY <2>1, RequestAssumption, FS_Subset
  <2>. QED
    BY <1>0, <1>2, <2>2 DEF Takers, AllocationsSound
<1>5. \A i \in Jobs \ {j} : i \in S <=> i \in T
  BY <1>0, <1>1, <1>2 DEF Takers
<1>6. S \subseteq Jobs /\ T \subseteq Jobs
  BY <1>0, <1>1, <1>2 DEF Takers
<1>7. PICK f : f = [i \in S |-> allocation[i][k]]
  OBVIOUS
<1>8. PICK g : g = [i \in T |-> allocation'[i][k]]
  OBVIOUS
<1>9. Taken(a, k, s) = SumFunctionOnSet(f, S) /\ Taken(a, k, s)' = SumFunctionOnSet(g, T)
  <2>1. Taken(a, k, s) = SumFunction(f)
    BY <1>1, <1>7, TakenIs
  <2>2. Taken(a, k, s)' = SumFunction(g)
    BY <1>0, <1>2, <1>8 DEF Taken, Takers
  <2>3. DOMAIN f = S /\ DOMAIN g = T
    BY <1>7, <1>8
  <2>. QED
    BY <2>1, <2>2, <2>3 DEF SumFunction
<1>10. /\ \A i \in S : f[i] = allocation[i][k] /\ f[i] \in Int
       /\ \A i \in T : g[i] = allocation'[i][k] /\ g[i] \in Int
  BY <1>3, <1>4, <1>7, <1>8
<1>11. PICK R : R = S \ {j}
  OBVIOUS
<1>12. R = T \ {j} /\ IsFiniteSet(R)
  BY <1>3, <1>5, <1>6, <1>11, FS_Subset
<1>13. SumFunctionOnSet(f, R) = SumFunctionOnSet(g, R) /\ SumFunctionOnSet(f, R) \in Int
  <2>1. \A i \in R : f[i] = g[i] /\ f[i] \in Int
    BY <1>0, <1>6, <1>10, <1>11, <1>12
  <2>. QED
    BY <1>12, <2>1, SumSame, SumType
<1>14. SumFunctionOnSet(f, S)
         = SumFunctionOnSet(f, R) + Moved(a, j, k, s, authorization[j], allocation[j])
  <2>1. CASE j \in S
    <3>1. SumFunctionOnSet(f, S) = f[j] + SumFunctionOnSet(f, R)
      BY <1>3, <1>10, <1>11, <2>1, SumElement
    <3>2. Moved(a, j, k, s, authorization[j], allocation[j]) = f[j] /\ f[j] \in Int
      BY <1>0, <1>1, <1>10, <2>1 DEF Moved, Takers, Account
    <3>. QED
      BY <1>13, <3>1, <3>2
  <2>2. CASE j \notin S
    <3>1. S = R
      BY <1>11, <2>2
    <3>2. Moved(a, j, k, s, authorization[j], allocation[j]) = 0
      BY <1>0, <1>1, <2>2 DEF Moved, Takers, Account
    <3>. QED
      BY <1>13, <3>1, <3>2
  <2>. QED
    BY <2>1, <2>2
<1>15. SumFunctionOnSet(g, T)
         = SumFunctionOnSet(g, R) + Moved(a, j, k, s, status, allocation'[j])
  <2>0. authorization'[j] = status
    BY <1>0
  <2>1. CASE j \in T
    <3>1. SumFunctionOnSet(g, T) = g[j] + SumFunctionOnSet(g, R)
      BY <1>4, <1>10, <1>12, <2>1, SumElement
    <3>2. Moved(a, j, k, s, status, allocation'[j]) = g[j] /\ g[j] \in Int
      BY <1>0, <1>2, <1>10, <2>0, <2>1 DEF Moved, Takers, Account
    <3>. QED
      BY <1>13, <3>1, <3>2
  <2>2. CASE j \notin T
    <3>1. T = R
      BY <1>12, <2>2
    <3>2. Moved(a, j, k, s, status, allocation'[j]) = 0
      BY <1>0, <1>2, <2>0, <2>2 DEF Moved, Takers, Account
    <3>. QED
      BY <1>13, <3>1, <3>2
  <2>. QED
    BY <2>1, <2>2
<1>16. /\ Moved(a, j, k, s, authorization[j], allocation[j]) \in Int
       /\ Moved(a, j, k, s, status, allocation'[j]) \in Int
  BY <1>0 DEF Moved, AllocationsSound
<1>17. PICK x : x = Moved(a, j, k, s, authorization[j], allocation[j])
  OBVIOUS
<1>18. PICK y : y = Moved(a, j, k, s, status, allocation'[j])
  OBVIOUS
<1>. QED
  BY <1>9, <1>13, <1>14, <1>15, <1>16, <1>17, <1>18

-----------------------------------------------------------------------------
(* The steps. *)

\* Steps that leave the books alone.
LEMMA BooksUntouched ==
  ASSUME Books, UNCHANGED <<balance, ledger, lots, allocation, authorization>>,
         outcome' \in [Jobs -> Outcomes],
         \A j \in Jobs : outcome'[j] = "unasked" => outcome[j] = "unasked",
         \A e \in sent' : e.session \in Payments,
         allowance' \in Allowances
  PROVE  Books'
<1>1. BookTypes'
  BY DEF Books, BookTypes, Entries, LedgerAccount
<1>2. AllocationsSound' /\ UnaskedFree'
  BY DEF Books, AllocationsSound, UnaskedFree
<1>3. LotsMatchBalance' /\ LedgerMatchesBalance'
  BY DEF Books, LotsMatchBalance, LedgerMatchesBalance, LedgerAccount
<1>4. LotsMatchAllocations'
  <2>1. \A b, k, s : Taken(b, k, s)' = Taken(b, k, s)
    BY DEF Taken
  <2>. QED
    BY <2>1 DEF Books, LotsMatchAllocations
<1>. QED
  BY <1>1, <1>2, <1>3, <1>4 DEF Books

\* Credits that come in make a lot of their own, recorded under their reference.
LEMMA GrantBooks ==
  ASSUME Books, NEW a \in Accounts, NEW r \in References, LedgerAccount(r) = a,
         NEW kind \in {"grant", "purchase"}, NEW credits \in Nat,
         Grant(a, r, kind, credits), UNCHANGED stripe
  PROVE  Books'
<1>0. PICK ls : ls = lots[a]
  OBVIOUS
<1>new. PICK longer, n : Longer(ls, kind, credits, longer, n)
  BY DEF Longer
<1>1. /\ Record(r, credits)
      /\ lots' = [lots EXCEPT ![a] = longer]
      /\ balance' = [balance EXCEPT ![a] = @ + credits]
      /\ UNCHANGED <<allocation, authorization, outcome, allowance, sent>>
  BY <1>0, <1>new DEF Longer, Grant, requests, stripe
<1>2. BookTypes /\ LotsMatchBalance /\ LedgerMatchesBalance /\ AllocationsSound /\ UnaskedFree
      /\ LotsMatchAllocations
  BY DEF Books
<1>3. ls \in Lots /\ balance[a] \in Nat
  BY <1>0, <1>2 DEF BookTypes
<1>4. /\ longer \in Lots
      /\ DOMAIN longer = DOMAIN ls \cup {n} /\ n \notin DOMAIN ls
      /\ \A k \in DOMAIN ls : longer[k] = ls[k]
      /\ longer[n] = NewLot(kind, credits)
      /\ SumFunctionOnSet(Availables(longer), DOMAIN longer)
           = SumFunctionOnSet(Availables(ls), DOMAIN ls) + credits
  <2>1. kind \in Kinds
    BY DEF Kinds
  <2>2. longer \in Lots
    BY <1>new, <1>3, <2>1, AppendLotFacts
  <2>3. DOMAIN longer = DOMAIN ls \cup {n}
    BY <1>new, <1>3, <2>1, AppendLotFacts
  <2>4. n \notin DOMAIN ls
    BY <1>new, <1>3, <2>1, AppendLotFacts
  <2>5. \A k \in DOMAIN ls : longer[k] = ls[k]
    BY <1>new, <1>3, <2>1, AppendLotFacts
  <2>6. longer[n] = NewLot(kind, credits)
    BY <1>new, <1>3, <2>1, AppendLotFacts
  <2>7. SumFunctionOnSet(Availables(longer), DOMAIN longer)
          = SumFunctionOnSet(Availables(ls), DOMAIN ls) + credits
    BY <1>new, <1>3, <2>1, AppendLotSum
  <2>. QED
    BY <2>2, <2>3, <2>4, <2>5, <2>6, <2>7
<1>5. /\ lots'[a] = longer /\ balance'[a] = balance[a] + credits
      /\ \A b \in Accounts \ {a} : lots'[b] = lots[b] /\ balance'[b] = balance[b]
      /\ lots' \in [Accounts -> Lots] /\ balance' \in [Accounts -> Nat]
  BY <1>1, <1>2, <1>3, <1>4 DEF BookTypes
<1>6. LotsMatchBalance'
  <2>1. SumFunctionOnSet(Availables(lots'[a]), DOMAIN lots'[a])
          = SumFunctionOnSet(Availables(lots[a]), DOMAIN lots[a]) + credits
    BY <1>0, <1>4, <1>5
  <2>. QED
    BY <1>2, <1>4, <1>5, <2>1, LotsMoved
<1>7. /\ LedgerMatchesBalance' /\ DOMAIN ledger' \subseteq References
      /\ \A x \in DOMAIN ledger' : ledger'[x] \in Int
      /\ \A b \in Accounts : IsFiniteSet(Entries(b)')
  BY <1>1, <1>2, <1>5, EntryRecorded
<1>8. BookTypes'
  BY <1>1, <1>2, <1>5, <1>7 DEF BookTypes
<1>9. AllocationsSound' /\ UnaskedFree'
  <2>1. \A b \in Accounts : DOMAIN lots[b] \subseteq DOMAIN lots'[b]
    BY <1>0, <1>4, <1>5
  <2>. QED
    BY <1>1, <1>2, <2>1, RequestFacts DEF AllocationsSound, UnaskedFree
<1>10. LotsMatchAllocations'
  <2>1. \A b, k, s : Taken(b, k, s)' = Taken(b, k, s)
    BY <1>1 DEF Taken
  <2>2. ASSUME NEW b \in Accounts, NEW k \in DOMAIN lots[b]
        PROVE  lots'[b][k] = lots[b][k]
    BY <1>0, <1>4, <1>5
  <2>3. ASSUME NEW b \in Accounts, NEW k \in DOMAIN lots'[b]
        PROVE  /\ lots'[b][k].reserved = Taken(b, k, "reserved")
               /\ lots'[b][k].consumed = Taken(b, k, "settled")
    <3>1. CASE k \in DOMAIN lots[b]
      BY <1>2, <2>2, <3>1 DEF LotsMatchAllocations
    <3>2. CASE k \notin DOMAIN lots[b]
      <4>1. lots'[b][k] = NewLot(kind, credits)
        BY <1>0, <1>4, <1>5, <2>3, <3>2
      <4>2. Taken(b, k, "reserved") = 0 /\ Taken(b, k, "settled") = 0
        BY <1>2, <3>2, Untaken
      <4>. QED
        BY <4>1, <4>2 DEF NewLot
    <3>. QED
      BY <3>1, <3>2
  <2>. QED
    BY <2>1, <2>3 DEF LotsMatchAllocations
<1>. QED
  BY <1>6, <1>7, <1>8, <1>9, <1>10 DEF Books

\* An admission goes through only with the credits for it.
LEMMA AdmittedCredits ==
  ASSUME NEW r, Verdict(r) = "admitted"
  PROVE  LET a == Request[r.job].account
             c == Request[r.job].price IN
         ~(balance[a] < c) /\ SumFunction(Shares(lots[a], c)) = c
BY DEF Verdict

\* An admission takes its price of the lots of its account, and of its balance.
LEMMA AdmitBooks ==
  ASSUME BooksInv, NEW b \in Accounts, NEW r \in admission[b], Admit(r)
  PROVE  Books'
<1>1. PICK j : j = r.job
  OBVIOUS
<1>2. PICK price : price = Request[j].price
  OBVIOUS
<1>3. PICK a : a = Account(j)
  OBVIOUS
<1>4. PICK ls : ls = lots[a]
  OBVIOUS
<1>5. PICK shares : shares = Shares(ls, price)
  OBVIOUS
<1>6. PICK left : left = ReserveLots(ls, shares)
  OBVIOUS
<1>7. /\ IInv /\ BookTypes /\ LotsMatchBalance /\ LedgerMatchesBalance /\ AllocationsSound
      /\ UnaskedFree /\ LotsMatchAllocations
  BY DEF BooksInv, Books
<1>8. j \in Jobs /\ outcome[j] = "unasked" /\ authorization[j] = "none"
      /\ authorization \in [Jobs -> {"none", "reserved", "settled", "released"}]
  <2>1. j \in Jobs /\ outcome[j] = "unasked"
    BY <1>1, <1>7, UnlockFacts DEF Admit
  <2>. QED
    BY <1>7, <2>1 DEF UnaskedFree, IInv
<1>9. a \in Accounts /\ price \in Nat /\ ls \in Lots /\ balance[a] \in Nat
  BY <1>2, <1>3, <1>4, <1>7, <1>8, RequestFacts DEF BookTypes
<1>10. ~(balance[a] < price) /\ SumFunction(shares) = price
  BY <1>1, <1>2, <1>3, <1>4, <1>5, AdmittedCredits DEF Admit, Account
<1>11. /\ balance' = [balance EXCEPT ![a] = @ - price]
       /\ authorization' = [authorization EXCEPT ![j] = "reserved"]
       /\ lots' = [lots EXCEPT ![a] = left]
       /\ allocation' = [allocation EXCEPT ![j] = shares]
       /\ Record(<<"reservation", j>>, - price)
       /\ outcome' = [outcome EXCEPT ![j] = "admitted"]
       /\ UNCHANGED <<allowance, sent>>
  BY <1>1, <1>2, <1>3, <1>4, <1>5, <1>6 DEF Admit, Account, stripe
<1>12. /\ left \in Lots
       /\ DOMAIN left = DOMAIN ls
       /\ \A k \in DOMAIN ls :
            /\ left[k].consumed = ls[k].consumed
            /\ left[k].reserved = ls[k].reserved + IF k \in DOMAIN shares THEN shares[k] ELSE 0
       /\ SumFunctionOnSet(Availables(left), DOMAIN ls)
            = SumFunctionOnSet(Availables(ls), DOMAIN ls) - price
  BY <1>5, <1>6, <1>9, <1>10, ReserveLotsFacts
<1>13. /\ lots'[a] = left /\ \A c \in Accounts \ {a} : lots'[c] = lots[c]
       /\ balance'[a] = balance[a] - price
       /\ \A c \in Accounts \ {a} : balance'[c] = balance[c]
       /\ lots' \in [Accounts -> Lots] /\ balance' \in [Accounts -> Nat]
  BY <1>7, <1>9, <1>10, <1>11, <1>12 DEF BookTypes
<1>14. /\ allocation'[j] = shares /\ \A i \in Jobs \ {j} : allocation'[i] = allocation[i]
       /\ allocation' = [i \in Jobs |-> allocation'[i]]
  BY <1>7, <1>8, <1>11 DEF BookTypes
<1>15. /\ DOMAIN shares \subseteq DOMAIN ls
       /\ \A k \in DOMAIN shares : shares[k] \in Nat
  BY <1>5, <1>9, SharesType
<1>16. - price \in Int
  BY <1>9
<1>17. LotsMatchBalance'
  <2>1. SumFunctionOnSet(Availables(ls), DOMAIN ls) \in Int
    <3>1. \A k \in DOMAIN ls : Availables(ls)[k] \in Nat
      BY <1>9, LotsType
    <3>. QED
      BY <1>9, <3>1, LotsType, SumType
  <2>2. SumFunctionOnSet(Availables(lots'[a]), DOMAIN lots'[a])
          = SumFunctionOnSet(Availables(lots[a]), DOMAIN lots[a]) + (- price)
    BY <1>4, <1>9, <1>12, <1>13, <2>1
  <2>3. balance'[a] = balance[a] + (- price)
    BY <1>9, <1>13
  <2>. QED
    BY <1>7, <1>9, <1>12, <1>13, <1>16, <2>2, <2>3, LotsMoved
<1>18. /\ LedgerMatchesBalance' /\ DOMAIN ledger' \subseteq References
       /\ \A x \in DOMAIN ledger' : ledger'[x] \in Int
       /\ \A c \in Accounts : IsFiniteSet(Entries(c)')
  <2>1. PICK e : e = <<"reservation", j>>
    OBVIOUS
  <2>2. e \in References /\ LedgerAccount(e) = a
    BY <1>3, <1>8, <2>1, ReferenceFacts
  <2>3. Record(e, - price) /\ balance'[a] = balance[a] + (- price)
    BY <1>9, <1>11, <1>13, <2>1
  <2>. QED
    BY <1>7, <1>9, <1>13, <1>16, <2>2, <2>3, EntryRecorded
<1>19. AllocationsSound'
  <2>1. \A c \in Accounts : DOMAIN lots'[c] = DOMAIN lots[c]
    BY <1>4, <1>12, <1>13
  <2>2. \A i \in Jobs \ {j} : authorization'[i] = authorization[i]
    BY <1>8, <1>11
  <2>3. ASSUME NEW i \in Jobs, authorization'[i] # "none"
        PROVE  /\ DOMAIN allocation'[i] \subseteq DOMAIN lots'[Account(i)]
               /\ \A k \in DOMAIN allocation'[i] : allocation'[i][k] \in Nat
               /\ SumFunction(allocation'[i]) = Request[i].price
    <3>1. CASE i = j
      BY <1>2, <1>3, <1>4, <1>9, <1>10, <1>14, <1>15, <2>1, <3>1
    <3>2. CASE i # j
      <4>1. authorization[i] # "none" /\ allocation'[i] = allocation[i]
        BY <1>14, <2>2, <2>3, <3>2
      <4>2. DOMAIN lots'[Account(i)] = DOMAIN lots[Account(i)]
        BY <2>1, RequestFacts
      <4>. QED
        BY <1>7, <4>1, <4>2 DEF AllocationsSound
    <3>. QED
      BY <3>1, <3>2
  <2>. QED
    BY <2>3 DEF AllocationsSound, Account
<1>20. UnaskedFree'
  BY <1>7, <1>8, <1>11 DEF UnaskedFree, BookTypes
<1>21. BookTypes'
  <2>1. outcome' \in [Jobs -> Outcomes]
    BY <1>7, <1>8, <1>11 DEF BookTypes, Outcomes
  <2>. QED
    BY <1>7, <1>11, <1>13, <1>14, <1>18, <2>1 DEF BookTypes
<1>22. LotsMatchAllocations'
  <2>1. ASSUME NEW c \in Accounts, NEW k \in DOMAIN lots'[c], NEW s \in Counted
        PROVE  Taken(c, k, s)' = Taken(c, k, s) + Moved(c, j, k, s, "reserved", shares)
    <3>1. Taken(c, k, s)' = Taken(c, k, s) + Moved(c, j, k, s, "reserved", allocation'[j])
                              - Moved(c, j, k, s, authorization[j], allocation[j])
      <4>1. Moves(j, "reserved")
        BY <1>8, <1>11, <1>14 DEF Moves
      <4>. QED
        BY <1>7, <1>8, <1>19, <2>1, <4>1, TakenMoved
    <3>2. Moved(c, j, k, s, authorization[j], allocation[j]) = 0
      BY <1>8, <2>1 DEF Moved, Counted
    <3>3. Taken(c, k, s) \in Int
      <4>1. k \in DOMAIN lots[c]
        BY <1>4, <1>12, <1>13, <2>1
      <4>2. lots[c] \in Lots
        BY <1>7 DEF BookTypes
      <4>3. lots[c][k] \in Lot
        BY <4>1, <4>2, LotsType
      <4>. QED
        BY <1>7, <2>1, <4>1, <4>3 DEF LotsMatchAllocations, Lot, Counted
    <3>4. Moved(c, j, k, s, "reserved", shares) \in Int
      BY <1>15 DEF Moved
    <3>. QED
      BY <1>14, <3>1, <3>2, <3>3, <3>4
  <2>2. ASSUME NEW c \in Accounts, NEW k \in DOMAIN lots'[c]
        PROVE  /\ lots'[c][k].reserved = Taken(c, k, "reserved")'
               /\ lots'[c][k].consumed = Taken(c, k, "settled")'
    <3>1. k \in DOMAIN lots[c]
      BY <1>4, <1>12, <1>13, <2>2
    <3>2. /\ lots[c][k].reserved = Taken(c, k, "reserved")
          /\ lots[c][k].consumed = Taken(c, k, "settled")
      BY <1>7, <3>1 DEF LotsMatchAllocations
    <3>3. lots[c][k] \in Lot
      <4>1. lots[c] \in Lots
        BY <1>7 DEF BookTypes
      <4>. QED
        BY <3>1, <4>1, LotsType
    <3>4. /\ Taken(c, k, "reserved")' =
               lots[c][k].reserved + Moved(c, j, k, "reserved", "reserved", shares)
          /\ Taken(c, k, "settled")' = lots[c][k].consumed + 0
      BY <2>1, <2>2, <3>2 DEF Moved, Counted
    <3>5. /\ lots'[c][k].reserved =
               lots[c][k].reserved + Moved(c, j, k, "reserved", "reserved", shares)
          /\ lots'[c][k].consumed = lots[c][k].consumed
      <4>1. CASE c = a
        BY <1>3, <1>4, <1>12, <1>13, <3>1, <4>1 DEF Moved
      <4>2. CASE c # a
        BY <1>3, <1>13, <3>3, <4>2 DEF Moved, Lot
      <4>. QED
        BY <4>1, <4>2
    <3>. QED
      BY <3>3, <3>4, <3>5 DEF Lot
  <2>. QED
    BY <2>2 DEF LotsMatchAllocations
<1>. QED
  BY <1>17, <1>18, <1>19, <1>20, <1>21, <1>22 DEF Books

\* The end of a job returns or consumes what its allocation reserves.
LEMMA FinalizeBooks ==
  ASSUME BooksInv, NEW j \in Jobs, NEW status \in {"settled", "released"}, Finalize(j, status)
  PROVE  Books'
<1>1. PICK price : price = Request[j].price
  OBVIOUS
<1>2. PICK a : a = Account(j)
  OBVIOUS
<1>3. PICK ls : ls = lots[a]
  OBVIOUS
<1>4. PICK shares : shares = allocation[j]
  OBVIOUS
<1>5. PICK ended : ended = FinalizeLots(ls, shares, status)
  OBVIOUS
<1>6. PICK returned : returned = IF status = "released" THEN price ELSE 0
  OBVIOUS
<1>7. /\ IInv /\ BookTypes /\ LotsMatchBalance /\ LedgerMatchesBalance /\ AllocationsSound
      /\ UnaskedFree /\ LotsMatchAllocations /\ Books
  BY DEF BooksInv, Books
<1>8. /\ authorization[j] = "reserved"
      /\ authorization \in [Jobs -> {"none", "reserved", "settled", "released"}]
  BY <1>7 DEF Finalize, IInv
<1>9. a \in Accounts /\ price \in Nat /\ ls \in Lots /\ balance[a] \in Nat /\ returned \in Nat
  BY <1>1, <1>2, <1>3, <1>6, <1>7, RequestFacts DEF BookTypes
<1>10. Allocated(ls, shares) /\ SumFunction(shares) = price
  BY <1>1, <1>2, <1>3, <1>4, <1>7, <1>8, ReservedAllocated DEF AllocationsSound
<1>11. /\ balance' = [balance EXCEPT ![a] = @ + returned]
       /\ authorization' = [authorization EXCEPT ![j] = status]
       /\ lots' = [lots EXCEPT ![a] = ended]
       /\ Record(<<LedgerKind(status), j>>, returned)
       /\ UNCHANGED <<allocation, outcome, allowance, sent>>
  BY <1>1, <1>2, <1>3, <1>4, <1>5, <1>6 DEF Finalize, Account, requests, stripe
<1>12. /\ ended \in Lots
       /\ DOMAIN ended = DOMAIN ls
       /\ \A k \in DOMAIN ls :
            /\ ended[k].reserved = ls[k].reserved - IF k \in DOMAIN shares THEN shares[k] ELSE 0
            /\ ended[k].consumed = ls[k].consumed + IF k \in DOMAIN shares /\ status = "settled"
                                                    THEN shares[k] ELSE 0
       /\ SumFunctionOnSet(Availables(ended), DOMAIN ls)
            = SumFunctionOnSet(Availables(ls), DOMAIN ls)
                + IF status = "released" THEN SumFunction(shares) ELSE 0
  BY <1>5, <1>9, <1>10, FinalizeLotsFacts
<1>13. /\ lots'[a] = ended /\ \A c \in Accounts \ {a} : lots'[c] = lots[c]
       /\ balance'[a] = balance[a] + returned
       /\ \A c \in Accounts \ {a} : balance'[c] = balance[c]
       /\ lots' \in [Accounts -> Lots] /\ balance' \in [Accounts -> Nat]
  BY <1>7, <1>9, <1>11, <1>12 DEF BookTypes
<1>14. LotsMatchBalance'
  <2>1. SumFunctionOnSet(Availables(lots'[a]), DOMAIN lots'[a])
          = SumFunctionOnSet(Availables(lots[a]), DOMAIN lots[a]) + returned
    BY <1>3, <1>6, <1>10, <1>12, <1>13
  <2>. QED
    BY <1>7, <1>9, <1>12, <1>13, <2>1, LotsMoved
<1>15. /\ LedgerMatchesBalance' /\ DOMAIN ledger' \subseteq References
       /\ \A x \in DOMAIN ledger' : ledger'[x] \in Int
       /\ \A c \in Accounts : IsFiniteSet(Entries(c)')
  <2>1. PICK e : e = <<LedgerKind(status), j>>
    OBVIOUS
  <2>2. LedgerKind(status) \in {"reservation", "settlement", "release"}
    BY DEF LedgerKind
  <2>3. e \in References /\ LedgerAccount(e) = a
    BY <1>2, <2>1, <2>2, ReferenceFacts
  <2>4. Record(e, returned)
    BY <1>11, <2>1
  <2>. QED
    BY <1>7, <1>9, <1>13, <2>3, <2>4, EntryRecorded
<1>16. AllocationsSound'
  <2>1. \A c \in Accounts : DOMAIN lots'[c] = DOMAIN lots[c]
    BY <1>3, <1>12, <1>13
  <2>2. \A i \in Jobs : authorization'[i] # "none" => authorization[i] # "none"
    BY <1>8, <1>11
  <2>. QED
    BY <1>7, <1>11, <2>1, <2>2, RequestFacts DEF AllocationsSound
<1>17. UnaskedFree'
  BY <1>7, <1>8, <1>11 DEF UnaskedFree
<1>18. BookTypes'
  BY <1>7, <1>11, <1>13, <1>15 DEF BookTypes
<1>19. LotsMatchAllocations'
  <2>1. ASSUME NEW c \in Accounts, NEW k \in DOMAIN lots'[c]
        PROVE  /\ lots'[c][k].reserved = Taken(c, k, "reserved")'
               /\ lots'[c][k].consumed = Taken(c, k, "settled")'
    <3>1. k \in DOMAIN lots[c]
      BY <1>3, <1>12, <1>13, <2>1
    <3>2. /\ lots[c][k].reserved = Taken(c, k, "reserved")
          /\ lots[c][k].consumed = Taken(c, k, "settled")
      BY <1>7, <3>1 DEF LotsMatchAllocations
    <3>3. lots[c][k] \in Lot
      <4>1. lots[c] \in Lots
        BY <1>7 DEF BookTypes
      <4>. QED
        BY <3>1, <4>1, LotsType
    <3>4. \A s \in Counted :
            Taken(c, k, s)' = Taken(c, k, s) + Moved(c, j, k, s, status, shares)
                                - Moved(c, j, k, s, "reserved", shares)
      <4>1. Moves(j, status)
        BY <1>8, <1>11 DEF Moves
      <4>2. allocation'[j] = shares
        BY <1>4, <1>11
      <4>. QED
        BY <1>4, <1>7, <1>8, <1>16, <4>1, <4>2, TakenMoved
    <3>5. /\ Moved(c, j, k, "reserved", status, shares) = 0
          /\ Moved(c, j, k, "settled", "reserved", shares) = 0
          /\ \A s, t : Moved(c, j, k, s, t, shares) \in Nat
      BY <1>10 DEF Moved, Allocated
    <3>6. /\ Taken(c, k, "reserved")' =
               lots[c][k].reserved - Moved(c, j, k, "reserved", "reserved", shares)
          /\ Taken(c, k, "settled")' =
               lots[c][k].consumed + Moved(c, j, k, "settled", status, shares)
      <4>1. lots[c][k].reserved \in Nat /\ lots[c][k].consumed \in Nat
        BY <3>3 DEF Lot
      <4>2. "reserved" \in Counted /\ "settled" \in Counted
        BY DEF Counted
      <4>. QED
        BY <3>2, <3>4, <3>5, <4>1, <4>2
    <3>7. /\ lots'[c][k].reserved =
               lots[c][k].reserved - Moved(c, j, k, "reserved", "reserved", shares)
          /\ lots'[c][k].consumed =
               lots[c][k].consumed + Moved(c, j, k, "settled", status, shares)
      <4>1. CASE c = a
        BY <1>2, <1>3, <1>12, <1>13, <3>1, <4>1 DEF Moved
      <4>2. CASE c # a
        BY <1>2, <1>13, <3>3, <4>2 DEF Moved, Lot
      <4>. QED
        BY <4>1, <4>2
    <3>. QED
      BY <3>6, <3>7
  <2>. QED
    BY <2>1 DEF LotsMatchAllocations
<1>. QED
  BY <1>14, <1>15, <1>16, <1>17, <1>18, <1>19 DEF Books

\* As long as the lots match the balance, an admission that the balance covers
\* never fails for want of lots (credit_lots.py:69).
LEMMA VerdictSettled ==
  ASSUME Books, NEW r, r.job \in Jobs
  PROVE  Verdict(r) \in Outcomes \ {"unasked"}
<1>1. PICK a : a = Request[r.job].account
  OBVIOUS
<1>2. PICK c : c = Request[r.job].price
  OBVIOUS
<1>3. BookTypes /\ LotsMatchBalance
  BY DEF Books
<1>4. a \in Accounts /\ c \in Nat /\ lots[a] \in Lots /\ balance[a] \in Nat
  BY <1>1, <1>2, <1>3, RequestFacts DEF BookTypes, Account
<1>5. ~(balance[a] < c) => SumFunction(Shares(lots[a], c)) = c
  <2>1. balance[a] = SumFunctionOnSet(Availables(lots[a]), DOMAIN lots[a])
    BY <1>3, <1>4 DEF LotsMatchBalance, Availables, SumFunction
  <2>2. SUFFICES ASSUME ~(balance[a] < c)
                 PROVE  SumFunction(Shares(lots[a], c)) = c
    OBVIOUS
  <2>3. SumFunctionOnSet(Availables(lots[a]), DOMAIN lots[a]) >= c
    BY <1>4, <2>1, <2>2
  <2>. QED
    BY <1>4, <2>3, SharesFill
<1>. QED
  BY <1>1, <1>2, <1>5 DEF Verdict, Outcomes

\* A request that is refused is answered and charged nothing.
LEMMA RefuseBooks ==
  ASSUME BooksInv, NEW a \in Accounts, NEW r \in admission[a], Refuse(r)
  PROVE  Books'
<1>1. Books /\ IInv /\ BookTypes
  BY DEF BooksInv, Books
<1>2. r.job \in Jobs
  BY <1>1, UnlockFacts DEF Refuse
<1>3. PICK v \in Outcomes \ {"unasked"} : outcome' = [outcome EXCEPT ![r.job] = v]
  BY <1>1, <1>2, VerdictSettled DEF Refuse, Outcomes
<1>4. /\ outcome' \in [Jobs -> Outcomes]
      /\ \A j \in Jobs : outcome'[j] = "unasked" => outcome[j] = "unasked"
  BY <1>1, <1>2, <1>3 DEF BookTypes
<1>5. /\ UNCHANGED <<balance, ledger, lots, allocation, authorization>>
      /\ \A e \in sent' : e.session \in Payments
      /\ allowance' \in Allowances
  BY <1>1 DEF Refuse, stripe, BookTypes
<1>. QED
  BY <1>1, <1>4, <1>5, BooksUntouched

\* Payments on their way have no credits yet.
LEMMA StripeBooks ==
  ASSUME Books, NEW p \in Payments, Checkout(p) \/ Complete(p) \/ AsyncPayment(p)
  PROVE  Books'
<1>1. BookTypes
  BY DEF Books
<1>2. UNCHANGED <<balance, ledger, lots, allocation, authorization, outcome, allowance>>
  BY DEF Checkout, Complete, AsyncPayment, requests
<1>3. \A e \in sent' : e.session \in Payments
  BY <1>1 DEF Checkout, Complete, AsyncPayment, Send, BookTypes
<1>4. /\ outcome' \in [Jobs -> Outcomes] /\ allowance' \in Allowances
      /\ \A j \in Jobs : outcome'[j] = "unasked" => outcome[j] = "unasked"
  BY <1>1, <1>2 DEF BookTypes
<1>. QED
  BY <1>2, <1>3, <1>4, BooksUntouched

\* The allowance of an account is granted under its own reference.
LEMMA VisitBooks ==
  ASSUME Books, NEW a \in Accounts, Visit(a)
  PROVE  Books'
<1>1. PICK e : e = <<"grant", a>>
  OBVIOUS
<1>2. e \in References /\ LedgerAccount(e) = a
  BY <1>1, ReferenceFacts
<1>3. Grant(a, e, "grant", allowance) /\ UNCHANGED stripe
  BY <1>1 DEF Visit
<1>4. allowance \in Nat /\ "grant" \in {"grant", "purchase"}
  BY MigrationAssumption DEF Books, BookTypes
<1>. QED
  BY <1>2, <1>3, <1>4, GrantBooks

\* A paid session is credited under its own reference.
LEMMA DeliverBooks ==
  ASSUME Books, NEW d \in sent, Deliver(d)
  PROVE  Books'
<1>1. PICK p : p = d.session
  OBVIOUS
<1>2. PICK e : e = <<"stripe", p>>
  OBVIOUS
<1>3. PICK a : a = Session[p].account
  OBVIOUS
<1>4. p \in Payments /\ a \in Accounts /\ Session[p].credits \in Nat
  BY <1>1, <1>3, RequestAssumption DEF Books, BookTypes
<1>5. e \in References /\ LedgerAccount(e) = a
  BY <1>2, <1>3, <1>4, ReferenceFacts
<1>6. Grant(a, e, "purchase", Session[p].credits) /\ UNCHANGED stripe
  BY <1>1, <1>2, <1>3 DEF Deliver
<1>7. "purchase" \in {"grant", "purchase"}
  OBVIOUS
<1>. QED
  BY <1>4, <1>5, <1>6, <1>7, GrantBooks

\* Every step keeps the books.
LEMMA BooksStep == BooksInv /\ [Next]_vars => BooksInv'
<1>. SUFFICES ASSUME BooksInv, [Next]_vars
              PROVE  BooksInv'
  OBVIOUS
<1>1. IInv /\ IInv' /\ Books /\ BookTypes
  BY StepKeeps DEF BooksInv, Books
<1>2. ASSUME NEW a \in Accounts, Visit(a)
      PROVE  Books'
  BY <1>1, <1>2, VisitBooks
<1>3. ASSUME NEW a \in Accounts, NEW r \in admission[a], Refuse(r)
      PROVE  Books'
  BY <1>3, RefuseBooks
<1>4. ASSUME NEW a \in Accounts, NEW r \in admission[a], Admit(r)
      PROVE  Books'
  BY <1>4, AdmitBooks
<1>5. ASSUME NEW p \in Payments, Checkout(p) \/ Complete(p) \/ AsyncPayment(p)
      PROVE  Books'
  BY <1>1, <1>5, StripeBooks
<1>6. ASSUME NEW d \in sent, Deliver(d)
      PROVE  Books'
  BY <1>1, <1>6, DeliverBooks
<1>7. ASSUME NEW j \in Jobs, NEW status \in {"settled", "released"}, Finalize(j, status)
      PROVE  Books'
  BY <1>7, FinalizeBooks
<1>8. ASSUME \/ UNCHANGED vars \/ Redeploy \/ \E j \in Jobs : BeginAdmission(j)
      PROVE  Books'
  <2>1. UNCHANGED <<balance, ledger, lots, allocation, authorization, outcome, sent>>
    BY <1>8 DEF vars, Redeploy, BeginAdmission, requests, stripe
  <2>2. allowance' \in Allowances
    BY <1>1, <1>8 DEF vars, Redeploy, BeginAdmission, BookTypes
  <2>. QED
    BY <1>1, <2>1, <2>2, BooksUntouched DEF BookTypes
<1>9. Books'
  BY <1>2, <1>3, <1>4, <1>5, <1>6, <1>7, <1>8 DEF Next, EndAdmission
<1>. QED
  BY <1>1, <1>9 DEF BooksInv

-----------------------------------------------------------------------------
(* The tables of the migration. *)

\* The jobs of an account that were unfinished, and what they cost.
LEMMA OldCosts ==
  ASSUME NEW a
  PROVE  LET old == OwnJobs(OldJobs, a) IN
         /\ old \subseteq Jobs /\ IsFiniteSet(old)
         /\ \A j \in old : Request[j].price \in Nat
         /\ Cost(old) \in Nat
<1>1. PICK old : old = OwnJobs(OldJobs, a)
  OBVIOUS
<1>2. old \subseteq Jobs
  BY <1>1, MigrationAssumption DEF OwnJobs
<1>3. IsFiniteSet(old) /\ \A j \in old : Request[j].price \in Nat
  BY <1>2, RequestAssumption, FS_Subset
<1>4. PICK f : f = [j \in old |-> Request[j].price]
  OBVIOUS
<1>5. SumFunctionOnSet(f, old) \in Nat
  <2>1. \A j \in old : f[j] \in Nat
    BY <1>3, <1>4
  <2>. QED
    BY <1>3, <2>1, SumType
<1>6. Cost(old) = SumFunctionOnSet(f, old)
  BY <1>4 DEF Cost, SumFunction
<1>. QED
  BY <1>1, <1>2, <1>3, <1>5, <1>6

\* The entries of an account come to what its allowance is over their cost.
LEMMA InitEntries ==
  ASSUME Init, NEW a \in Accounts
  PROVE  /\ IsFiniteSet(Entries(a))
         /\ balance[a] = SumFunctionOnSet(ledger, Entries(a))
<1>1. PICK old : old = OwnJobs(OldJobs, a)
  OBVIOUS
<1>2. /\ old \subseteq Jobs /\ IsFiniteSet(old)
      /\ \A j \in old : Request[j].price \in Nat
      /\ Cost(old) \in Nat
  BY <1>1, OldCosts
<1>3. PICK f : f = [j \in old |-> - Request[j].price]
  OBVIOUS
<1>4. PICK entry : entry = [j \in old |-> <<"reservation", j>>]
  OBVIOUS
<1>5. PICK R : R = {entry[j] : j \in old}
  OBVIOUS
<1>6. \A j \in old : f[j] \in Int /\ ledger[entry[j]] = f[j]
  <2>1. ASSUME NEW j \in old
        PROVE  f[j] \in Int /\ ledger[entry[j]] = f[j]
    <3>1. j \in OldJobs
      BY <1>1, <2>1 DEF OwnJobs
    <3>2. ledger[<<"reservation", j>>] = - Request[j].price
      BY <3>1 DEF Init
    <3>. QED
      BY <1>2, <1>3, <1>4, <3>2
  <2>. QED
    BY <2>1
<1>7. \A i, j \in old : entry[i] = entry[j] => i = j
  BY <1>4
<1>8. IsFiniteSet(R) /\ SumFunctionOnSet(ledger, R) = SumFunctionOnSet(f, old)
  BY <1>2, <1>5, <1>6, <1>7, SumRenamed
<1>9. SumFunctionOnSet(f, old) = - Cost(old)
  <2>1. PICK g : g = [j \in old |-> Request[j].price]
    OBVIOUS
  <2>2. \A j \in old : g[j] \in Int /\ f[j] = - g[j]
    BY <1>2, <1>3, <2>1
  <2>3. SumFunctionOnSet(f, old) = - SumFunctionOnSet(g, old)
    BY <1>2, <2>2, SumOpposite
  <2>. QED
    BY <2>1, <2>3 DEF Cost, SumFunction
<1>10. DOMAIN ledger = ({"grant"} \X Migrated) \cup ({"reservation"} \X OldJobs)
  BY DEF Init
<1>11. \A j \in OldJobs : LedgerAccount(<<"reservation", j>>) = Request[j].account
  BY DEF LedgerAccount
<1>12. \A b \in Migrated : LedgerAccount(<<"grant", b>>) = b
  BY DEF LedgerAccount
<1>13. PICK e : e = <<"grant", a>>
  OBVIOUS
<1>14. CASE a \in Migrated
  <2>1. Entries(a) = R \cup {e}
    <3>1. e \in Entries(a)
      BY <1>10, <1>12, <1>13, <1>14 DEF Entries
    <3>2. ASSUME NEW j \in old
          PROVE  entry[j] \in Entries(a)
      BY <1>1, <1>4, <1>10, <1>11, <3>2 DEF Entries, OwnJobs
    <3>3. ASSUME NEW r \in Entries(a), r # e
          PROVE  \E j \in old : r = entry[j]
      <4>1. r \in DOMAIN ledger /\ LedgerAccount(r) = a
        BY <3>3 DEF Entries
      <4>2. CASE r \in {"grant"} \X Migrated
        <5>1. PICK b \in Migrated : r = <<"grant", b>>
          BY <4>2
        <5>. QED
          BY <1>12, <1>13, <3>3, <4>1, <5>1
      <4>3. CASE r \in {"reservation"} \X OldJobs
        <5>1. PICK j \in OldJobs : r = <<"reservation", j>>
          BY <4>3
        <5>2. j \in old
          BY <1>1, <1>11, <4>1, <5>1 DEF OwnJobs
        <5>. QED
          BY <1>4, <5>1, <5>2
      <4>. QED
        BY <1>10, <4>1, <4>2, <4>3
    <3>. QED
      BY <1>5, <3>1, <3>2, <3>3
  <2>2. e \notin R
    BY <1>4, <1>5, <1>13
  <2>3. ledger[e] = OldAllowance /\ balance[a] = OldAllowance - Cost(old)
    BY <1>1, <1>13, <1>14 DEF Init
  <2>4. OldAllowance \in Nat
    BY MigrationAssumption
  <2>5. SumFunctionOnSet(ledger, R \cup {e}) = ledger[e] + SumFunctionOnSet(ledger, R)
    <3>1. \A x \in R : ledger[x] \in Int
      BY <1>5, <1>6
    <3>2. \A x \in R \cup {e} : ledger[x] \in Int
      BY <2>3, <2>4, <3>1
    <3>. QED
      BY <1>8, <2>2, <3>2, SumAdd
  <2>6. balance[a] = SumFunctionOnSet(ledger, Entries(a))
    BY <1>2, <1>8, <1>9, <2>1, <2>3, <2>4, <2>5
  <2>. QED
    BY <1>8, <2>1, <2>6, FS_AddElement
<1>15. CASE a \notin Migrated
  <2>1. Entries(a) = {}
    BY <1>10, <1>11, <1>12, <1>15, MigrationAssumption DEF Entries
  <2>2. balance[a] = 0
    BY <1>15 DEF Init
  <2>. QED
    BY <2>1, <2>2, SumEmpty, FS_EmptySet
<1>. QED
  BY <1>14, <1>15

\* One lot has what is left and reserves what was charged.
LEMMA InitLots ==
  ASSUME Init, NEW a \in Accounts
  PROVE  /\ lots[a] \in Lots
         /\ balance[a] \in Nat
         /\ balance[a] = SumFunctionOnSet(Availables(lots[a]), DOMAIN lots[a])
         /\ a \in Migrated => /\ DOMAIN lots[a] = {1}
                              /\ lots[a][1].reserved = Cost(OwnJobs(OldJobs, a))
                              /\ lots[a][1].consumed = 0
         /\ a \notin Migrated => DOMAIN lots[a] = {}
<1>1. CASE a \in Migrated
  <2>1. PICK cost : cost = Cost(OwnJobs(OldJobs, a))
    OBVIOUS
  <2>2. PICK lot : lot = [NewLot("legacy", OldAllowance) EXCEPT !.reserved = cost]
    OBVIOUS
  <2>3. cost \in Nat /\ OldAllowance \in Nat /\ cost <= OldAllowance
    BY <1>1, <2>1, OldCosts, MigrationAssumption
  <2>4. lot = [kind |-> "legacy", credited |-> OldAllowance, reserved |-> cost, consumed |-> 0]
    BY <2>2 DEF NewLot
  <2>5. lot \in Lot /\ Available(lot) = OldAllowance - cost
        /\ lot.reserved = cost /\ lot.consumed = 0 /\ lot.credited = OldAllowance
    BY <2>3, <2>4 DEF Lot, Kinds, Available
  <2>6. lots[a] = <<lot>> /\ balance[a] = OldAllowance - cost
    BY <1>1, <2>1, <2>2 DEF Init
  <2>7. lots[a] \in Seq(Lot) /\ DOMAIN lots[a] = {1} /\ lots[a][1] = lot
    BY <2>5, <2>6
  <2>8. lots[a] \in Lots
    <3>1. lot.reserved + lot.consumed <= lot.credited
      BY <2>3, <2>5
    <3>. QED
      BY <2>7, <3>1 DEF Lots
  <2>9. PICK av : av = Availables(lots[a])
    OBVIOUS
  <2>10. av[1] = OldAllowance - cost /\ av[1] \in Int
    BY <2>3, <2>5, <2>7, <2>9 DEF Availables
  <2>11. SumFunctionOnSet(av, {1}) = av[1]
    BY <2>10, SumOne
  <2>. QED
    BY <1>1, <2>1, <2>3, <2>5, <2>6, <2>7, <2>8, <2>9, <2>10, <2>11
<1>2. CASE a \notin Migrated
  <2>1. lots[a] = <<>> /\ balance[a] = 0
    BY <1>2 DEF Init
  <2>2. lots[a] \in Seq(Lot) /\ DOMAIN lots[a] = {}
    BY <2>1
  <2>. QED
    BY <1>2, <2>1, <2>2, SumEmpty DEF Lots
<1>. QED
  BY <1>1, <1>2

\* The books agree after the migration.
LEMMA InitBooks == Init => BooksInv
<1>. SUFFICES ASSUME Init
              PROVE  Books
  BY InitKeeps DEF BooksInv
<1>1. /\ balance = [a \in Accounts |-> balance[a]]
      /\ lots = [a \in Accounts |-> lots[a]]
      /\ allocation = [j \in Jobs |-> IF j \in OldJobs THEN <<Request[j].price>> ELSE <<>>]
      /\ authorization = [j \in Jobs |-> IF j \in OldJobs THEN "reserved" ELSE "none"]
      /\ outcome = [j \in Jobs |-> IF j \in OldJobs THEN "admitted" ELSE "unasked"]
      /\ allowance = OldAllowance /\ sent = {}
  BY DEF Init
<1>2. BookTypes
  <2>1. balance \in [Accounts -> Nat] /\ lots \in [Accounts -> Lots]
    BY <1>1, InitLots
  <2>2. DOMAIN ledger \subseteq References /\ \A r \in DOMAIN ledger : ledger[r] \in Int
    <3>1. DOMAIN ledger = ({"grant"} \X Migrated) \cup ({"reservation"} \X OldJobs)
      BY DEF Init
    <3>2. DOMAIN ledger \subseteq References
      BY <3>1, MigrationAssumption DEF References
    <3>3. ASSUME NEW b \in Migrated
          PROVE  ledger[<<"grant", b>>] \in Int
      BY <3>3, MigrationAssumption DEF Init
    <3>4. ASSUME NEW j \in OldJobs
          PROVE  ledger[<<"reservation", j>>] \in Int
      <4>1. ledger[<<"reservation", j>>] = - Request[j].price
        BY <3>4 DEF Init
      <4>. QED
        BY <4>1, MigrationAssumption, RequestAssumption
    <3>. QED
      BY <3>1, <3>2, <3>3, <3>4
  <2>3. outcome \in [Jobs -> Outcomes]
    BY <1>1 DEF Outcomes
  <2>4. allowance \in Allowances /\ allocation = [j \in Jobs |-> allocation[j]]
    BY <1>1, MigrationAssumption
  <2>. QED
    BY <1>1, <2>1, <2>2, <2>3, <2>4, InitEntries DEF BookTypes
<1>3. AllocationsSound
  <2>1. SUFFICES ASSUME NEW j \in Jobs, authorization[j] # "none"
                 PROVE  /\ DOMAIN allocation[j] \subseteq DOMAIN lots[Account(j)]
                        /\ \A k \in DOMAIN allocation[j] : allocation[j][k] \in Nat
                        /\ SumFunction(allocation[j]) = Request[j].price
    BY DEF AllocationsSound
  <2>2. j \in OldJobs /\ Account(j) \in Migrated /\ Account(j) \in Accounts
    BY <1>1, <2>1, MigrationAssumption, RequestFacts DEF Account
  <2>3. PICK price : price = Request[j].price
    OBVIOUS
  <2>4. PICK taken : taken = allocation[j]
    OBVIOUS
  <2>5. price \in Nat /\ taken = <<price>>
    BY <1>1, <2>2, <2>3, <2>4, RequestFacts
  <2>6. DOMAIN taken = {1} /\ taken[1] = price /\ taken[1] \in Int
    BY <2>5
  <2>7. SumFunction(taken) = price
    BY <2>6, SumOne DEF SumFunction
  <2>8. DOMAIN lots[Account(j)] = {1}
    BY <2>2, InitLots
  <2>. QED
    BY <2>3, <2>4, <2>5, <2>6, <2>7, <2>8
<1>4. UnaskedFree
  BY <1>1 DEF UnaskedFree
<1>5. LotsMatchBalance /\ LedgerMatchesBalance
  <2>1. LotsMatchBalance
    BY InitLots DEF LotsMatchBalance, Availables, SumFunction
  <2>2. LedgerMatchesBalance
    BY InitEntries DEF LedgerMatchesBalance, Entries
  <2>. QED
    BY <2>1, <2>2
<1>6. LotsMatchAllocations
  <2>1. ASSUME NEW a \in Accounts, NEW k \in DOMAIN lots[a]
        PROVE  /\ lots[a][k].reserved = Taken(a, k, "reserved")
               /\ lots[a][k].consumed = Taken(a, k, "settled")
    <3>1. a \in Migrated /\ k = 1
      BY <2>1, InitLots
    <3>2. lots[a][k].reserved = Cost(OwnJobs(OldJobs, a)) /\ lots[a][k].consumed = 0
      BY <3>1, InitLots
    <3>3. Takers(a, k, "settled") = {}
      BY <1>1 DEF Takers
    <3>4. Taken(a, k, "settled") = 0
      <4>1. PICK f : f = [j \in Takers(a, k, "settled") |-> allocation[j][k]]
        OBVIOUS
      <4>2. DOMAIN f = {} /\ Taken(a, k, "settled") = SumFunction(f)
        BY <3>3, <4>1, TakenIs
      <4>. QED
        BY <4>2, SumEmpty DEF SumFunction
    <3>5. Taken(a, k, "reserved") = Cost(OwnJobs(OldJobs, a))
      <4>1. PICK old : old = OwnJobs(OldJobs, a)
        OBVIOUS
      <4>2. old \subseteq Jobs /\ \A j \in old : j \in OldJobs /\ Request[j].price \in Nat
        BY <4>1, OldCosts DEF OwnJobs
      <4>3. \A j \in old : DOMAIN allocation[j] = {1} /\ allocation[j][1] = Request[j].price
        BY <1>1, <4>2
      <4>4. Takers(a, k, "reserved") = old
        BY <1>1, <3>1, <4>1, <4>2, <4>3, MigrationAssumption DEF Takers, OwnJobs
      <4>5. [j \in old |-> allocation[j][k]] = [j \in old |-> Request[j].price]
        BY <3>1, <4>3
      <4>. QED
        BY <4>1, <4>4, <4>5, TakenIs DEF Cost
    <3>. QED
      BY <3>2, <3>4, <3>5
  <2>. QED
    BY <2>1 DEF LotsMatchAllocations
<1>. QED
  BY <1>2, <1>3, <1>4, <1>5, <1>6 DEF Books

-----------------------------------------------------------------------------
(* What the books keep. *)

\* Balance, ledger, lots and allocations of every account agree for ever.
THEOREM BooksAgree == Spec => []BooksInv
BY InitBooks, BooksStep, PTL DEF Spec

\* The CHECK constraints of the tables are never violated, and no admission
\* fails for want of lots (credit_lots.py:69).
THEOREM TypeCorrect == Spec => []TypeOK
<1>1. BooksInv => TypeOK
  <2>. SUFFICES ASSUME BooksInv
                PROVE  TypeOK
    OBVIOUS
  <2>1. IInv /\ BookTypes
    BY DEF BooksInv, Books
  <2>2. ASSUME NEW a \in Accounts, NEW k \in DOMAIN lots[a]
        PROVE  /\ lots[a][k].reserved \in Nat /\ lots[a][k].consumed \in Nat
               /\ lots[a][k].reserved + lots[a][k].consumed <= lots[a][k].credited
    <3>1. lots[a] \in Lots
      BY <2>1 DEF BookTypes
    <3>2. lots[a][k] \in Lot
      BY <2>2, <3>1, LotsType
    <3>. QED
      BY <2>2, <3>1, <3>2 DEF Lot, Lots
  <2>3. idempotency \subseteq Jobs
    BY <2>1 DEF IInv, KeysRecorded
  <2>. QED
    BY <2>1, <2>2, <2>3 DEF TypeOK, BookTypes, IInv
<1>. QED
  BY <1>1, BooksAgree, PTL

\* An admission that its balance covers always finds its credits in the lots.
THEOREM LotsBalance == Spec => []LotsMatchBalance
<1>1. BooksInv => LotsMatchBalance
  BY DEF BooksInv, Books
<1>. QED
  BY <1>1, BooksAgree, PTL

\* Replays, refusals and rollbacks leave no trace in a balance: it is the sum
\* of what its ledger records once.
THEOREM LedgerBalance == Spec => []LedgerMatchesBalance
<1>1. BooksInv => LedgerMatchesBalance
  BY DEF BooksInv, Books
<1>. QED
  BY <1>1, BooksAgree, PTL

\* The lots say exactly which credits unfinished jobs hold and settled ones used.
THEOREM LotsAllocations == Spec => []LotsMatchAllocations
<1>1. BooksInv => LotsMatchAllocations
  BY DEF BooksInv, Books
<1>. QED
  BY <1>1, BooksAgree, PTL

\* The mismatch that would keep a job from ending (PostgresCreditLots.finalize)
\* never occurs.
AllocationsCovered ==
  \A j \in Jobs : authorization[j] = "reserved" =>
    /\ SumFunction(allocation[j]) = Request[j].price
    /\ \A k \in DOMAIN allocation[j] :
         lots[Request[j].account][k].reserved >= allocation[j][k]

\* An unfinished job can always end: its lots still reserve what it took.
THEOREM FinalizeNeverBlocked == Spec => []AllocationsCovered
<1>1. BooksInv => AllocationsCovered
  BY ReservedAllocated DEF BooksInv, Books, AllocationsSound, AllocationsCovered, Allocated, Account
<1>. QED
  BY <1>1, BooksAgree, PTL

-----------------------------------------------------------------------------
(* The order in which credits are spent. *)

\* A lot of a pack gives credits only when those before it have none left.
LEMMA AdmitInOrder ==
  ASSUME NEW ls \in Lots, NEW credits \in Nat,
         NEW shares, shares = Shares(ls, credits), SumFunction(shares) = credits,
         NEW left, left = ReserveLots(ls, shares),
         NEW k \in DOMAIN ls, NEW i \in DOMAIN ls,
         left[k].kind = "purchase", left[k].reserved > ls[k].reserved,
         ls[i].kind # "purchase" \/ i < k
  PROVE  Available(left[i]) = 0
<1>1. \A h \in DOMAIN ls :
        /\ left[h].kind = ls[h].kind /\ left[h].credited = ls[h].credited
        /\ left[h].consumed = ls[h].consumed
        /\ left[h].reserved = ls[h].reserved + IF h \in DOMAIN shares THEN shares[h] ELSE 0
  BY ReserveLotsFacts
<1>2. ls[k] \in Lot /\ ls[i] \in Lot /\ Available(ls[i]) \in Nat
  BY LotsType
<1>3. k \in DOMAIN shares
  BY <1>1, <1>2 DEF Lot
<1>4. i \in Ahead(ls, k)
  BY <1>1 DEF Ahead, Precedes
<1>5. CASE Available(ls[i]) = 0
  <2>1. i \notin DOMAIN shares
    BY <1>5 DEF Shares
  <2>. QED
    BY <1>1, <1>2, <1>5, <2>1 DEF Available, Lot
<1>6. CASE Available(ls[i]) # 0
  <2>1. i \in DOMAIN shares /\ shares[i] = Available(ls[i])
    BY <1>3, <1>4, <1>6, SharesInTurn
  <2>. QED
    BY <1>1, <1>2, <2>1 DEF Available, Lot
<1>. QED
  BY <1>5, <1>6

\* The first parts of the order.
InOrder ==
  \A a \in Accounts : \A k \in DOMAIN lots[a] : \A i \in 1..Len(lots[a]) :
    (/\ lots'[a][k].kind = "purchase"
     /\ lots'[a][k].reserved > lots[a][k].reserved
     /\ lots[a][i].kind # "purchase" \/ i < k)
    => Available(lots'[a][i]) = 0

\* No step but an admission reserves credits.
LEMMA OnlyAdmitReserves ==
  ASSUME BookTypes,
         \A a \in Accounts : \A k \in DOMAIN lots[a] :
            ~(lots'[a][k].reserved > lots[a][k].reserved)
  PROVE  InOrder
BY DEF InOrder

\* The oldest credits that are not bought are spent first, then the oldest
\* pack, in whichever order requests come and jobs end.
THEOREM GrantsFirst == Spec => GrantsSpentFirst
<1>1. ASSUME BooksInv, [Next]_vars
      PROVE  InOrder
  <2>1. IInv /\ Books /\ BookTypes
    BY <1>1 DEF BooksInv, Books
  <2>2. ASSUME NEW a \in Accounts
        PROVE  /\ lots[a] \in Lots /\ DOMAIN lots[a] = 1 .. Len(lots[a])
               /\ \A k \in DOMAIN lots[a] : lots[a][k].reserved \in Nat
    <3>1. lots[a] \in Lots
      BY <2>1 DEF BookTypes
    <3>. QED
      BY <3>1, LotsType DEF Lot
  <2>3. ASSUME UNCHANGED lots
        PROVE  InOrder
    BY <2>1, <2>2, <2>3, OnlyAdmitReserves
  <2>4. ASSUME NEW b \in Accounts, NEW r, NEW kind, NEW c, Grant(b, r, kind, c)
        PROVE  InOrder
    <3>1. lots' = [lots EXCEPT ![b] = Append(@, NewLot(kind, c))]
      BY <2>4 DEF Grant
    <3>2. ASSUME NEW a \in Accounts, NEW k \in DOMAIN lots[a]
          PROVE  lots'[a][k] = lots[a][k]
      <4>1. CASE a = b
        <5>1. lots[a] \in Seq(Lot) /\ k \in 1 .. Len(lots[a])
          BY <2>2, <3>2 DEF Lots
        <5>2. lots'[a] = Append(lots[a], NewLot(kind, c))
          BY <2>1, <3>1, <4>1 DEF BookTypes
        <5>. QED
          BY <5>1, <5>2
      <4>2. CASE a # b
        BY <2>1, <3>1, <4>2 DEF BookTypes
      <4>. QED
        BY <4>1, <4>2
    <3>3. \A a \in Accounts : \A k \in DOMAIN lots[a] :
            ~(lots'[a][k].reserved > lots[a][k].reserved)
      BY <2>2, <3>2
    <3>. QED
      BY <2>1, <3>3, OnlyAdmitReserves
  <2>5. ASSUME NEW j \in Jobs, NEW status \in {"settled", "released"}, Finalize(j, status)
        PROVE  InOrder
    <3>1. PICK b : b = Account(j)
      OBVIOUS
    <3>2. PICK shares : shares = allocation[j]
      OBVIOUS
    <3>3. PICK ended : ended = FinalizeLots(lots[b], shares, status)
      OBVIOUS
    <3>4. b \in Accounts /\ authorization[j] = "reserved"
          /\ lots' = [lots EXCEPT ![b] = ended]
      BY <2>5, <3>1, <3>2, <3>3, RequestFacts DEF Finalize, Account
    <3>5. Allocated(lots[b], shares)
      BY <2>1, <3>1, <3>2, <3>4, ReservedAllocated
    <3>6. \A k \in DOMAIN lots[b] :
            ended[k].reserved =
              lots[b][k].reserved - IF k \in DOMAIN shares THEN shares[k] ELSE 0
      BY <2>2, <3>3, <3>4, <3>5, FinalizeLotsFacts
    <3>7. \A k \in DOMAIN lots[b] : ~(ended[k].reserved > lots[b][k].reserved)
      BY <2>2, <3>4, <3>5, <3>6 DEF Allocated
    <3>8. lots'[b] = ended /\ \A a \in Accounts \ {b} : lots'[a] = lots[a]
      BY <2>1, <3>4 DEF BookTypes
    <3>9. \A a \in Accounts : \A k \in DOMAIN lots[a] :
            ~(lots'[a][k].reserved > lots[a][k].reserved)
      BY <2>2, <3>7, <3>8
    <3>. QED
      BY <2>1, <3>9, OnlyAdmitReserves
  <2>6. ASSUME NEW b \in Accounts, NEW r \in admission[b], Admit(r)
        PROVE  InOrder
    <3>1. PICK j : j = r.job
      OBVIOUS
    <3>2. PICK a : a = Account(j)
      OBVIOUS
    <3>3. PICK price : price = Request[j].price
      OBVIOUS
    <3>4. PICK ls : ls = lots[a]
      OBVIOUS
    <3>5. PICK shares : shares = Shares(ls, price)
      OBVIOUS
    <3>6. PICK left : left = ReserveLots(ls, shares)
      OBVIOUS
    <3>7. j \in Jobs
      BY <2>1, <2>6, <3>1, UnlockFacts DEF Admit
    <3>8. a \in Accounts /\ price \in Nat /\ ls \in Lots
      BY <2>2, <3>2, <3>3, <3>4, <3>7, RequestFacts
    <3>9. SumFunction(shares) = price /\ lots' = [lots EXCEPT ![a] = left]
      BY <2>6, <3>1, <3>2, <3>3, <3>4, <3>5, <3>6, AdmittedCredits DEF Admit, Account
    <3>10. lots'[a] = left /\ \A c \in Accounts \ {a} : lots'[c] = lots[c]
      BY <2>1, <3>8, <3>9 DEF BookTypes
    <3>11. ASSUME NEW c \in Accounts, NEW k \in DOMAIN lots[c], NEW i \in 1 .. Len(lots[c]),
                  lots'[c][k].kind = "purchase",
                  lots'[c][k].reserved > lots[c][k].reserved,
                  lots[c][i].kind # "purchase" \/ i < k
           PROVE  Available(lots'[c][i]) = 0
      <4>1. c = a
        BY <2>2, <3>10, <3>11
      <4>2. k \in DOMAIN ls /\ i \in DOMAIN ls
        BY <2>2, <3>4, <3>11, <4>1
      <4>. QED
        BY <3>4, <3>5, <3>6, <3>8, <3>9, <3>10, <3>11, <4>1, <4>2, AdmitInOrder
    <3>. QED
      BY <3>11 DEF InOrder
  <2>7. ASSUME \/ UNCHANGED vars
               \/ Redeploy
               \/ \E p \in Payments : Checkout(p) \/ Complete(p) \/ AsyncPayment(p)
               \/ \E j \in Jobs : BeginAdmission(j)
               \/ \E a \in Accounts : \E r \in admission[a] : Refuse(r)
        PROVE  UNCHANGED lots
    BY <2>7 DEF vars, Redeploy, Checkout, Complete, AsyncPayment, BeginAdmission, Refuse
  <2>8. ASSUME NEW a \in Accounts, Visit(a)
        PROVE  InOrder
    BY <2>4, <2>8 DEF Visit
  <2>9. ASSUME NEW d \in sent, Deliver(d)
        PROVE  InOrder
    <3>1. Session[d.session].account \in Accounts
      BY <2>1, <2>9, RequestAssumption DEF BookTypes
    <3>. QED
      BY <2>4, <2>9, <3>1 DEF Deliver
  <2>. QED
    BY <1>1, <2>3, <2>5, <2>6, <2>7, <2>8, <2>9 DEF Next, EndAdmission
<1>2. BooksInv /\ [Next]_vars => [InOrder]_vars
  BY <1>1
<1>3. GrantsSpentFirst <=> [][InOrder]_vars
  BY DEF GrantsSpentFirst, InOrder
<1>. QED
  BY <1>2, <1>3, BooksAgree, PTL DEF Spec

-----------------------------------------------------------------------------
(* The book: every step is one of the in-memory repository, or none. *)

\* The sums of the book are those of the ledger.
LEMMA BookSums ==
  /\ \A f, S : Book!SumFunctionOnSet(f, S) = SumFunctionOnSet(f, S)
  /\ \A f : Book!SumFunction(f) = SumFunction(f)
<1>1. ASSUME NEW f, NEW S
      PROVE  Book!SumFunctionOnSet(f, S) = SumFunctionOnSet(f, S)
  BY DEF Book!SumFunctionOnSet, Book!FoldFunctionOnSet, Book!MapThenFoldSet,
         SumFunctionOnSet, FoldFunctionOnSet, MapThenFoldSet
<1>. QED
  BY <1>1 DEF Book!SumFunction, SumFunction

\* What the lots give at once in SQL is what the loop takes of them in turn.
LEMMA GivenInTurn ==
  ASSUME NEW ls \in Lots, NEW credits \in Nat
  PROVE  /\ Book!GiveInTurn(ls, credits, Given(ls, credits))
         /\ Given(ls, credits) \in [DOMAIN ls -> 0 .. credits]
<1>1. ASSUME NEW k \in DOMAIN ls
      PROVE  /\ Given(ls, credits)[k] \in 0 .. credits
             /\ Given(ls, credits)[k] =
                  Least(credits - SumFunctionOnSet(Given(ls, credits), Ahead(ls, k)),
                        Available(ls[k]))
  <2>1. PICK s : s = SumFunctionOnSet(Availables(ls), Ahead(ls, k))
    OBVIOUS
  <2>2. PICK t : t = SumFunctionOnSet(Given(ls, credits), Ahead(ls, k))
    OBVIOUS
  <2>3. s \in Nat /\ Remaining(ls, credits, k) = credits - s /\ Available(ls[k]) \in Nat
    BY <2>1, AheadSum, LotsType
  <2>4. t = Least(credits, s)
    <3>1. \A h \in Ahead(ls, k) : Ahead(ls, h) \subseteq Ahead(ls, k)
      BY PrecedesOrder DEF Ahead
    <3>2. Ahead(ls, k) \in SUBSET DOMAIN ls
      BY DEF Ahead
    <3>. QED
      BY <2>1, <2>2, <3>1, <3>2, TurnsFill
  <2>5. Given(ls, credits)[k] =
          IF credits - s > 0 /\ Available(ls[k]) > 0
          THEN IF Available(ls[k]) < credits - s THEN Available(ls[k]) ELSE credits - s
          ELSE 0
    BY <2>3 DEF Given, Shares
  <2>. QED
    BY <2>2, <2>3, <2>4, <2>5 DEF Least
<1>2. ASSUME NEW k \in DOMAIN ls
      PROVE  {i \in DOMAIN ls : Book!Earlier(ls, i, k)} = Ahead(ls, k)
  BY DEF Book!Earlier, Ahead, Precedes
<1>3. Given(ls, credits) \in [DOMAIN ls -> 0 .. credits]
  BY <1>1 DEF Given
<1>. QED
  BY <1>1, <1>2, <1>3, BookSums DEF Book!GiveInTurn, Book!Least, Least, Available

\* A new reference is a new entry of the book.
LEMMA EntryAdded ==
  ASSUME NEW r \in References, NEW c, Record(r, c), DOMAIN ledger \subseteq References
  PROVE  /\ {BookEntry(x) : x \in DOMAIN ledger}' = {BookEntry(x) : x \in DOMAIN ledger}
              \cup {Book!Entry(IF r[1] \in {"grant", "stripe"} THEN "purchase" ELSE r[1],
                               IF r[1] \in {"grant", "stripe"} THEN r ELSE r[2], c)}
         /\ \A e \in {BookEntry(x) : x \in DOMAIN ledger} :
              e.kind = "purchase" => e.reference # r
<1>1. /\ r \notin DOMAIN ledger /\ DOMAIN ledger' = DOMAIN ledger \cup {r}
      /\ ledger'[r] = c /\ \A x \in DOMAIN ledger : ledger'[x] = ledger[x]
  BY DEF Record
<1>2. \A x \in DOMAIN ledger : BookEntry(x)' = BookEntry(x)
  BY <1>1 DEF BookEntry
<1>3. BookEntry(r)' = Book!Entry(IF r[1] \in {"grant", "stripe"} THEN "purchase" ELSE r[1],
                                 IF r[1] \in {"grant", "stripe"} THEN r ELSE r[2], c)
  BY <1>1 DEF BookEntry, Book!Entry
<1>4. ASSUME NEW x \in DOMAIN ledger, BookEntry(x).kind = "purchase"
      PROVE  BookEntry(x).reference # r
  <2>1. x[1] \in {"grant", "stripe"}
    <3>1. x \in References
      OBVIOUS
    <3>2. x[1] \in {"grant", "stripe", "reservation", "settlement", "release"}
      BY <3>1 DEF References
    <3>. QED
      BY <1>4, <3>2 DEF BookEntry
  <2>. QED
    BY <1>1, <2>1 DEF BookEntry
<1>. QED
  BY <1>1, <1>2, <1>3, <1>4

\* Credits come in as a grant of the book.
LEMMA GrantFollows ==
  ASSUME Books, NEW a \in Accounts, NEW r \in References, r[1] \in {"grant", "stripe"},
         NEW kind, NEW c, Grant(a, r, kind, c)
  PROVE  Book!Grant(a, r, kind, c)
<1>1. Record(r, c) /\ DOMAIN ledger \subseteq References
  BY DEF Grant, Books, BookTypes
<1>2. /\ {BookEntry(x) : x \in DOMAIN ledger}' = {BookEntry(x) : x \in DOMAIN ledger}
            \cup {Book!Entry("purchase", r, c)}
      /\ \A e \in {BookEntry(x) : x \in DOMAIN ledger} :
           e.kind = "purchase" => e.reference # r
  BY <1>1, EntryAdded
<1>. QED
  BY <1>2 DEF Grant, Book!Grant, NewLot

\* An admission reserves as the book does.
LEMMA AdmitFollows ==
  ASSUME BooksInv, NEW b \in Accounts, NEW r \in admission[b], Admit(r)
  PROVE  r.job \in Jobs /\ Book!Reserve(r.job)
<1>1. PICK j : j = r.job
  OBVIOUS
<1>2. PICK price : price = Request[j].price
  OBVIOUS
<1>3. PICK a : a = Request[j].account
  OBVIOUS
<1>4. PICK ls : ls = lots[a]
  OBVIOUS
<1>5. PICK shares : shares = Shares(ls, price)
  OBVIOUS
<1>6. PICK given : given = Given(ls, price)
  OBVIOUS
<1>7. IInv /\ BookTypes /\ UnaskedFree
  BY DEF BooksInv, Books
<1>8. j \in Jobs /\ authorization[j] = "none"
  <2>1. j \in Jobs /\ outcome[j] = "unasked"
    BY <1>1, <1>7, UnlockFacts DEF Admit
  <2>. QED
    BY <1>7, <2>1 DEF UnaskedFree
<1>9. a \in Accounts /\ price \in Nat /\ ls \in Lots /\ balance[a] \in Nat
  BY <1>2, <1>3, <1>4, <1>7, <1>8, RequestFacts DEF BookTypes, Account
<1>10. balance[a] >= price /\ SumFunction(shares) = price
  BY <1>1, <1>2, <1>3, <1>4, <1>5, <1>9, AdmittedCredits DEF Admit
<1>11. /\ balance' = [balance EXCEPT ![a] = @ - price]
       /\ authorization' = [authorization EXCEPT ![j] = "reserved"]
       /\ lots' = [lots EXCEPT ![a] = ReserveLots(@, shares)]
       /\ allocation' = [allocation EXCEPT ![j] = shares]
       /\ Record(<<"reservation", j>>, - price)
  BY <1>1, <1>2, <1>3, <1>4, <1>5 DEF Admit
<1>12. /\ given \in [DOMAIN ls -> 0 .. price] /\ Book!GiveInTurn(ls, price, given)
       /\ Book!SumFunction(given) = price
  <2>1. given \in [DOMAIN ls -> 0 .. price] /\ Book!GiveInTurn(ls, price, given)
    BY <1>6, <1>9, GivenInTurn
  <2>2. SumFunctionOnSet(given, DOMAIN ls) = price
    BY <1>5, <1>6, <1>9, <1>10, GivenType
  <2>3. DOMAIN given = DOMAIN ls
    BY <2>1
  <2>. QED
    BY <2>1, <2>2, <2>3, BookSums DEF SumFunction
<1>13. /\ DOMAIN shares = {k \in DOMAIN ls : given[k] > 0}
       /\ \A k \in DOMAIN shares : given[k] = shares[k]
       /\ \A k \in DOMAIN ls \ DOMAIN shares : given[k] = 0
  <2>1. /\ DOMAIN shares \subseteq DOMAIN ls
        /\ \A k \in DOMAIN shares : shares[k] \in Nat \ {0}
    BY <1>5, <1>9, SharesType
  <2>2. \A k \in DOMAIN ls : given[k] = IF k \in DOMAIN shares THEN shares[k] ELSE 0
    BY <1>5, <1>6 DEF Given
  <2>. QED
    BY <2>1, <2>2
<1>14. shares = Book!Restrict(given, {k \in DOMAIN given : given[k] > 0})
  <2>1. {k \in DOMAIN given : given[k] > 0} = DOMAIN shares
    BY <1>12, <1>13
  <2>2. shares = [k \in DOMAIN shares |-> shares[k]]
    BY <1>5 DEF Shares
  <2>. QED
    BY <1>13, <2>1, <2>2 DEF Book!Restrict
<1>15. ReserveLots(ls, shares) = Book!Reserved(ls, given)
  <2>1. ASSUME NEW k \in DOMAIN ls
        PROVE  (IF k \in DOMAIN shares THEN [ls[k] EXCEPT !.reserved = @ + shares[k]]
                ELSE ls[k])
               = [ls[k] EXCEPT !.reserved = @ + given[k]]
    <3>1. ls[k] \in Lot
      BY <1>9, LotsType
    <3>. QED
      BY <1>13, <3>1 DEF Lot
  <2>. QED
    BY <2>1 DEF ReserveLots, Book!Reserved
<1>16. {BookEntry(x) : x \in DOMAIN ledger}'
         = {BookEntry(x) : x \in DOMAIN ledger} \cup {Book!Entry("reservation", j, - price)}
  <2>1. PICK e : e = <<"reservation", j>>
    OBVIOUS
  <2>2. e \in References /\ e[1] = "reservation" /\ e[2] = j
    BY <1>8, <2>1, ReferenceFacts
  <2>3. Record(e, - price) /\ DOMAIN ledger \subseteq References
    BY <1>7, <1>11, <2>1 DEF BookTypes
  <2>. QED
    BY <2>2, <2>3, EntryAdded
<1>17. lots' = [lots EXCEPT ![a] = Book!Reserved(@, given)]
  BY <1>4, <1>11, <1>15
<1>18. \E amounts \in [DOMAIN lots[a] -> 0 .. price] :
         /\ Book!GiveInTurn(lots[a], price, amounts)
         /\ Book!SumFunction(amounts) = price
         /\ lots' = [lots EXCEPT ![a] = Book!Reserved(@, amounts)]
         /\ allocation' = [allocation EXCEPT ![j] =
               Book!Restrict(amounts, {k \in DOMAIN amounts : amounts[k] > 0})]
  <2>1. allocation' = [allocation EXCEPT ![j] =
           Book!Restrict(given, {k \in DOMAIN given : given[k] > 0})]
    BY <1>11, <1>14
  <2>2. given \in [DOMAIN lots[a] -> 0 .. price] /\ Book!GiveInTurn(lots[a], price, given)
    BY <1>4, <1>12
  <2>. QED
    BY <1>12, <1>17, <2>1, <2>2
<1>19. Book!Reserve(j)
  <2>1. /\ authorization[j] = "none"
        /\ balance[Request[j].account] >= Request[j].price
        /\ balance' = [balance EXCEPT ![Request[j].account] = @ - Request[j].price]
        /\ authorization' = [authorization EXCEPT ![j] = "reserved"]
    BY <1>2, <1>3, <1>8, <1>10, <1>11
  <2>2. \E amounts \in [DOMAIN lots[Request[j].account] -> 0 .. Request[j].price] :
         /\ Book!GiveInTurn(lots[Request[j].account], Request[j].price, amounts)
         /\ Book!SumFunction(amounts) = Request[j].price
         /\ lots' = [lots EXCEPT ![Request[j].account] = Book!Reserved(@, amounts)]
         /\ allocation' = [allocation EXCEPT ![j] =
               Book!Restrict(amounts, {k \in DOMAIN amounts : amounts[k] > 0})]
    BY <1>2, <1>3, <1>18, Zenon
  <2>3. {BookEntry(x) : x \in DOMAIN ledger}'
         = {BookEntry(x) : x \in DOMAIN ledger}
             \cup {Book!Entry("reservation", j, - Request[j].price)}
    BY <1>2, <1>16
  <2>. QED
    BY <2>1, <2>2, <2>3, Zenon DEF Book!Reserve
<1>. QED
  BY <1>1, <1>8, <1>19

\* The end of a job closes its reservation as the book does.
LEMMA FinalizeFollows ==
  ASSUME BooksInv, NEW j \in Jobs, NEW status \in {"settled", "released"}, Finalize(j, status)
  PROVE  Book!Settle(j) \/ Book!Release(j)
<1>1. PICK a : a = Request[j].account
  OBVIOUS
<1>2. PICK ls : ls = lots[a]
  OBVIOUS
<1>3. PICK shares : shares = allocation[j]
  OBVIOUS
<1>4. PICK consumed : consumed = IF status = "settled" THEN 1 ELSE 0
  OBVIOUS
<1>5. PICK returned : returned = IF status = "released" THEN Request[j].price ELSE 0
  OBVIOUS
<1>6. PICK kind : kind = LedgerKind(status)
  OBVIOUS
<1>7. BookTypes /\ AllocationsSound
  BY DEF BooksInv, Books
<1>8. /\ authorization[j] = "reserved"
      /\ lots' = [lots EXCEPT ![a] = FinalizeLots(@, shares, status)]
      /\ authorization' = [authorization EXCEPT ![j] = status]
      /\ balance' = [balance EXCEPT ![a] = @ + returned]
      /\ Record(<<kind, j>>, returned)
      /\ UNCHANGED allocation
  BY <1>1, <1>3, <1>5, <1>6 DEF Finalize
<1>9. ls \in Lots /\ \A k \in DOMAIN shares : shares[k] \in Nat
  BY <1>1, <1>2, <1>3, <1>7, <1>8, RequestFacts DEF BookTypes, AllocationsSound, Account
<1>10. FinalizeLots(ls, shares, status) = Book!Closed(ls, shares, consumed)
  <2>1. ASSUME NEW k \in DOMAIN ls, k \in DOMAIN shares
        PROVE  (IF status = "settled" THEN ls[k].consumed + shares[k] ELSE ls[k].consumed)
                 = ls[k].consumed + consumed * shares[k]
    <3>1. ls[k].consumed \in Nat /\ shares[k] \in Nat
      BY <1>9, <2>1, LotsType DEF Lot
    <3>2. 1 * shares[k] = shares[k] /\ 0 * shares[k] = 0
      BY <3>1
    <3>. QED
      BY <1>4, <3>1, <3>2
  <2>. QED
    BY <2>1 DEF FinalizeLots, Book!Closed
<1>11. lots' = [lots EXCEPT ![a] = Book!Closed(@, shares, consumed)]
  BY <1>2, <1>8, <1>10
<1>12. {BookEntry(x) : x \in DOMAIN ledger}'
         = {BookEntry(x) : x \in DOMAIN ledger} \cup {Book!Entry(kind, j, returned)}
  <2>1. PICK e : e = <<kind, j>>
    OBVIOUS
  <2>2. kind \in {"settlement", "release"}
    BY <1>6 DEF LedgerKind
  <2>3. e \in References /\ e[1] = kind /\ e[2] = j
    BY <2>1, <2>2, ReferenceFacts
  <2>4. Record(e, returned) /\ DOMAIN ledger \subseteq References
    BY <1>7, <1>8, <2>1 DEF BookTypes
  <2>. QED
    BY <2>2, <2>3, <2>4, EntryAdded
<1>13. Book!Close(j, status, kind, consumed, returned)
  BY <1>1, <1>3, <1>8, <1>11, <1>12 DEF Book!Close
<1>14. \/ status = "settled" /\ kind = "settlement" /\ consumed = 1 /\ returned = 0
       \/ status = "released" /\ kind = "release" /\ consumed = 0
          /\ returned = Request[j].price
  BY <1>4, <1>5, <1>6 DEF LedgerKind
<1>. QED
  BY <1>13, <1>14 DEF Book!Settle, Book!Release

\* Hosted storage takes only the steps of the in-memory repository, whatever
\* overlaps, repeats or fails (the refinement of CreditBook).
THEOREM StorageFollows == Spec => FollowsBook
<1>1. ASSUME BooksInv, [Next]_vars
      PROVE  [Book!Next]_(Book!books)
  <2>1. Books /\ BookTypes
    BY <1>1 DEF BooksInv, Books
  <2>2. ASSUME UNCHANGED <<balance, ledger, lots, allocation, authorization>>
        PROVE  UNCHANGED Book!books
    BY <2>2 DEF Book!books, BookEntry
  <2>3. ASSUME NEW a \in Accounts, Visit(a)
        PROVE  Book!Next
    <3>1. PICK r : r = <<"grant", a>>
      OBVIOUS
    <3>2. r \in References /\ r[1] = "grant" /\ Grant(a, r, "grant", allowance)
      BY <2>3, <3>1, ReferenceFacts DEF Visit
    <3>3. Book!Grant(a, <<"grant", a>>, "grant", allowance)
      BY <2>1, <3>1, <3>2, GrantFollows
    <3>. QED
      BY <2>1, <3>3 DEF Book!Next, BookTypes
  <2>4. ASSUME NEW d \in sent, Deliver(d)
        PROVE  Book!Next
    <3>1. PICK p : p = d.session
      OBVIOUS
    <3>2. PICK r : r = <<"stripe", p>>
      OBVIOUS
    <3>3. p \in Payments /\ Session[p].account \in Accounts
      BY <2>1, <3>1, RequestAssumption DEF BookTypes
    <3>4. r \in References /\ r[1] = "stripe"
      BY <3>2, <3>3, ReferenceFacts
    <3>5. Grant(Session[p].account, r, "purchase", Session[p].credits)
      BY <2>4, <3>1, <3>2 DEF Deliver
    <3>6. Book!Grant(Session[p].account, r, "purchase", Session[p].credits)
      BY <2>1, <3>3, <3>4, <3>5, GrantFollows
    <3>. QED
      BY <3>2, <3>3, <3>6 DEF Book!Next, Book!Pay
  <2>5. ASSUME NEW a \in Accounts, NEW r \in admission[a], Admit(r)
        PROVE  Book!Next
    BY <1>1, <2>5, AdmitFollows DEF Book!Next
  <2>6. ASSUME NEW j \in Jobs, NEW status \in {"settled", "released"}, Finalize(j, status)
        PROVE  Book!Next
    BY <1>1, <2>6, FinalizeFollows DEF Book!Next
  <2>7. ASSUME \/ UNCHANGED vars
               \/ Redeploy
               \/ \E p \in Payments : Checkout(p) \/ Complete(p) \/ AsyncPayment(p)
               \/ \E j \in Jobs : BeginAdmission(j)
               \/ \E a \in Accounts : \E r \in admission[a] : Refuse(r)
        PROVE  UNCHANGED <<balance, ledger, lots, allocation, authorization>>
    BY <2>7 DEF vars, Redeploy, Checkout, Complete, AsyncPayment, BeginAdmission, Refuse
  <2>. QED
    BY <1>1, <2>2, <2>3, <2>4, <2>5, <2>6, <2>7 DEF Next, EndAdmission
<1>. QED
  BY <1>1, BooksAgree, PTL DEF Spec, FollowsBook

=============================================================================
