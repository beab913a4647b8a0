------------------------------ MODULE FeeLedger ------------------------------
(***************************************************************************)
(* The fee ledger of the backend: services/fee.py over repositories/fee.py *)
(* and models/fee.py.                                                      *)
(*                                                                         *)
(* A request handler runs in one database session.  It reads rows, awaits, *)
(* and writes them back in one commit; PostgreSQL runs READ COMMITTED and  *)
(* SQLAlchemy compares the version column of every row it updates          *)
(* (version_id_col), so a commit whose rows changed meanwhile is rolled    *)
(* back.  Rows read by different SELECTs of one handler are read here in   *)
(* one step: a commit that succeeds found them all unchanged, and one that *)
(* fails leaves nothing in the database.                                   *)
(*                                                                         *)
(* A fee receipt is created in the commit of its payment and deleted with  *)
(* it, so it is the field `receipt' of the payment.  amount_paid is the    *)
(* sum of the allocations wherever the code writes it, so it is derived.   *)
(* Money is counted in whole units; the fields of absent rows are zero.    *)
(***************************************************************************)
EXTENDS Integers, FiniteSets, Functions

CONSTANTS
    Students, Structures,   \* students and fee structures
    Payments,               \* payment identifiers (uuid4)
    Requests,               \* handlers that run at the same time
    References,             \* transaction references a cashier may type
    None,                   \* no reference, no student, no payment
    Trim,                   \* str.strip on references, None for a blank one
    Fee,                    \* structure |-> amount, due, grace and fine rule
    Scholarships,           \* concessions: [type, value]
    Amounts,                \* amounts a cashier may enter (all positive)
    Resets,                 \* student sets of the schools that may be reset
    MaxDay, MaxVersion      \* bounds: the calendar, the edits of one payment

FineTypes == {"NONE", "FIXED", "PERCENTAGE", "DAILY_FIXED"}

ASSUME FeeAssumption ==
    Fee \in [Structures -> [amount: Nat, due: Nat, grace: Nat,
                            fineType: FineTypes, fineValue: Nat]]
ASSUME InputAssumption ==
    /\ Amounts \subseteq Nat \ {0}
    /\ Scholarships \subseteq [type: {"FIXED", "PERCENTAGE"}, value: Nat]
    /\ Resets \subseteq SUBSET Students
    /\ MaxDay \in Nat /\ MaxVersion \in Nat
    /\ Trim \in [References \cup {None} -> References \cup {None}]
    /\ Trim[None] = None
    /\ IsFiniteSet(Payments)
    /\ None \notin Students \cup Payments \cup References

VARIABLES
    today,          \* date.today(), in days
    assignments,    \* student_fee_assignments, one row per student and structure
    payments,       \* fee_payments with fee_payment_allocations and fee_receipts
    documents,      \* receipts/<number>.pdf in file storage
    requests        \* what each running handler holds in its session

vars == <<today, assignments, payments, documents, requests>>

Assignment == Students \X Structures
StudentOf(a) == a[1]
FeeOf(a) == Fee[a[2]]

Live == {"UNPAID", "PARTIALLY_PAID", "PAID"}
Recorded == {"COMPLETED", "CANCELLED"}

AssignmentRow == [status: Live \cup {"ABSENT", "DELETED"},
                  assigned: Nat, discount: Nat, fine: Nat, paid: Int,
                  version: Nat]
PaymentRow == [status: Recorded \cup {"ABSENT", "DELETED"},
               student: Students \cup {None},
               ref: References \cup {None},
               alloc: [Assignment -> Nat],
               receipt: Nat, version: Nat]
Document == [payment: Payments, alloc: [Assignment -> Nat]]

(* A session: the operation and its last step, the rows it will write with *)
(* the version it read them at, those it added a late fine to, its payment *)
Session == [op: {"idle", "collect", "update", "cancel", "assign", "regenerate"},
            step: {"none", "read", "flushed", "uploaded", "committed"},
            touched: SUBSET Assignment,
            fined: SUBSET Assignment,
            rows: [Assignment -> AssignmentRow],
            payment: Payments \cup {None},
            pay: PaymentRow]

NoAllocation == [a \in Assignment |-> 0]
AbsentRow == [status |-> "ABSENT", assigned |-> 0, discount |-> 0,
              fine |-> 0, paid |-> 0, version |-> 0]
AbsentPayment == [status |-> "ABSENT", student |-> None, ref |-> None,
                  alloc |-> NoAllocation, receipt |-> 0, version |-> 0]
Idle == [op |-> "idle", step |-> "none", touched |-> {}, fined |-> {},
         rows |-> [a \in Assignment |-> AbsentRow],
         payment |-> None, pay |-> AbsentPayment]

TypeOK ==
    /\ today \in Nat
    /\ assignments \in [Assignment -> AssignmentRow]
    /\ payments \in [Payments -> PaymentRow]
    /\ DOMAIN documents \subseteq Nat
    /\ \A n \in DOMAIN documents : documents[n] \in Document
    /\ requests \in [Requests -> Session]

Init ==
    /\ today = 0
    /\ assignments = [a \in Assignment |-> AbsentRow]
    /\ payments = [p \in Payments |-> AbsentPayment]
    /\ documents = [n \in {} |-> AbsentPayment]
    /\ requests = [r \in Requests |-> Idle]

-----------------------------------------------------------------------------
(* Arithmetic of one assignment row.                                       *)

Due(row) == row.assigned + row.fine - row.discount
Outstanding(row) == Due(row) - row.paid

(* x hundredths as they are stored: NUMERIC rounds halves up. *)
Rounded(x) == (x + 50) \div 100

(* assign_fee: a concession never exceeds the fee. *)
AtMost(x, y) == IF x <= y THEN x ELSE y
Discount(amount, s) ==
    AtMost(IF s.type = "FIXED" THEN s.value ELSE Rounded(amount * s.value), amount)

(* Slip: the date is not looked at. *)
OverdueAtOnce(fee) == fee.fineType # "NONE"

(* The automatic late fine of collect_payment; it is added to the row each  *)
(* time an allocation to an overdue assignment is validated.                *)
Overdue(fee) == fee.fineType # "NONE" /\ today > fee.due + fee.grace
CalculatedFine(fee, unpaid) ==
    CASE fee.fineType = "FIXED" -> fee.fineValue
      [] fee.fineType = "PERCENTAGE" -> Rounded(unpaid * fee.fineValue)
      [] fee.fineType = "DAILY_FIXED" -> fee.fineValue * (today - fee.due)
      [] OTHER -> 0
WithLateFine(fee, row) ==
    IF Overdue(fee)
    THEN [row EXCEPT !.fine = @ + CalculatedFine(fee, Outstanding(row))]
    ELSE row

(* Slip: the status is computed before the amount is added. *)
PayThenStatus(row, amount) ==
    [row EXCEPT !.paid = @ + amount,
                !.status = IF Outstanding(row) <= 0 THEN "PAID" ELSE "PARTIALLY_PAID"]

(* Adding to paid_amount and recomputing the status: collecting and editing *)
(* never return to UNPAID, cancelling may.                                  *)
Pay(row, amount) ==
    [row EXCEPT !.paid = @ + amount,
                !.status = IF Outstanding(row) - amount <= 0
                           THEN "PAID" ELSE "PARTIALLY_PAID"]

Revert(row, amount) ==
    [row EXCEPT !.paid = @ - amount,
                !.status = CASE row.paid - amount <= 0 -> "UNPAID"
                             [] row.paid - amount > 0
                                /\ Outstanding(row) + amount <= 0 -> "PAID"
                             [] OTHER -> "PARTIALLY_PAID"]

Allocated(pay) == {a \in Assignment : pay.alloc[a] > 0}

-----------------------------------------------------------------------------
(* Sessions and the database.                                              *)

Begin(r, session) == requests' = [requests EXCEPT ![r] = session]
End(r) == Begin(r, Idle)

(* collect_payment flushes the rows it fined before the receipt is made: an *)
(* UPDATE or DELETE of such a row by another session waits for its end.     *)
Locked(q) ==
    IF requests[q].step \in {"flushed", "uploaded"} THEN requests[q].fined ELSE {}
Unlocked(r, A) == \A q \in Requests \ {r} : Locked(q) \cap A = {}

(* Slip: no version_id_col on the model, any stored row is updated. *)
AnyRow(row, stored) == stored.status \in Live
AnyPay(pay, stored) == stored.status \in Recorded

(* The version check of an UPDATE: the stored row is still the one read.    *)
FreshRow(row, stored) == stored.status \in Live /\ stored.version = row.version
FreshPay(pay, stored) == stored.status \in Recorded /\ stored.version = pay.version

FreshRows(s, A) == \A a \in A : FreshRow(s.rows[a], assignments[a])
FreshPayment(s) == FreshPay(s.pay, payments[s.payment])

(* What the commit writes: the session's rows, their versions incremented. *)
WrittenRows(s) ==
    [a \in Assignment |->
        IF a \in s.touched
        THEN [s.rows[a] EXCEPT !.version = @ + 1]
        ELSE assignments[a]]
WrittenPayment(s) ==
    [payments EXCEPT ![s.payment] = [s.pay EXCEPT !.version = @ + 1]]

(* Uploading a receipt replaces whatever is stored under its number. *)
Upload(n, p, pay) ==
    documents' = [k \in DOMAIN documents \cup {n} |->
                    IF k = n THEN [payment |-> p, alloc |-> pay.alloc]
                             ELSE documents[k]]

ReceiptRows == {p \in Payments : payments[p].status \in Recorded}
UsedNumbers == {payments[p].receipt : p \in ReceiptRows}

(* Slip: no constraint behind the count. *)
AnyNumber(n) == n \in Nat

(* The unique receipt number. *)
NumberIsFree(n) == n \notin UsedNumbers

NextReceiptNumber == Cardinality(ReceiptRows) + 1

(* The commit's constraint checks fail, the handler raises, the process     *)
(* dies or the client goes away: the transaction is rolled back.            *)
Abort(r) ==
    /\ requests[r].op # "idle"
    /\ End(r)
    /\ UNCHANGED <<today, assignments, payments, documents>>

-----------------------------------------------------------------------------
(* assign_fee and propagate_class_fee_structure: the rows to create are     *)
(* those found missing; the unique constraint on student and structure      *)
(* makes the commit fail if one of them exists by then.                     *)
NewAssignment(a, discount) ==
    [status |-> "UNPAID", assigned |-> FeeOf(a).amount, discount |-> discount,
     fine |-> 0, paid |-> 0, version |-> 0]

StartAssign(r, A, discount) ==
    /\ requests[r] = Idle
    /\ A # {}
    /\ Begin(r, [Idle EXCEPT
            !.op = "assign", !.step = "read", !.touched = A,
            !.rows = [a \in Assignment |->
                        IF a \in A THEN NewAssignment(a, discount) ELSE AbsentRow]])
    /\ UNCHANGED <<today, assignments, payments, documents>>

AssignFee(r, a) ==
    /\ assignments[a].status = "ABSENT"
    /\ \E d \in {0} \cup {Discount(FeeOf(a).amount, s) : s \in Scholarships} :
            StartAssign(r, {a}, d)

Propagate(r, f) ==
    StartAssign(r, {a \in Assignment : /\ a[2] = f
                                      /\ assignments[a].status = "ABSENT"}, 0)

CommitAssign(r) ==
    LET s == requests[r] IN
    /\ s.op = "assign"
    /\ \A a \in s.touched : assignments[a].status = "ABSENT"
    /\ assignments' = WrittenRows(s)
    /\ End(r)
    /\ UNCHANGED <<today, payments, documents>>

-----------------------------------------------------------------------------
(* collect_payment.                                                         *)

StudentExists(s) == \A a \in Assignment : StudentOf(a) = s => assignments[a].status # "DELETED"

(* Every allocation is validated against its row, the late fine added.      *)
StartCollect(r, student, alloc, ref) ==
    LET A == {a \in Assignment : alloc[a] > 0}
        row(a) == WithLateFine(FeeOf(a), assignments[a])
    IN
    /\ requests[r] = Idle
    /\ StudentExists(student)
    /\ \A a \in A : /\ StudentOf(a) = student
                    /\ assignments[a].status \in Live \ {"PAID"}
                    /\ alloc[a] <= Outstanding(row(a))
    /\ Begin(r, [Idle EXCEPT
            !.op = "collect", !.step = "read", !.touched = A,
            !.fined = {a \in A : row(a) # assignments[a]},
            !.rows = [a \in Assignment |-> IF a \in A THEN row(a) ELSE AbsentRow],
            !.pay = [AbsentPayment EXCEPT !.status = "COMPLETED",
                        !.student = student, !.ref = ref, !.alloc = alloc]])
    /\ UNCHANGED <<today, assignments, payments, documents>>

(* A reference already recorded for the student is refused: it is trimmed   *)
(* for the comparison and stored as typed.  The new payment and the fined   *)
(* rows are flushed, the allocations applied in the session.                *)
RecordedReference(student, ref) ==
    /\ ref # None
    /\ \E p \in Payments : /\ payments[p].status = "COMPLETED"
                           /\ payments[p].student = student
                           /\ payments[p].ref = ref

FlushCollect(r, p) ==
    LET s == requests[r] IN
    /\ s.op = "collect" /\ s.step = "read"
    /\ ~RecordedReference(s.pay.student, Trim[s.pay.ref])
    /\ payments[p].status = "ABSENT"
    /\ \A q \in Requests : requests[q].payment # p
    /\ StudentExists(s.pay.student)
    /\ Unlocked(r, s.fined)
    /\ FreshRows(s, s.fined)
    /\ Begin(r, [s EXCEPT
            !.step = "flushed", !.payment = p,
            !.rows = [a \in Assignment |->
                        IF a \in s.touched THEN Pay(s.rows[a], s.pay.alloc[a])
                                           ELSE s.rows[a]]])
    /\ UNCHANGED <<today, assignments, payments, documents>>

(* Slip: a failing upload is logged and the collection goes on. *)
SkipUpload(r) ==
    LET s == requests[r] IN
    /\ s.op = "collect" /\ s.step = "flushed"
    /\ Begin(r, [s EXCEPT !.step = "uploaded", !.pay.receipt = NextReceiptNumber])
    /\ UNCHANGED <<today, assignments, payments, documents>>

(* The receipt number is one more than the number of receipts now committed,*)
(* over all tenants; its document is stored before the commit.              *)
UploadReceipt(r) ==
    LET s == requests[r]
        n == NextReceiptNumber
    IN
    /\ s.op = "collect" /\ s.step = "flushed"
    /\ Upload(n, s.payment, s.pay)
    /\ Begin(r, [s EXCEPT !.step = "uploaded", !.pay.receipt = n])
    /\ UNCHANGED <<today, assignments, payments>>

CommitCollect(r) ==
    LET s == requests[r] IN
    /\ s.op = "collect" /\ s.step = "uploaded"
    /\ Unlocked(r, s.touched)
    /\ FreshRows(s, s.touched)
    /\ NumberIsFree(s.pay.receipt)
    /\ assignments' = WrittenRows(s)
    /\ payments' = WrittenPayment(s)
    /\ End(r)
    /\ UNCHANGED <<today, documents>>

-----------------------------------------------------------------------------
(* Slip: what other payments have paid is forgotten. *)
MaxDue(row, allocated) == Due(row)

(* update_payment: a new reference, a new amount, or neither.  The amount   *)
(* of a payment with several allocations, or none, is left as it is.        *)
MaxAllowable(row, allocated) == Due(row) - (row.paid - allocated)

StartUpdate(r, p, amount, ref) ==
    LET pay == payments[p]
        A == {a \in Assignment : Allocated(pay) = {a} /\ pay.alloc[a] # amount}
    IN
    /\ requests[r] = Idle
    /\ pay.status = "COMPLETED"
    /\ pay.version < MaxVersion
    /\ \A a \in A : amount <= MaxAllowable(assignments[a], pay.alloc[a])
    /\ Begin(r, [Idle EXCEPT
            !.op = "update", !.step = "read", !.touched = A, !.payment = p,
            !.rows = [a \in Assignment |->
                        IF a \in A
                        THEN Pay(assignments[a], amount - pay.alloc[a])
                        ELSE AbsentRow],
            !.pay = [pay EXCEPT !.ref = IF ref = None THEN @ ELSE Trim[ref],
                        !.alloc = [a \in Assignment |->
                                    IF a \in A THEN amount ELSE pay.alloc[a]]]])
    /\ UNCHANGED <<today, assignments, payments, documents>>

CommitUpdate(r) ==
    LET s == requests[r] IN
    /\ s.op = "update" /\ s.step = "read"
    /\ Unlocked(r, s.touched)
    /\ FreshPayment(s) /\ FreshRows(s, s.touched)
    /\ assignments' = WrittenRows(s)
    /\ payments' = WrittenPayment(s)
    /\ Begin(r, [s EXCEPT !.step = "committed"])
    /\ UNCHANGED <<today, documents>>

(* regenerate_receipt_pdf, called by update_payment after its commit and by *)
(* its own endpoint: the document is drawn from the rows of this session.   *)
StartRegenerate(r, p) ==
    /\ requests[r] = Idle
    /\ payments[p].status \in Recorded
    /\ Begin(r, [Idle EXCEPT !.op = "regenerate", !.step = "committed",
                             !.payment = p, !.pay = payments[p]])
    /\ UNCHANGED <<today, assignments, payments, documents>>

FinishRegenerate(r) ==
    LET s == requests[r] IN
    /\ s.step = "committed"
    /\ Upload(s.pay.receipt, s.payment, s.pay)
    /\ End(r)
    /\ UNCHANGED <<today, assignments, payments>>

-----------------------------------------------------------------------------
(* cancel_payment: the allocations are taken back, late fines are not.      *)
StartCancel(r, p) ==
    LET pay == payments[p] IN
    /\ requests[r] = Idle
    /\ pay.status = "COMPLETED"
    /\ Begin(r, [Idle EXCEPT
            !.op = "cancel", !.step = "read",
            !.touched = Allocated(pay), !.payment = p,
            !.rows = [a \in Assignment |->
                        IF a \in Allocated(pay)
                        THEN Revert(assignments[a], pay.alloc[a])
                        ELSE AbsentRow],
            !.pay = [pay EXCEPT !.status = "CANCELLED"]])
    /\ UNCHANGED <<today, assignments, payments, documents>>

CommitCancel(r) ==
    LET s == requests[r] IN
    /\ s.op = "cancel"
    /\ Unlocked(r, s.touched)
    /\ FreshPayment(s) /\ FreshRows(s, s.touched)
    /\ assignments' = WrittenRows(s)
    /\ payments' = WrittenPayment(s)
    /\ End(r)
    /\ UNCHANGED <<today, documents>>

-----------------------------------------------------------------------------
(* The school data reset deletes the students of a school with their        *)
(* assignments, payments and receipts; stored documents stay.  The students *)
(* are deleted last and wait for every collection that has inserted its     *)
(* payment (a reference to the student's row) but not committed it.         *)
ResetSchool(S) ==
    LET A == {a \in Assignment : StudentOf(a) \in S} IN
    /\ \A q \in Requests :
          requests[q].step \in {"flushed", "uploaded"} => requests[q].pay.student \notin S
    /\ assignments' = [a \in Assignment |->
                         IF a \in A THEN [AbsentRow EXCEPT !.status = "DELETED"]
                                    ELSE assignments[a]]
    /\ payments' = [p \in Payments |->
                      IF payments[p].status \in Recorded /\ payments[p].student \in S
                      THEN [AbsentPayment EXCEPT !.status = "DELETED"]
                      ELSE payments[p]]
    /\ UNCHANGED <<today, documents, requests>>

NextDay ==
    /\ today < MaxDay
    /\ today' = today + 1
    /\ UNCHANGED <<assignments, payments, documents, requests>>

Collect(r) ==
    \/ \E student \in Students, alloc \in [Assignment -> Amounts \cup {0}],
          ref \in References \cup {None} : StartCollect(r, student, alloc, ref)
    \/ \E p \in Payments : FlushCollect(r, p)
    \/ UploadReceipt(r)
    \/ CommitCollect(r)

Edit(r) ==
    \/ \E p \in Payments, amount \in Amounts, ref \in References \cup {None} :
            StartUpdate(r, p, amount, ref)
    \/ CommitUpdate(r)
    \/ \E p \in Payments : StartRegenerate(r, p)
    \/ FinishRegenerate(r)

Reverse(r) ==
    \/ \E p \in Payments : StartCancel(r, p)
    \/ CommitCancel(r)

Charge(r) ==
    \/ \E a \in Assignment : AssignFee(r, a)
    \/ \E f \in Structures : Propagate(r, f)
    \/ CommitAssign(r)

Next ==
    \/ \E r \in Requests : Charge(r) \/ Collect(r) \/ Edit(r) \/ Reverse(r) \/ Abort(r)
    \/ \E S \in Resets : ResetSchool(S)
    \/ NextDay

Spec == Init /\ [][Next]_vars

-----------------------------------------------------------------------------
(* Properties.                                                              *)

(* Concurrent collections, edits and cancellations never take more than is  *)
(* due on an assignment: the outstanding check of collect_payment and the   *)
(* max_allowable check of update_payment read rows that other handlers may  *)
(* be changing, and only the version check at commit makes them valid.      *)
NoOverpayment ==
    \A a \in Assignment : assignments[a].paid <= Due(assignments[a])

(* The stored status agrees with the stored amounts, although each handler  *)
(* recomputes it from the row it read: PAID only when nothing is left,      *)
(* PARTIALLY_PAID only when something is, UNPAID only when nothing is paid. *)
StatusMatchesBalance ==
    \A a \in Assignment :
        LET row == assignments[a] IN
        /\ row.status = "PAID" => Outstanding(row) = 0
        /\ row.status = "PARTIALLY_PAID" => Outstanding(row) > 0
        /\ row.status = "UNPAID" => row.paid <= 0

(* What makes the version check sufficient, and the invariant the proofs    *)
(* rest on.  Rows and sessions are coherent on their own; a payment only    *)
(* pays live assignments of its student; and a session whose row or payment *)
(* still has the version it read holds the committed values of it, changed  *)
(* only by what its own operation adds.                                     *)
Coherent(row) ==
    /\ row.paid <= Due(row)
    /\ row.status = "PAID" => Outstanding(row) = 0
    /\ row.status = "PARTIALLY_PAID" => Outstanding(row) > 0
    /\ row.status = "UNPAID" => row.paid <= 0
    /\ row.status \in {"ABSENT", "DELETED"} => row.paid = 0 /\ Due(row) = 0

PaymentSound(pay, stored) ==
    /\ pay.status \notin Recorded => pay.alloc = NoAllocation
    /\ \A a \in Allocated(pay) : /\ StudentOf(a) = pay.student
                                /\ stored[a].status \in Live

Writing(s) == s.op \in {"collect", "update", "cancel"} /\ s.step # "committed"

(* A session on its own; `target' is the stored payment it works on. *)
SessionSound(s, target) ==
    /\ s.op = "idle" => s = Idle
    /\ s.op = "assign" => /\ s.step = "read" /\ s.payment = None
                          /\ \A a \in s.touched : /\ s.rows[a].status = "UNPAID"
                                                  /\ s.rows[a].paid = 0
                                                  /\ Due(s.rows[a]) >= 0
    /\ s.op = "collect" =>
        /\ s.step \in {"read", "flushed", "uploaded"}
        /\ s.pay.status = "COMPLETED" /\ s.touched = Allocated(s.pay)
        /\ \A a \in s.touched : StudentOf(a) = s.pay.student
        /\ s.step = "read" =>
            /\ s.payment = None
            /\ \A a \in s.touched : s.pay.alloc[a] <= Outstanding(s.rows[a])
        /\ s.step # "read" => s.payment # None /\ target.status = "ABSENT"
    /\ s.op \in {"update", "cancel", "regenerate"} =>
        s.payment # None /\ target.status # "ABSENT"
    /\ s.op = "update" =>
        /\ s.step \in {"read", "committed"}
        /\ s.pay.status = "COMPLETED" /\ s.touched \subseteq Allocated(s.pay)
    /\ s.op = "cancel" =>
        /\ s.step = "read"
        /\ s.pay.status = "CANCELLED" /\ s.touched = Allocated(s.pay)
    /\ s.op = "regenerate" => s.step = "committed" /\ s.touched = {}
    /\ s.op \in {"update", "cancel"} \/ (s.op = "collect" /\ s.step # "read")
        => \A a \in s.touched : Coherent(s.rows[a]) /\ s.rows[a].status \in Live

(* What an operation adds to the paid amount of the rows it holds. *)
Added(s, target, a) ==
    CASE s.op = "collect" /\ s.step = "read" -> 0
      [] s.op = "collect" /\ s.step # "read" -> s.pay.alloc[a]
      [] s.op = "update" -> s.pay.alloc[a] - target.alloc[a]
      [] OTHER -> 0 - s.pay.alloc[a]

RowCurrent(s, target, stored, a) ==
    LET new == s.rows[a]
        old == stored[a]
    IN
    /\ new.assigned = old.assigned /\ new.discount = old.discount
    /\ IF s.op = "collect" THEN new.fine >= old.fine ELSE new.fine = old.fine
    /\ new.paid = old.paid + Added(s, target, a)

PaymentCurrent(s, target) ==
    /\ target.status = "COMPLETED" /\ target.student = s.pay.student
    /\ s.op = "cancel" => target.alloc = s.pay.alloc
    /\ s.op = "update" =>
        \A a \in Assignment : IF a \in s.touched THEN target.alloc[a] > 0
                                                 ELSE target.alloc[a] = s.pay.alloc[a]

SessionCurrent(s, target, stored) ==
    Writing(s) =>
        /\ \A a \in s.touched :
            /\ stored[a].status # "ABSENT"
            /\ stored[a].status \in Live => s.rows[a].version <= stored[a].version
        /\ s.op # "collect" =>
            /\ target.status \in Recorded => s.pay.version <= target.version
            /\ FreshPay(s.pay, target) => PaymentCurrent(s, target)
        /\ s.op = "collect" \/ FreshPay(s.pay, target) =>
            \A a \in s.touched :
                FreshRow(s.rows[a], stored[a]) => RowCurrent(s, target, stored, a)

Target(s, stored) == IF s.payment = None THEN AbsentPayment ELSE stored[s.payment]

LedgerInvariant ==
    /\ \A a \in Assignment : Coherent(assignments[a])
    /\ \A p \in Payments : PaymentSound(payments[p], assignments)
    /\ \A r \in Requests :
        /\ SessionSound(requests[r], Target(requests[r], payments))
        /\ SessionCurrent(requests[r], Target(requests[r], payments), assignments)
    /\ \A q, r \in Requests :
        q # r /\ requests[q].op = "collect" /\ requests[q].payment # None
        => requests[r].payment # requests[q].payment

(* Every amount on an assignment is accounted for by standing payments: a   *)
(* lost update, a cancellation applied twice or to the wrong amount, or an  *)
(* edit that races a cancellation would leave the two apart.                *)
PaidBy(a) == FoldFunction(LAMBDA x, y : x + y, 0,
    [p \in Payments |-> IF payments[p].status = "COMPLETED"
                        THEN payments[p].alloc[a] ELSE 0])
LedgerBalances == \A a \in Assignment : assignments[a].paid = PaidBy(a)

(* A cancelled payment is never changed again, whatever an edit that read   *)
(* it before the cancellation goes on to write; only a reset removes it.    *)
CancelledIsFinal ==
    [][\A p \in Payments :
          payments[p].status = "CANCELLED"
          => payments'[p] = payments[p] \/ payments'[p].status = "DELETED"]_vars

(* Receipts are numbered without repetition, whichever collections draw the *)
(* same count, and until a reset deletes some also without a gap: then the  *)
(* next number is always free, and no collection fails on it that did not   *)
(* overlap another.  After a reset the next number may be taken for good.   *)
ReceiptsAreNumbered ==
    /\ \A p, q \in ReceiptRows : payments[p].receipt = payments[q].receipt => p = q
    /\ \/ \E p \in Payments : payments[p].status = "DELETED"
       \/ UsedNumbers = 1 .. (NextReceiptNumber - 1)

(* No committed receipt points at a document that was never stored: the     *)
(* upload comes before the commit.                                          *)
ReceiptIsStored ==
    \A p \in ReceiptRows : payments[p].receipt \in DOMAIN documents

(* The ledger as one clerk would keep it (FeeAccounts): handlers that       *)
(* overlap leave the books as if each had run alone at its commit.          *)
BookState(status, kept) ==
    CASE status = "ABSENT" -> "none" [] status = "DELETED" -> "erased" [] OTHER -> kept
AccountOf(row) ==
    [state |-> BookState(row.status, "open"), due |-> Due(row), paid |-> row.paid]
EntryOf(pay) == [state |-> BookState(pay.status, pay.status), alloc |-> pay.alloc]

Books == INSTANCE FeeAccounts WITH
    Accounts <- Assignment,
    account <- [a \in Assignment |-> AccountOf(assignments[a])],
    payment <- [p \in Payments |-> EntryOf(payments[p])]
KeepsTheBooks == Books!Spec

=============================================================================
