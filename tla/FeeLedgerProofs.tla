--------------------------- MODULE FeeLedgerProofs ---------------------------
(***************************************************************************)
(* Proofs about FeeLedger, for every set of students, fees, payments and   *)
(* handlers: the ledger invariant, what follows from it, and that          *)
(* overlapping handlers keep the books as FeeAccounts does.                *)
(***************************************************************************)
EXTENDS FeeLedger, FiniteSetTheorems, TLAPS

Inv == TypeOK /\ LedgerInvariant

-----------------------------------------------------------------------------
(* Rows.                                                                    *)

LEMMA FeeType ==
    ASSUME NEW a \in Assignment
    PROVE  /\ FeeOf(a).amount \in Nat /\ FeeOf(a).due \in Nat
           /\ FeeOf(a).grace \in Nat /\ FeeOf(a).fineValue \in Nat
           /\ FeeOf(a).fineType \in FineTypes
  BY FeeAssumption DEF Assignment, FeeOf

LEMMA ProductIsNat == ASSUME NEW x \in Nat, NEW y \in Nat PROVE x * y \in Nat
  OBVIOUS

LEMMA RoundedIsNat == ASSUME NEW x \in Nat PROVE Rounded(x) \in Nat
  BY DEF Rounded

(* A late fine is never negative, so a row stays a row and owes no less.    *)
LEMMA LateFine ==
    ASSUME NEW a \in Assignment, NEW row \in AssignmentRow, today \in Nat,
           row.paid <= Due(row)
    PROVE  /\ WithLateFine(FeeOf(a), row) \in AssignmentRow
           /\ WithLateFine(FeeOf(a), row).fine >= row.fine
           /\ WithLateFine(FeeOf(a), row) = [row EXCEPT !.fine = WithLateFine(FeeOf(a), row).fine]
<1> DEFINE fee == FeeOf(a)
<1>1. CASE ~Overdue(fee)
  BY <1>1 DEF WithLateFine, AssignmentRow
<1>2. CASE Overdue(fee)
  <2>1. Outstanding(row) \in Nat
    BY DEF Outstanding, Due, AssignmentRow
  <2>2. fee.fineValue \in Nat /\ fee.due \in Nat /\ fee.grace \in Nat
    BY FeeType
  <2>3. today - fee.due \in Nat
    BY <1>2, <2>2 DEF Overdue
  <2>4. CalculatedFine(fee, Outstanding(row)) \in Nat
    <3> DEFINE o == Outstanding(row)
               v == fee.fineValue
    <3>1. Rounded(o * v) \in Nat
      BY <2>1, <2>2, ProductIsNat, RoundedIsNat
    <3>2. v * (today - fee.due) \in Nat
      BY <2>2, <2>3, ProductIsNat
    <3>3. QED
      BY <3>1, <3>2, <2>2 DEF CalculatedFine
  <2>5. QED
    BY <1>2, <2>4 DEF WithLateFine, AssignmentRow
<1>3. QED
  BY <1>1, <1>2

(* What collecting, editing and cancelling may write in a row. *)
Rewritten(new, old, paid) ==
    /\ new \in AssignmentRow /\ Coherent(new) /\ new.status \in Live
    /\ new.assigned = old.assigned /\ new.discount = old.discount
    /\ new.fine = old.fine /\ new.paid = paid /\ new.version = old.version

LEMMA SetPaid ==
    ASSUME NEW row \in AssignmentRow, NEW paid \in Int, NEW status \in Live
    PROVE  [row EXCEPT !.paid = paid, !.status = status] \in AssignmentRow
  BY DEF AssignmentRow, Live

LEMMA PayRow ==
    ASSUME NEW row \in AssignmentRow, NEW x \in Int,
           row.paid + x <= Due(row)
    PROVE  Rewritten(Pay(row, x), row, row.paid + x)
<1> DEFINE new == Pay(row, x)
<1>1. /\ new.assigned = row.assigned /\ new.discount = row.discount
      /\ new.fine = row.fine /\ new.paid = row.paid + x /\ new.version = row.version
      /\ new.status = IF Outstanding(row) - x <= 0 THEN "PAID" ELSE "PARTIALLY_PAID"
  BY DEF Pay, AssignmentRow
<1>2. new \in AssignmentRow
  <2> DEFINE status == IF Outstanding(row) - x <= 0 THEN "PAID" ELSE "PARTIALLY_PAID"
  <2>1. row.paid + x \in Int /\ status \in Live
    BY DEF AssignmentRow, Live
  <2>2. new = [row EXCEPT !.paid = row.paid + x, !.status = status]
    BY DEF Pay
  <2> HIDE DEF status
  <2>3. QED
    BY <2>1, <2>2, SetPaid
<1>3. Coherent(new) /\ new.status \in Live
  <2> DEFINE rest == row.assigned + row.fine - row.discount - row.paid - x
  <2>1. rest \in Int /\ rest >= 0 /\ Outstanding(row) - x = rest
    BY DEF Outstanding, Due, AssignmentRow
  <2>2. Outstanding(new) = rest /\ Due(new) = Due(row)
    BY <1>1 DEF Outstanding, Due, AssignmentRow
  <2>3. new.paid <= Due(new)
    BY <1>1, <2>2
  <2>4. QED
    BY <1>1, <2>1, <2>2, <2>3 DEF Coherent, Live
<1>4. QED
  BY <1>1, <1>2, <1>3 DEF Rewritten

LEMMA RevertRow ==
    ASSUME NEW row \in AssignmentRow, NEW x \in Nat, row.paid <= Due(row)
    PROVE  Rewritten(Revert(row, x), row, row.paid - x)
<1> DEFINE new == Revert(row, x)
<1>1. /\ new.assigned = row.assigned /\ new.discount = row.discount
      /\ new.fine = row.fine /\ new.paid = row.paid - x /\ new.version = row.version
  BY DEF Revert, AssignmentRow
<1>2. new.status = IF row.paid - x <= 0 THEN "UNPAID"
                   ELSE IF Outstanding(row) + x <= 0 THEN "PAID" ELSE "PARTIALLY_PAID"
  BY DEF Revert, AssignmentRow, Outstanding, Due
<1>3. new \in AssignmentRow
  <2> DEFINE status == CASE row.paid - x <= 0 -> "UNPAID"
                         [] row.paid - x > 0 /\ Outstanding(row) + x <= 0 -> "PAID"
                         [] OTHER -> "PARTIALLY_PAID"
  <2>1. row.paid - x \in Int /\ status \in Live
    BY DEF AssignmentRow, Live
  <2>2. new = [row EXCEPT !.paid = row.paid - x, !.status = status]
    BY DEF Revert
  <2> HIDE DEF status
  <2>3. QED
    BY <2>1, <2>2, SetPaid
<1>4. Coherent(new) /\ new.status \in Live
  BY <1>1, <1>2 DEF Coherent, Outstanding, Due, AssignmentRow, Live
<1>5. QED
  BY <1>1, <1>3, <1>4 DEF Rewritten

-----------------------------------------------------------------------------
(* Steps of a session that leave the database alone.                        *)

LEMMA AllocType ==
    ASSUME NEW alloc \in [Assignment -> Amounts \cup {0}]
    PROVE  alloc \in [Assignment -> Nat]
<1>1. Amounts \cup {0} \subseteq Nat
  BY InputAssumption
<1>2. QED
  BY <1>1

LEMMA AbsentTyped == AbsentRow \in AssignmentRow /\ AbsentPayment \in PaymentRow
<1>1. NoAllocation \in [Assignment -> Nat]
  BY DEF NoAllocation
<1>2. QED
  BY <1>1 DEF AbsentRow, AssignmentRow, AbsentPayment, PaymentRow

LEMMA IdleSound ==
    /\ Idle \in Session
    /\ \A target, stored : SessionSound(Idle, target) /\ SessionCurrent(Idle, target, stored)
<1>1. Idle \in Session
  BY AbsentTyped DEF Idle, Session
<1>2. ASSUME NEW target, NEW stored
      PROVE  SessionSound(Idle, target) /\ SessionCurrent(Idle, target, stored)
  BY DEF Idle, SessionSound, SessionCurrent, Writing
<1>3. QED
  BY <1>1, <1>2

LEMMA InitInv == Init => Inv
<1> SUFFICES ASSUME Init PROVE Inv
  OBVIOUS
<1> USE DEF Init
<1>2. TypeOK
  BY AbsentTyped, IdleSound DEF TypeOK
<1>3. \A a \in Assignment : Coherent(assignments[a])
  BY DEF Coherent, AbsentRow, Due, Outstanding
<1>4. \A p \in Payments : PaymentSound(payments[p], assignments)
  BY DEF PaymentSound, AbsentPayment, Recorded, Allocated, NoAllocation
<1>5. \A r \in Requests :
        /\ SessionSound(requests[r], Target(requests[r], payments))
        /\ SessionCurrent(requests[r], Target(requests[r], payments), assignments)
  BY IdleSound
<1>6. \A q, r \in Requests :
        q # r /\ requests[q].op = "collect" /\ requests[q].payment # None
        => requests[r].payment # requests[q].payment
  BY DEF Idle
<1>7. QED
  BY <1>2, <1>3, <1>4, <1>5, <1>6 DEF Inv, LedgerInvariant

DocumentsTyped ==
    DOMAIN documents \subseteq Nat /\ \A n \in DOMAIN documents : documents[n] \in Document

(* No payment a collection is making is worked on by another session. *)
Alone(r, s) ==
    \A q \in Requests \ {r} :
        /\ s.op = "collect" /\ s.payment # None => requests[q].payment # s.payment
        /\ requests[q].op = "collect" /\ requests[q].payment # None
           => s.payment # requests[q].payment

LEMMA SessionStep ==
    ASSUME Inv, NEW r \in Requests, NEW s \in Session, Begin(r, s),
           UNCHANGED <<today, assignments, payments>>, DocumentsTyped',
           SessionSound(s, Target(s, payments)),
           SessionCurrent(s, Target(s, payments), assignments),
           Alone(r, s)
    PROVE  Inv'
<1> USE DEF Inv, LedgerInvariant
<1>1. \A q \in Requests : requests'[q] = IF q = r THEN s ELSE requests[q]
  BY DEF Begin, TypeOK
<1>2. TypeOK'
  BY DEF TypeOK, DocumentsTyped, Begin
<1>3. \A q \in Requests :
        /\ SessionSound(requests'[q], Target(requests'[q], payments'))
        /\ SessionCurrent(requests'[q], Target(requests'[q], payments'), assignments')
  BY <1>1
<1>4. \A q, t \in Requests :
        q # t /\ requests'[q].op = "collect" /\ requests'[q].payment # None
        => requests'[t].payment # requests'[q].payment
  BY <1>1 DEF Alone
<1>5. QED
  BY <1>2, <1>3, <1>4

LEMMA SameDocuments == ASSUME TypeOK, UNCHANGED documents PROVE DocumentsTyped'
  BY DEF TypeOK, DocumentsTyped

LEMMA SessionType ==
    ASSUME Inv, NEW r \in Requests
    PROVE  /\ requests[r] \in Session
           /\ SessionSound(requests[r], Target(requests[r], payments))
           /\ SessionCurrent(requests[r], Target(requests[r], payments), assignments)
  BY DEF Inv, TypeOK, LedgerInvariant

LEMMA AbortInv == ASSUME Inv, NEW r \in Requests, Abort(r) PROVE Inv'
<1>1. Alone(r, Idle)
  BY DEF Alone, Idle, Inv, LedgerInvariant, TypeOK, Session
<1>2. QED
  BY <1>1, IdleSound, SessionStep, SameDocuments DEF Abort, End, Inv

LEMMA NoPaymentAlone ==
    ASSUME Inv, NEW r \in Requests, NEW s, s.payment = None
    PROVE  Alone(r, s)
  BY DEF Alone

(* assign_fee and propagate_class_fee_structure. *)
LEMMA DiscountBound ==
    ASSUME NEW amount \in Nat, NEW c \in Scholarships
    PROVE  Discount(amount, c) \in Nat /\ Discount(amount, c) <= amount
<1>1. c.value \in Nat
  BY InputAssumption
<1> DEFINE x == IF c.type = "FIXED" THEN c.value ELSE Rounded(amount * c.value)
<1>2. x \in Nat
  <2>1. amount * c.value \in Nat
    BY <1>1, ProductIsNat
  <2>2. QED
    BY <1>1, <2>1, RoundedIsNat
<1>3. Discount(amount, c) = AtMost(x, amount)
  BY DEF Discount
<1> HIDE DEF x
<1>4. QED
  BY <1>2, <1>3 DEF AtMost

LEMMA NewRow ==
    ASSUME NEW a \in Assignment, NEW d \in Nat, d <= FeeOf(a).amount
    PROVE  LET row == NewAssignment(a, d) IN
           /\ row \in AssignmentRow /\ row.status = "UNPAID" /\ row.paid = 0
           /\ Due(row) >= 0
<1> DEFINE row == [status |-> "UNPAID", assigned |-> FeeOf(a).amount, discount |-> d,
                   fine |-> 0, paid |-> 0, version |-> 0]
<1>1. row = NewAssignment(a, d)
  BY DEF NewAssignment
<1>2. row \in AssignmentRow
  BY FeeType DEF AssignmentRow, Live
<1>3. row.status = "UNPAID" /\ row.paid = 0 /\ Due(row) >= 0
  BY FeeType DEF Due
<1> HIDE DEF row
<1>4. QED
  BY <1>1, <1>2, <1>3

LEMMA StartAssignInv ==
    ASSUME Inv, NEW r \in Requests, NEW A \in SUBSET Assignment, NEW d \in Nat,
           \A a \in A : d <= FeeOf(a).amount,
           StartAssign(r, A, d)
    PROVE  Inv'
<1> DEFINE rows == [a \in Assignment |-> IF a \in A THEN NewAssignment(a, d) ELSE AbsentRow]
           s == [Idle EXCEPT !.op = "assign", !.step = "read", !.touched = A, !.rows = rows]
<1>1. \A a \in A : /\ NewAssignment(a, d) \in AssignmentRow
                   /\ NewAssignment(a, d).status = "UNPAID" /\ NewAssignment(a, d).paid = 0
                   /\ Due(NewAssignment(a, d)) >= 0
  BY NewRow
<1>2. rows \in [Assignment -> AssignmentRow]
  BY <1>1 DEF AbsentRow, AssignmentRow
<1>3. /\ s.op = "assign" /\ s.step = "read" /\ s.touched = A /\ s.rows = rows
      /\ s.payment = None
  BY DEF Idle
<1>4. s \in Session
  BY <1>2, IdleSound DEF Session
<1>5. SessionSound(s, Target(s, payments))
  BY <1>1, <1>3 DEF SessionSound
<1>6. SessionCurrent(s, Target(s, payments), assignments)
  BY <1>3 DEF SessionCurrent, Writing
<1>7. Alone(r, s)
  BY <1>3, NoPaymentAlone
<1>8. Begin(r, s) /\ UNCHANGED <<today, assignments, payments, documents>>
  BY DEF StartAssign
<1> HIDE DEF s
<1>9. QED
  BY <1>4, <1>5, <1>6, <1>7, <1>8, SessionStep, SameDocuments DEF Inv

LEMMA ChargeStartInv ==
    ASSUME Inv, NEW r \in Requests,
           \/ \E a \in Assignment : AssignFee(r, a)
           \/ \E f \in Structures : Propagate(r, f)
    PROVE  Inv'
<1>1. CASE \E a \in Assignment : AssignFee(r, a)
  <2>1. PICK a \in Assignment : AssignFee(r, a)
    BY <1>1
  <2>2. PICK d \in {0} \cup {Discount(FeeOf(a).amount, c) : c \in Scholarships} :
            StartAssign(r, {a}, d)
    BY <2>1 DEF AssignFee
  <2>3. d \in Nat /\ d <= FeeOf(a).amount
    BY FeeType, DiscountBound
  <2>4. QED
    BY <2>2, <2>3, StartAssignInv
<1>2. CASE \E f \in Structures : Propagate(r, f)
  <2>1. PICK f \in Structures : Propagate(r, f)
    BY <1>2
  <2> DEFINE A == {a \in Assignment : a[2] = f /\ assignments[a].status = "ABSENT"}
  <2>2. StartAssign(r, A, 0) /\ \A a \in A : 0 <= FeeOf(a).amount
    BY <2>1, FeeType DEF Propagate
  <2> HIDE DEF A
  <2>3. A \in SUBSET Assignment
    BY DEF A
  <2>4. QED
    BY <2>2, <2>3, StartAssignInv
<1>3. QED
  BY <1>1, <1>2

(* collect_payment, up to its commit. *)
LEMMA StartCollectInv ==
    ASSUME Inv, NEW r \in Requests, NEW student \in Students,
           NEW alloc \in [Assignment -> Amounts \cup {0}], NEW ref \in References \cup {None},
           StartCollect(r, student, alloc, ref)
    PROVE  Inv'
<1> DEFINE A == {a \in Assignment : alloc[a] > 0}
           row(a) == WithLateFine(FeeOf(a), assignments[a])
           rows == [a \in Assignment |-> IF a \in A THEN row(a) ELSE AbsentRow]
           pay == [AbsentPayment EXCEPT !.status = "COMPLETED",
                        !.student = student, !.ref = ref, !.alloc = alloc]
           s == [Idle EXCEPT !.op = "collect", !.step = "read", !.touched = A,
                    !.fined = {a \in A : row(a) # assignments[a]},
                    !.rows = rows, !.pay = pay]
<1>1. \A a \in A : /\ StudentOf(a) = student
                   /\ assignments[a].status \in Live \ {"PAID"}
                   /\ alloc[a] <= Outstanding(row(a))
  BY DEF StartCollect
<1>2. Begin(r, s) /\ UNCHANGED <<today, assignments, payments, documents>>
  BY DEF StartCollect
<1>3. \A a \in Assignment : /\ row(a) \in AssignmentRow
                            /\ row(a).fine >= assignments[a].fine
                            /\ row(a) = [assignments[a] EXCEPT !.fine = row(a).fine]
  BY LateFine DEF Inv, TypeOK, LedgerInvariant, Coherent
<1>4. rows \in [Assignment -> AssignmentRow]
  <2>1. AbsentRow \in AssignmentRow
    BY AbsentTyped
  <2> HIDE DEF row, A
  <2>2. \A a \in Assignment : (IF a \in A THEN row(a) ELSE AbsentRow) \in AssignmentRow
    BY <1>3, <2>1
  <2>3. QED
    BY <2>2
<1>5. pay \in PaymentRow /\ pay.status = "COMPLETED" /\ pay.student = student /\ pay.alloc = alloc
  <2>1. alloc \in [Assignment -> Nat]
    BY AllocType
  <2>2. AbsentPayment \in PaymentRow
    BY AbsentTyped
  <2>3. pay = [AbsentPayment EXCEPT !.status = "COMPLETED", !.student = student,
                                    !.ref = ref, !.alloc = alloc]
    OBVIOUS
  <2> HIDE DEF pay
  <2>4. QED
    BY <2>1, <2>2, <2>3 DEF PaymentRow, Recorded
<1>6. /\ s.op = "collect" /\ s.step = "read" /\ s.touched = A /\ s.rows = rows
      /\ s.payment = None /\ s.pay = pay
  BY DEF Idle
<1> HIDE DEF rows, pay
<1>7. s \in Session
  BY <1>4, <1>5, IdleSound DEF Session
<1>8. Allocated(s.pay) = A
  BY <1>5, <1>6 DEF Allocated
<1> HIDE DEF s
<1>9. \A a \in A : s.rows[a] = row(a)
  BY <1>6 DEF rows
<1>10. SessionSound(s, Target(s, payments))
  BY <1>1, <1>5, <1>6, <1>8, <1>9 DEF SessionSound
<1>11. \A a \in A : /\ s.rows[a].assigned = assignments[a].assigned
                    /\ s.rows[a].discount = assignments[a].discount
                    /\ s.rows[a].fine >= assignments[a].fine
                    /\ s.rows[a].paid = assignments[a].paid
                    /\ s.rows[a].version = assignments[a].version
  BY <1>3, <1>9 DEF Inv, TypeOK, AssignmentRow
<1>12. SessionCurrent(s, Target(s, payments), assignments)
  <2>1. \A a \in A : /\ assignments[a].status # "ABSENT"
                     /\ assignments[a].paid \in Int /\ assignments[a].version \in Nat
    BY <1>1 DEF Live, Inv, TypeOK, AssignmentRow
  <2>2. \A a \in A : Added(s, Target(s, payments), a) = 0
    BY <1>6 DEF Added
  <2>3. QED
    BY <2>1, <2>2, <1>6, <1>11 DEF SessionCurrent, RowCurrent
<1>13. Alone(r, s)
  BY <1>6, NoPaymentAlone
<1>14. QED
  BY <1>2, <1>7, <1>10, <1>12, <1>13, SessionStep, SameDocuments DEF Inv

LEMMA FlushCollectInv ==
    ASSUME Inv, NEW r \in Requests, NEW p \in Payments, FlushCollect(r, p)
    PROVE  Inv'
<1> DEFINE o == requests[r]
           rows == [a \in Assignment |->
                        IF a \in o.touched THEN Pay(o.rows[a], o.pay.alloc[a]) ELSE o.rows[a]]
           s == [o EXCEPT !.step = "flushed", !.payment = p, !.rows = rows]
<1>1. o \in Session /\ SessionSound(o, Target(o, payments))
      /\ SessionCurrent(o, Target(o, payments), assignments)
  BY SessionType
<1>2. /\ o.op = "collect" /\ o.step = "read" /\ payments[p].status = "ABSENT"
      /\ \A q \in Requests : requests[q].payment # p
      /\ Begin(r, s) /\ UNCHANGED <<today, assignments, payments, documents>>
  BY DEF FlushCollect
<1>3. p # None
  BY InputAssumption
<1>4. /\ o.pay.status = "COMPLETED" /\ o.touched = Allocated(o.pay)
      /\ \A a \in o.touched : /\ StudentOf(a) = o.pay.student
                              /\ o.pay.alloc[a] <= Outstanding(o.rows[a])
  BY <1>1, <1>2 DEF SessionSound
<1>5. /\ o.touched \in SUBSET Assignment /\ o.rows \in [Assignment -> AssignmentRow]
      /\ o.pay \in PaymentRow /\ o.pay.alloc \in [Assignment -> Nat]
  BY <1>1 DEF Session, PaymentRow
<1>6. \A a \in o.touched :
        Rewritten(Pay(o.rows[a], o.pay.alloc[a]), o.rows[a], o.rows[a].paid + o.pay.alloc[a])
  <2> TAKE a \in o.touched
  <2>1. o.rows[a] \in AssignmentRow /\ o.pay.alloc[a] \in Nat
    BY <1>5
  <2>2. o.rows[a].paid + o.pay.alloc[a] <= Due(o.rows[a])
    BY <2>1, <1>4 DEF Outstanding, Due, AssignmentRow
  <2>3. QED
    BY <2>1, <2>2, PayRow
<1>7. rows \in [Assignment -> AssignmentRow]
  BY <1>5, <1>6 DEF Rewritten
<1>8. /\ s.op = "collect" /\ s.step = "flushed" /\ s.payment = p /\ s.rows = rows
      /\ s.touched = o.touched /\ s.pay = o.pay
  BY <1>1, <1>2 DEF Session
<1> HIDE DEF rows
<1>9. s \in Session
  BY <1>1, <1>7 DEF Session
<1> HIDE DEF s
<1>10. \A a \in o.touched : Rewritten(s.rows[a], o.rows[a], o.rows[a].paid + o.pay.alloc[a])
  BY <1>5, <1>6, <1>8 DEF rows
<1>11. Target(s, payments) = payments[p]
  BY <1>3, <1>8 DEF Target
<1>12. SessionSound(s, Target(s, payments))
  BY <1>2, <1>3, <1>4, <1>8, <1>10, <1>11 DEF SessionSound, Rewritten
<1>13. SessionCurrent(s, Target(s, payments), assignments)
  <2>1. \A a \in o.touched : /\ assignments[a].status # "ABSENT"
                             /\ assignments[a].status \in Live
                                => s.rows[a].version <= assignments[a].version
    BY <1>1, <1>2, <1>10 DEF SessionCurrent, Writing, Rewritten
  <2>2. ASSUME NEW a \in o.touched, FreshRow(s.rows[a], assignments[a])
        PROVE  RowCurrent(s, Target(s, payments), assignments, a)
    <3>1. RowCurrent(o, Target(o, payments), assignments, a)
      BY <1>1, <1>2, <1>10, <2>2 DEF SessionCurrent, Writing, Rewritten, FreshRow
    <3>2. /\ Added(o, Target(o, payments), a) = 0
          /\ Added(s, Target(s, payments), a) = o.pay.alloc[a]
      BY <1>2, <1>8 DEF Added
    <3>3. /\ assignments[a].paid \in Int /\ o.pay.alloc[a] \in Nat
      BY <1>5 DEF Inv, TypeOK, AssignmentRow
    <3>4. QED
      BY <1>2, <1>8, <1>10, <3>1, <3>2, <3>3 DEF RowCurrent, Rewritten
  <2>3. QED
    BY <1>8, <2>1, <2>2 DEF SessionCurrent
<1>14. Alone(r, s)
  <2>1. \A q \in Requests : requests[q].op = "collect" => requests[q].payment # p
    BY <1>2
  <2>2. QED
    BY <1>2, <1>8 DEF Alone
<1>15. QED
  BY <1>2, <1>9, <1>12, <1>13, <1>14, SessionStep, SameDocuments DEF Inv

(* Numbers, documents and the sessions that only store one. *)
LEMMA NumberIsNat == NextReceiptNumber \in Nat
<1>1. IsFiniteSet(Payments) /\ ReceiptRows \subseteq Payments
  BY InputAssumption DEF ReceiptRows
<1>2. Cardinality(ReceiptRows) \in Nat
  BY <1>1, FS_Subset, FS_CardinalityType
<1>3. QED
  BY <1>2 DEF NextReceiptNumber

LEMMA UploadTyped ==
    ASSUME TypeOK, NEW n \in Nat, NEW p \in Payments, NEW pay \in PaymentRow,
           Upload(n, p, pay)
    PROVE  DocumentsTyped'
<1>1. pay.alloc \in [Assignment -> Nat]
  BY DEF PaymentRow
<1>2. [payment |-> p, alloc |-> pay.alloc] \in Document
  BY <1>1 DEF Document
<1>3. DOMAIN documents' = DOMAIN documents \cup {n}
  BY DEF Upload
<1>4. \A k \in DOMAIN documents' :
        documents'[k] = IF k = n THEN [payment |-> p, alloc |-> pay.alloc] ELSE documents[k]
  BY DEF Upload
<1>5. QED
  BY <1>2, <1>3, <1>4 DEF DocumentsTyped, TypeOK

LEMMA UploadReceiptInv ==
    ASSUME Inv, NEW r \in Requests, UploadReceipt(r) PROVE Inv'
<1> DEFINE o == requests[r]
           n == NextReceiptNumber
           s == [o EXCEPT !.step = "uploaded", !.pay.receipt = n]
<1>1. /\ o \in Session /\ SessionSound(o, Target(o, payments))
      /\ SessionCurrent(o, Target(o, payments), assignments)
  BY SessionType
<1>2. /\ o.op = "collect" /\ o.step = "flushed" /\ Upload(n, o.payment, o.pay)
      /\ Begin(r, s) /\ UNCHANGED <<today, assignments, payments>>
  BY DEF UploadReceipt
<1>3. o.payment # None /\ o.payment \in Payments /\ o.pay \in PaymentRow
  BY <1>1, <1>2 DEF SessionSound, Session
<1>4. DocumentsTyped'
  BY <1>2, <1>3, NumberIsNat, UploadTyped DEF Inv
<1> HIDE DEF n
<1>5. /\ s.op = "collect" /\ s.step = "uploaded" /\ s.touched = o.touched
      /\ s.rows = o.rows /\ s.payment = o.payment /\ s.pay = [o.pay EXCEPT !.receipt = n]
  BY <1>1, <1>2 DEF Session
<1>6. /\ s.pay.status = o.pay.status /\ s.pay.student = o.pay.student
      /\ s.pay.alloc = o.pay.alloc /\ s.pay \in PaymentRow
  BY <1>3, <1>5, NumberIsNat DEF PaymentRow, n
<1>7. s \in Session
  <2>1. s = [[o EXCEPT !.step = "uploaded"] EXCEPT !.pay = [o.pay EXCEPT !.receipt = n]]
    BY <1>1 DEF Session
  <2>2. QED
    BY <1>1, <1>5, <1>6, <2>1 DEF Session
<1> HIDE DEF s, o
<1>8. Target(s, payments) = Target(o, payments)
  BY <1>5 DEF Target
<1>9. Allocated(s.pay) = Allocated(o.pay)
  BY <1>6 DEF Allocated
<1>10. SessionSound(s, Target(s, payments))
  BY <1>1, <1>2, <1>5, <1>6, <1>8, <1>9 DEF SessionSound
<1>11. SessionCurrent(s, Target(s, payments), assignments)
  <2>1. \A a \in o.touched : Added(s, Target(s, payments), a) = Added(o, Target(o, payments), a)
    BY <1>2, <1>5, <1>6 DEF Added
  <2>2. QED
    BY <1>1, <1>2, <1>5, <1>8, <2>1 DEF SessionCurrent, Writing, RowCurrent
<1>12. Alone(r, s)
  BY <1>2, <1>3, <1>5 DEF Alone, Inv, LedgerInvariant, o
<1>13. QED
  BY <1>2, <1>4, <1>7, <1>10, <1>11, <1>12, SessionStep

(* A payment some session works on that is not absent is nobody's collection. *)
LEMMA NotCollected ==
    ASSUME Inv, NEW r \in Requests, NEW p \in Payments, payments[p].status # "ABSENT",
           NEW s, s.payment = p, s.op # "collect"
    PROVE  Alone(r, s) /\ Target(s, payments) = payments[p]
<1>1. p # None
  BY InputAssumption
<1>2. \A q \in Requests :
        requests[q].op = "collect" /\ requests[q].payment # None => requests[q].payment # p
  BY DEF Inv, LedgerInvariant, SessionSound, Target
<1>3. QED
  BY <1>1, <1>2 DEF Alone, Target

(* regenerate_receipt_pdf. *)
LEMMA StartRegenerateInv ==
    ASSUME Inv, NEW r \in Requests, NEW p \in Payments, StartRegenerate(r, p) PROVE Inv'
<1> DEFINE s == [Idle EXCEPT !.op = "regenerate", !.step = "committed",
                             !.payment = p, !.pay = payments[p]]
<1>1. payments[p] \in PaymentRow /\ payments[p].status # "ABSENT" /\ p # None
  BY InputAssumption DEF StartRegenerate, Inv, TypeOK, Recorded
<1>2. /\ s.op = "regenerate" /\ s.step = "committed" /\ s.touched = {}
      /\ s.payment = p /\ s.pay = payments[p]
  BY DEF Idle
<1>3. s \in Session
  BY <1>1, IdleSound DEF Session
<1>4. Begin(r, s) /\ UNCHANGED <<today, assignments, payments, documents>>
  BY DEF StartRegenerate
<1> HIDE DEF s
<1>5. Alone(r, s) /\ Target(s, payments) = payments[p]
  BY <1>1, <1>2, NotCollected
<1>6. SessionSound(s, Target(s, payments)) /\ SessionCurrent(s, Target(s, payments), assignments)
  BY <1>1, <1>2, <1>5 DEF SessionSound, SessionCurrent, Writing
<1>7. QED
  BY <1>3, <1>4, <1>5, <1>6, SessionStep, SameDocuments DEF Inv

LEMMA FinishRegenerateInv ==
    ASSUME Inv, NEW r \in Requests, FinishRegenerate(r) PROVE Inv'
<1> DEFINE o == requests[r]
<1>1. o \in Session /\ SessionSound(o, Target(o, payments)) /\ o.step = "committed"
  BY SessionType DEF FinishRegenerate
<1>2. o.op \in {"update", "regenerate"}
  BY <1>1 DEF SessionSound, Session, Idle
<1>3. o.payment \in Payments /\ o.pay \in PaymentRow /\ o.pay.receipt \in Nat
  BY <1>1, <1>2 DEF SessionSound, Session, PaymentRow
<1>4. DocumentsTyped'
  BY <1>3, UploadTyped DEF FinishRegenerate, Inv
<1>5. Alone(r, Idle)
  BY DEF Alone, Idle, Inv, LedgerInvariant, TypeOK, Session
<1>6. QED
  BY <1>4, <1>5, IdleSound, SessionStep DEF FinishRegenerate, End

(* update_payment and cancel_payment, up to their commits. *)
LEMMA StartUpdateInv ==
    ASSUME Inv, NEW r \in Requests, NEW p \in Payments, NEW amount \in Amounts,
           NEW ref \in References \cup {None}, StartUpdate(r, p, amount, ref)
    PROVE  Inv'
<1> DEFINE old == payments[p]
           A == {a \in Assignment : Allocated(old) = {a} /\ old.alloc[a] # amount}
           rows == [a \in Assignment |->
                        IF a \in A THEN Pay(assignments[a], amount - old.alloc[a]) ELSE AbsentRow]
           alloc == [a \in Assignment |-> IF a \in A THEN amount ELSE old.alloc[a]]
           pay == [old EXCEPT !.ref = IF ref = None THEN @ ELSE Trim[ref], !.alloc = alloc]
           s == [Idle EXCEPT !.op = "update", !.step = "read", !.touched = A, !.payment = p,
                             !.rows = rows, !.pay = pay]
<1>1. /\ old \in PaymentRow /\ old.alloc \in [Assignment -> Nat] /\ old.version \in Nat
      /\ PaymentSound(old, assignments) /\ amount \in Nat /\ amount > 0 /\ p # None
  BY InputAssumption DEF Inv, TypeOK, LedgerInvariant, PaymentRow
<1>2. /\ old.status = "COMPLETED"
      /\ \A a \in A : amount <= MaxAllowable(assignments[a], old.alloc[a])
      /\ Begin(r, s) /\ UNCHANGED <<today, assignments, payments, documents>>
  BY DEF StartUpdate
<1>3. \A a \in A : /\ a \in Assignment /\ a \in Allocated(old)
                   /\ assignments[a].status \in Live
  BY <1>1 DEF PaymentSound
<1>4. ASSUME NEW a \in A
      PROVE  Rewritten(Pay(assignments[a], amount - old.alloc[a]), assignments[a],
                       assignments[a].paid + (amount - old.alloc[a]))
  <2>1. assignments[a] \in AssignmentRow /\ amount - old.alloc[a] \in Int
    BY <1>1, <1>3 DEF Inv, TypeOK
  <2>2. assignments[a].paid + (amount - old.alloc[a]) <= Due(assignments[a])
    <3>1. amount <= MaxAllowable(assignments[a], old.alloc[a])
      BY <1>2
    <3>2. old.alloc[a] \in Nat
      BY <1>1
    <3> HIDE DEF A, old
    <3>3. QED
      BY <1>1, <2>1, <3>1, <3>2 DEF MaxAllowable, Due, AssignmentRow
  <2> HIDE DEF A
  <2>3. QED
    BY <2>1, <2>2, PayRow
<1> HIDE DEF A
<1>5. rows \in [Assignment -> AssignmentRow]
  BY <1>4, AbsentTyped DEF Rewritten
<1>6. alloc \in [Assignment -> Nat]
  BY <1>1
<1>7. /\ pay \in PaymentRow /\ pay.status = "COMPLETED" /\ pay.student = old.student
      /\ pay.alloc = alloc /\ pay.version = old.version
  <2> DEFINE kept == IF ref = None THEN old.ref ELSE Trim[ref]
  <2>1. kept \in References \cup {None}
    BY <1>1, InputAssumption DEF PaymentRow
  <2>2. pay = [old EXCEPT !.ref = kept, !.alloc = alloc]
    OBVIOUS
  <2> HIDE DEF pay, kept
  <2>3. QED
    BY <1>1, <1>2, <1>6, <2>1, <2>2 DEF PaymentRow
<1>8. /\ s.op = "update" /\ s.step = "read" /\ s.touched = A /\ s.rows = rows
      /\ s.payment = p /\ s.pay = pay
  BY DEF Idle
<1> HIDE DEF pay
<1>9. s \in Session
  BY <1>5, <1>7, IdleSound DEF Session, A
<1> HIDE DEF s
<1>10. \A a \in A : /\ a \in Assignment /\ s.rows[a] = Pay(assignments[a], amount - old.alloc[a])
                    /\ s.pay.alloc[a] = amount
  BY <1>3, <1>7, <1>8
<1>11. A \subseteq Allocated(s.pay)
  BY <1>1, <1>3, <1>10 DEF Allocated
<1> HIDE DEF rows
<1>12. Alone(r, s) /\ Target(s, payments) = old
  BY <1>2, <1>8, NotCollected
<1>13. SessionSound(s, Target(s, payments))
  BY <1>1, <1>2, <1>4, <1>7, <1>8, <1>10, <1>11, <1>12 DEF SessionSound, Rewritten
<1>14. SessionCurrent(s, Target(s, payments), assignments)
  <2>1. \A a \in A : /\ assignments[a].status # "ABSENT" /\ assignments[a].version \in Nat
                     /\ s.rows[a].version = assignments[a].version
    BY <1>3, <1>4, <1>10 DEF Live, Rewritten, Inv, TypeOK, AssignmentRow
  <2>2. \A a \in Assignment : IF a \in A THEN old.alloc[a] > 0
                                         ELSE old.alloc[a] = s.pay.alloc[a]
    BY <1>3, <1>7, <1>8 DEF Allocated
  <2>3. PaymentCurrent(s, old)
    BY <1>2, <1>7, <1>8, <2>2 DEF PaymentCurrent
  <2>4. \A a \in A : Added(s, old, a) = amount - old.alloc[a]
    BY <1>8, <1>10 DEF Added
  <2>5. \A a \in A : RowCurrent(s, old, assignments, a)
    BY <1>4, <1>8, <1>10, <2>4 DEF RowCurrent, Rewritten
  <2>6. QED
    BY <1>1, <1>7, <1>8, <1>12, <2>1, <2>3, <2>5 DEF SessionCurrent
<1>15. QED
  BY <1>2, <1>9, <1>12, <1>13, <1>14, SessionStep, SameDocuments DEF Inv

LEMMA StartCancelInv ==
    ASSUME Inv, NEW r \in Requests, NEW p \in Payments, StartCancel(r, p)
    PROVE  Inv'
<1> DEFINE old == payments[p]
           A == Allocated(old)
           rows == [a \in Assignment |->
                        IF a \in A THEN Revert(assignments[a], old.alloc[a]) ELSE AbsentRow]
           pay == [old EXCEPT !.status = "CANCELLED"]
           s == [Idle EXCEPT !.op = "cancel", !.step = "read", !.touched = A, !.payment = p,
                             !.rows = rows, !.pay = pay]
<1>1. /\ old \in PaymentRow /\ old.alloc \in [Assignment -> Nat] /\ old.version \in Nat
      /\ PaymentSound(old, assignments) /\ p # None
  BY InputAssumption DEF Inv, TypeOK, LedgerInvariant, PaymentRow
<1>2. /\ old.status = "COMPLETED"
      /\ Begin(r, s) /\ UNCHANGED <<today, assignments, payments, documents>>
  BY DEF StartCancel
<1>3. \A a \in A : a \in Assignment /\ assignments[a].status \in Live
  BY <1>1 DEF PaymentSound, Allocated
<1>4. \A a \in A : Rewritten(Revert(assignments[a], old.alloc[a]), assignments[a],
                             assignments[a].paid - old.alloc[a])
  BY <1>1, <1>3, RevertRow DEF Inv, TypeOK, LedgerInvariant, Coherent
<1> HIDE DEF A
<1>5. rows \in [Assignment -> AssignmentRow]
  BY <1>4, AbsentTyped DEF Rewritten
<1>6. /\ pay \in PaymentRow /\ pay.status = "CANCELLED" /\ pay.student = old.student
      /\ pay.alloc = old.alloc /\ pay.version = old.version
  BY <1>1 DEF PaymentRow, Recorded
<1>7. /\ s.op = "cancel" /\ s.step = "read" /\ s.touched = A /\ s.rows = rows
      /\ s.payment = p /\ s.pay = pay
  BY DEF Idle
<1> HIDE DEF pay
<1>8. s \in Session
  BY <1>3, <1>5, <1>6, IdleSound DEF Session
<1> HIDE DEF s
<1>9. \A a \in A : s.rows[a] = Revert(assignments[a], old.alloc[a])
  BY <1>3, <1>7
<1>10. Allocated(s.pay) = A
  BY <1>6, <1>7 DEF Allocated, A
<1> HIDE DEF rows
<1>11. Alone(r, s) /\ Target(s, payments) = old
  BY <1>2, <1>7, NotCollected
<1>12. SessionSound(s, Target(s, payments))
  BY <1>1, <1>2, <1>4, <1>6, <1>7, <1>9, <1>10, <1>11 DEF SessionSound, Rewritten
<1>13. SessionCurrent(s, Target(s, payments), assignments)
  <2>1. \A a \in A : /\ assignments[a].status # "ABSENT" /\ assignments[a].version \in Nat
                     /\ s.rows[a].version = assignments[a].version
    BY <1>3, <1>4, <1>9 DEF Live, Rewritten, Inv, TypeOK, AssignmentRow
  <2>2. PaymentCurrent(s, old)
    BY <1>2, <1>6, <1>7 DEF PaymentCurrent
  <2>3. \A a \in A : RowCurrent(s, old, assignments, a)
    <3> TAKE a \in A
    <3>1. Added(s, old, a) = 0 - old.alloc[a]
      BY <1>6, <1>7 DEF Added
    <3>2. assignments[a].paid \in Int /\ old.alloc[a] \in Nat
      BY <1>1, <1>3 DEF Inv, TypeOK, AssignmentRow
    <3>3. Rewritten(s.rows[a], assignments[a], assignments[a].paid - old.alloc[a])
      BY <1>4, <1>9
    <3>4. QED
      BY <1>7, <3>1, <3>2, <3>3 DEF RowCurrent, Rewritten
  <2>4. QED
    BY <1>1, <1>6, <1>7, <1>11, <2>1, <2>2, <2>3 DEF SessionCurrent
<1>14. QED
  BY <1>2, <1>8, <1>11, <1>12, <1>13, SessionStep, SameDocuments DEF Inv

-----------------------------------------------------------------------------
(* Commits.  Whatever a commit changes carries a higher version or is no    *)
(* longer live, so what the other sessions have read is either still the    *)
(* committed value or found stale when they commit.                         *)
Superseded(new, old, alive) ==
    new.status \in alive => old.status \in alive /\ new.version > old.version

RowStep(new, old) ==
    \/ new = old
    \/ new.status # "ABSENT" /\ (old.status = "ABSENT" \/ Superseded(new, old, Live))

LEMMA OtherSession ==
    ASSUME NEW s \in Session, NEW target \in PaymentRow, NEW target2 \in PaymentRow,
           NEW stored \in [Assignment -> AssignmentRow],
           NEW stored2 \in [Assignment -> AssignmentRow],
           SessionSound(s, target), SessionCurrent(s, target, stored),
           target.status = "ABSENT" <=> target2.status = "ABSENT",
           \/ target2 = target
           \/ s.op # "collect" /\ Superseded(target2, target, Recorded),
           \A a \in Assignment : RowStep(stored2[a], stored[a])
    PROVE  SessionSound(s, target2) /\ SessionCurrent(s, target2, stored2)
<1>1. SessionSound(s, target2)
  BY DEF SessionSound
<1>2. SessionCurrent(s, target2, stored2)
  <2> SUFFICES ASSUME Writing(s) PROVE SessionCurrent(s, target2, stored2)
    BY DEF SessionCurrent
  <2>1. \A a \in s.touched :
          /\ a \in Assignment /\ stored[a].status # "ABSENT"
          /\ stored[a].status \in Live => s.rows[a].version <= stored[a].version
          /\ s.rows[a].version \in Nat /\ stored[a].version \in Nat /\ stored2[a].version \in Nat
    BY DEF SessionCurrent, Session, AssignmentRow
  <2>2. \A a \in s.touched :
          /\ stored2[a].status # "ABSENT"
          /\ stored2[a].status \in Live => s.rows[a].version <= stored2[a].version
          /\ FreshRow(s.rows[a], stored2[a]) => stored2[a] = stored[a]
    BY <2>1 DEF RowStep, Superseded, FreshRow
  <2>3. ASSUME s.op # "collect"
        PROVE  /\ target2.status \in Recorded => s.pay.version <= target2.version
               /\ FreshPay(s.pay, target2) => target2 = target
    <3>1. target.status \in Recorded => s.pay.version <= target.version
      BY <2>3 DEF SessionCurrent
    <3>2. s.pay.version \in Nat /\ target.version \in Nat /\ target2.version \in Nat
      BY DEF Session, PaymentRow
    <3>3. QED
      BY <2>3, <3>1, <3>2 DEF Superseded, FreshPay
  <2>4. s.op = "collect" => target2 = target
    OBVIOUS
  <2>5. s.op # "collect" /\ FreshPay(s.pay, target2) => PaymentCurrent(s, target2)
    BY <2>3 DEF SessionCurrent
  <2>6. ASSUME s.op = "collect" \/ FreshPay(s.pay, target2), NEW a \in s.touched,
               FreshRow(s.rows[a], stored2[a])
        PROVE  RowCurrent(s, target2, stored2, a)
    <3>1. target2 = target /\ stored2[a] = stored[a]
      BY <2>2, <2>3, <2>4, <2>6
    <3>2. RowCurrent(s, target, stored, a)
      BY <2>6, <3>1 DEF SessionCurrent
    <3>3. QED
      BY <3>1, <3>2 DEF RowCurrent
  <2>7. QED
    BY <2>2, <2>3, <2>5, <2>6 DEF SessionCurrent
<1>3. QED
  BY <1>1, <1>2

LEMMA TargetTyped ==
    ASSUME NEW s \in Session, NEW stored \in [Payments -> PaymentRow]
    PROVE  Target(s, stored) \in PaymentRow
  BY AbsentTyped DEF Target, Session

(* What a collection, an edit or a cancellation finds when it commits.      *)
LEMMA CommitFinds ==
    ASSUME Inv, NEW r \in Requests, NEW s, s = requests[r], Writing(s), s.step # "read" \/ s.op # "collect",
           FreshRows(s, s.touched), s.op # "collect" => FreshPayment(s)
    PROVE  /\ s \in Session /\ s.payment \in Payments /\ s.payment # None
           /\ s.op = "collect" => payments[s.payment].status = "ABSENT"
           /\ s.op # "collect" => /\ FreshPay(s.pay, payments[s.payment])
                                  /\ PaymentCurrent(s, payments[s.payment])
           /\ \A a \in s.touched :
                /\ a \in Assignment
                /\ Coherent(s.rows[a]) /\ s.rows[a].status \in Live
                /\ assignments[a].status \in Live
                /\ s.rows[a].version = assignments[a].version
                /\ RowCurrent(s, payments[s.payment], assignments, a)
<1>1. /\ s \in Session /\ SessionSound(s, Target(s, payments))
      /\ SessionCurrent(s, Target(s, payments), assignments)
  BY SessionType
<1>2. s.payment # None
  BY <1>1 DEF SessionSound, Writing
<1>3. s.payment \in Payments /\ Target(s, payments) = payments[s.payment]
  BY <1>1, <1>2 DEF Session, Target
<1>4. s.op = "collect" => payments[s.payment].status = "ABSENT"
  BY <1>1, <1>3 DEF SessionSound, Writing
<1>5. s.op # "collect" => /\ FreshPay(s.pay, payments[s.payment])
                          /\ PaymentCurrent(s, payments[s.payment])
  BY <1>1, <1>3 DEF SessionCurrent, FreshPayment
<1>6. ASSUME NEW a \in s.touched
      PROVE  /\ a \in Assignment
             /\ Coherent(s.rows[a]) /\ s.rows[a].status \in Live
             /\ assignments[a].status \in Live
             /\ s.rows[a].version = assignments[a].version
             /\ RowCurrent(s, payments[s.payment], assignments, a)
  <2>1. a \in Assignment /\ FreshRow(s.rows[a], assignments[a])
    BY <1>1 DEF Session, FreshRows
  <2>2. Coherent(s.rows[a]) /\ s.rows[a].status \in Live
    BY <1>1 DEF SessionSound, Writing
  <2>3. RowCurrent(s, payments[s.payment], assignments, a)
    BY <1>1, <1>3, <1>5, <2>1 DEF SessionCurrent
  <2>4. QED
    BY <2>1, <2>2, <2>3 DEF FreshRow
<1>7. QED
  BY <1>1, <1>2, <1>3, <1>4, <1>5, <1>6

LEMMA WrittenTyped ==
    ASSUME TypeOK, NEW s \in Session
    PROVE  /\ WrittenRows(s) \in [Assignment -> AssignmentRow]
           /\ \A a \in Assignment :
                WrittenRows(s)[a] = IF a \in s.touched
                                    THEN [s.rows[a] EXCEPT !.version = @ + 1] ELSE assignments[a]
           /\ s.payment \in Payments =>
                /\ WrittenPayment(s) \in [Payments -> PaymentRow]
                /\ \A p \in Payments :
                     WrittenPayment(s)[p] = IF p = s.payment
                                            THEN [s.pay EXCEPT !.version = @ + 1] ELSE payments[p]
<1>1. \A a \in Assignment : [s.rows[a] EXCEPT !.version = @ + 1] \in AssignmentRow
  BY DEF Session, AssignmentRow
<1>2. [s.pay EXCEPT !.version = @ + 1] \in PaymentRow
  BY DEF Session, PaymentRow
<1>3. QED
  BY <1>1, <1>2 DEF TypeOK, WrittenRows, WrittenPayment

LEMMA Bumped ==
    ASSUME NEW row \in AssignmentRow
    PROVE  LET new == [row EXCEPT !.version = @ + 1] IN
           /\ new.status = row.status /\ new.version = row.version + 1
           /\ new.assigned = row.assigned /\ new.discount = row.discount
           /\ new.fine = row.fine /\ new.paid = row.paid
           /\ Coherent(row) => Coherent(new)
<1> DEFINE new == [row EXCEPT !.version = @ + 1]
<1>1. /\ new.status = row.status /\ new.version = row.version + 1
      /\ new.assigned = row.assigned /\ new.discount = row.discount
      /\ new.fine = row.fine /\ new.paid = row.paid
  BY DEF AssignmentRow
<1> HIDE DEF new
<1>2. Coherent(row) => Coherent(new)
  BY <1>1 DEF Coherent, Due, Outstanding
<1>3. QED
  BY <1>1, <1>2 DEF new

LEMMA CommitInv ==
    ASSUME Inv, NEW r \in Requests, NEW s, s = requests[r], Writing(s), s.step # "read" \/ s.op # "collect",
           FreshRows(s, s.touched), s.op # "collect" => FreshPayment(s),
           assignments' = WrittenRows(s), payments' = WrittenPayment(s),
           UNCHANGED <<today, documents>>,
           NEW n, Begin(r, n),
           n = Idle \/ (s.op = "update" /\ n = [s EXCEPT !.step = "committed"])
    PROVE  Inv'
<1> DEFINE p == s.payment
<1>1. /\ s \in Session /\ p \in Payments /\ p # None
      /\ s.op = "collect" => payments[p].status = "ABSENT"
      /\ s.op # "collect" => FreshPay(s.pay, payments[p]) /\ PaymentCurrent(s, payments[p])
  BY CommitFinds
<1>2. \A a \in s.touched :
        /\ a \in Assignment
        /\ Coherent(s.rows[a]) /\ s.rows[a].status \in Live
        /\ assignments[a].status \in Live /\ s.rows[a].version = assignments[a].version
        /\ RowCurrent(s, payments[p], assignments, a)
  BY CommitFinds
<1>3. /\ assignments \in [Assignment -> AssignmentRow] /\ payments \in [Payments -> PaymentRow]
      /\ assignments' \in [Assignment -> AssignmentRow] /\ payments' \in [Payments -> PaymentRow]
      /\ \A a \in Assignment :
            assignments'[a] = IF a \in s.touched
                              THEN [s.rows[a] EXCEPT !.version = @ + 1] ELSE assignments[a]
      /\ \A q \in Payments :
            payments'[q] = IF q = p THEN [s.pay EXCEPT !.version = @ + 1] ELSE payments[q]
  BY <1>1, WrittenTyped DEF Inv, TypeOK
<1>4. /\ payments'[p].status = s.pay.status /\ payments'[p].student = s.pay.student
      /\ payments'[p].alloc = s.pay.alloc /\ payments'[p].version = s.pay.version + 1
      /\ s.pay.status \in Recorded /\ s.pay.alloc \in [Assignment -> Nat]
  BY <1>1, <1>3, SessionType DEF Session, PaymentRow, SessionSound, Writing, Recorded
<1>5. \A a \in s.touched :
        /\ assignments'[a].status = s.rows[a].status /\ assignments'[a].status \in Live
        /\ assignments'[a].version = assignments[a].version + 1
        /\ Coherent(assignments'[a])
  <2> TAKE a \in s.touched
  <2>1. s.rows[a] \in AssignmentRow
    BY <1>1, <1>2 DEF Session
  <2>2. assignments'[a] = [s.rows[a] EXCEPT !.version = @ + 1]
    BY <1>2, <1>3
  <2>3. QED
    BY <1>2, <2>1, <2>2, Bumped
<1>6. /\ n \in Session /\ n.payment \in {None, p} /\ n.op # "collect"
      /\ SessionSound(n, Target(n, payments'))
      /\ SessionCurrent(n, Target(n, payments'), assignments')
  <2>1. CASE n = Idle
    BY <2>1, IdleSound DEF Idle
  <2>2. CASE s.op = "update" /\ n = [s EXCEPT !.step = "committed"]
    <3>1. /\ n.op = "update" /\ n.step = "committed" /\ n.payment = p /\ n.touched = s.touched
          /\ n.pay = s.pay /\ n.rows = s.rows /\ n \in Session
      BY <1>1, <2>2 DEF Session
    <3>2. Target(n, payments') = payments'[p]
      BY <1>1, <3>1 DEF Target
    <3>3. SessionSound(s, Target(s, payments))
      BY SessionType
    <3>4. SessionSound(n, payments'[p])
      BY <1>1, <1>2, <1>4, <2>2, <3>1, <3>3 DEF SessionSound, Recorded
    <3>5. SessionCurrent(n, Target(n, payments'), assignments')
      BY <3>1 DEF SessionCurrent, Writing
    <3>6. QED
      BY <3>1, <3>2, <3>4, <3>5
  <2>3. QED
    BY <2>1, <2>2
<1>7. requests' \in [Requests -> Session]
      /\ \A q \in Requests : requests'[q] = IF q = r THEN n ELSE requests[q]
  BY <1>6 DEF Begin, Inv, TypeOK
<1>8. TypeOK'
  BY <1>3, <1>7 DEF Inv, TypeOK
<1>9. \A a \in Assignment : Coherent(assignments'[a])
  BY <1>3, <1>5 DEF Inv, LedgerInvariant
<1>10. \A a \in Assignment : RowStep(assignments'[a], assignments[a])
  <2> TAKE a \in Assignment
  <2>1. CASE a \notin s.touched
    BY <1>3, <2>1 DEF RowStep
  <2>2. CASE a \in s.touched
    <3>1. assignments[a].version \in Nat
      BY <1>3 DEF AssignmentRow
    <3>2. QED
      BY <1>2, <1>5, <2>2, <3>1 DEF RowStep, Superseded, Live
  <2>3. QED
    BY <2>1, <2>2
<1>11. \A q \in Payments : PaymentSound(payments'[q], assignments')
  <2>1. \A a \in Assignment :
          assignments[a].status \in Live => assignments'[a].status \in Live
    BY <1>3, <1>5
  <2>2. ASSUME NEW q \in Payments, q # p
        PROVE  PaymentSound(payments'[q], assignments')
    BY <1>3, <2>1, <2>2 DEF PaymentSound, Inv, LedgerInvariant, Allocated
  <2>3. ASSUME NEW a \in Allocated(s.pay)
        PROVE  StudentOf(a) = s.pay.student /\ assignments'[a].status \in Live
    <3>1. a \in Assignment /\ s.pay.alloc[a] > 0
      BY DEF Allocated
    <3>2. SessionSound(s, Target(s, payments))
      BY SessionType
    <3>3. CASE s.op = "collect"
      BY <1>5, <3>2, <3>3 DEF SessionSound
    <3>4. CASE s.op # "collect"
      <4>1. payments[p].alloc[a] > 0
        BY <1>1, <3>1, <3>2, <3>4 DEF PaymentCurrent, SessionSound, Writing
      <4>2. StudentOf(a) = payments[p].student /\ assignments[a].status \in Live
        BY <1>1, <3>1, <4>1 DEF Inv, LedgerInvariant, PaymentSound, Allocated
      <4>3. QED
        BY <1>1, <2>1, <3>1, <3>4, <4>2 DEF PaymentCurrent
    <3>5. QED
      BY <3>3, <3>4
  <2>4. PaymentSound(payments'[p], assignments')
    BY <1>4, <2>3 DEF PaymentSound, Allocated
  <2>5. QED
    BY <2>2, <2>4
<1>12. ASSUME NEW q \in Requests, q # r
       PROVE  /\ SessionSound(requests'[q], Target(requests'[q], payments'))
              /\ SessionCurrent(requests'[q], Target(requests'[q], payments'), assignments')
  <2> DEFINE o == requests[q]
  <2>1. /\ o \in Session /\ requests'[q] = o /\ SessionSound(o, Target(o, payments))
        /\ SessionCurrent(o, Target(o, payments), assignments)
    BY <1>7, <1>12, SessionType
  <2>2. Target(o, payments) \in PaymentRow /\ Target(o, payments') \in PaymentRow
    BY <1>3, <2>1, TargetTyped
  <2>3. CASE o.payment # p
    <3>1. Target(o, payments') = Target(o, payments)
      BY <1>3, <2>1, <2>3 DEF Target, Session
    <3>2. QED
      BY <1>3, <1>10, <2>1, <2>2, <3>1, OtherSession
  <2>4. CASE o.payment = p
    <3>1. s.op # "collect" /\ o.op # "collect"
      BY <1>1, <1>12, <2>4 DEF Inv, LedgerInvariant
    <3>2. Target(o, payments') = payments'[p] /\ Target(o, payments) = payments[p]
      BY <1>1, <2>4 DEF Target
    <3>3. Superseded(payments'[p], payments[p], Recorded)
      BY <1>1, <1>3, <1>4, <3>1 DEF Superseded, FreshPay, PaymentRow
    <3>4. payments'[p].status # "ABSENT" /\ payments[p].status # "ABSENT"
      BY <1>1, <1>4, <3>1 DEF FreshPay, Recorded
    <3> HIDE DEF o
    <3>5. QED
      BY <1>3, <1>10, <2>1, <2>2, <3>1, <3>2, <3>3, <3>4, OtherSession
  <2>5. QED
    BY <2>3, <2>4
<1>13. ASSUME NEW q \in Requests, NEW t \in Requests, q # t,
              requests'[q].op = "collect", requests'[q].payment # None
       PROVE  requests'[t].payment # requests'[q].payment
  <2>1. q # r /\ requests'[q] = requests[q]
    BY <1>6, <1>7, <1>13
  <2>2. \A u \in Requests \ {q} : requests[u].payment # requests[q].payment
    BY <1>13, <2>1 DEF Inv, LedgerInvariant
  <2>3. CASE t = r
    BY <1>6, <1>7, <1>13, <2>1, <2>2, <2>3
  <2>4. CASE t # r
    BY <1>7, <1>13, <2>1, <2>2, <2>4
  <2>5. QED
    BY <2>3, <2>4
<1>14. QED
  BY <1>6, <1>7, <1>8, <1>9, <1>11, <1>12, <1>13 DEF Inv, LedgerInvariant

LEMMA CommitsInv ==
    ASSUME Inv, NEW r \in Requests, CommitCollect(r) \/ CommitUpdate(r) \/ CommitCancel(r)
    PROVE  Inv'
<1> DEFINE s == requests[r]
<1>1. CASE CommitCollect(r)
  <2>1. Writing(s) /\ s.step = "uploaded" /\ s.op = "collect"
    BY <1>1 DEF CommitCollect, Writing
  <2>2. Begin(r, Idle)
    BY <1>1 DEF CommitCollect, End
  <2>3. QED
    BY <1>1, <2>1, <2>2, CommitInv DEF CommitCollect
<1>2. CASE CommitUpdate(r)
  <2>1. Writing(s) /\ s.op = "update"
    BY <1>2 DEF CommitUpdate, Writing
  <2> DEFINE n == [s EXCEPT !.step = "committed"]
  <2>2. Begin(r, n)
    BY <1>2 DEF CommitUpdate
  <2> HIDE DEF s
  <2>3. QED
    BY <1>2, <2>1, <2>2, CommitInv DEF CommitUpdate, s
<1>3. CASE CommitCancel(r)
  <2>1. Writing(s) /\ s.op = "cancel"
    BY <1>3, SessionType DEF CommitCancel, Writing, SessionSound
  <2>2. Begin(r, Idle)
    BY <1>3 DEF CommitCancel, End
  <2>3. QED
    BY <1>3, <2>1, <2>2, CommitInv DEF CommitCancel
<1>4. QED
  BY <1>1, <1>2, <1>3

LEMMA CommitAssignInv ==
    ASSUME Inv, NEW r \in Requests, CommitAssign(r) PROVE Inv'
<1> DEFINE s == requests[r]
<1>1. /\ s \in Session /\ s.op = "assign" /\ payments' = payments
      /\ \A a \in s.touched : assignments[a].status = "ABSENT"
      /\ assignments' = WrittenRows(s) /\ Begin(r, Idle) /\ UNCHANGED <<today, documents>>
  BY SessionType DEF CommitAssign, End
<1>2. \A a \in s.touched : /\ a \in Assignment /\ s.rows[a] \in AssignmentRow
                           /\ s.rows[a].status = "UNPAID"
                           /\ s.rows[a].paid = 0 /\ Due(s.rows[a]) >= 0
  BY <1>1, SessionType DEF SessionSound, Session
<1>3. /\ assignments \in [Assignment -> AssignmentRow] /\ payments \in [Payments -> PaymentRow]
      /\ assignments' \in [Assignment -> AssignmentRow]
      /\ \A a \in Assignment :
            assignments'[a] = IF a \in s.touched
                              THEN [s.rows[a] EXCEPT !.version = @ + 1] ELSE assignments[a]
  BY <1>1, WrittenTyped DEF Inv, TypeOK
<1> HIDE DEF s
<1>4. \A a \in s.touched : assignments'[a].status = "UNPAID" /\ Coherent(assignments'[a])
  <2> TAKE a \in s.touched
  <2>1. Coherent(s.rows[a])
    BY <1>2 DEF Coherent
  <2>2. assignments'[a] = [s.rows[a] EXCEPT !.version = @ + 1]
    BY <1>2, <1>3
  <2>3. QED
    BY <1>2, <2>1, <2>2, Bumped
<1>5. \A a \in Assignment : RowStep(assignments'[a], assignments[a])
  BY <1>1, <1>3, <1>4 DEF RowStep
<1>6. requests' \in [Requests -> Session]
      /\ \A q \in Requests : requests'[q] = IF q = r THEN Idle ELSE requests[q]
  BY <1>1, IdleSound DEF Begin, Inv, TypeOK
<1>7. TypeOK'
  BY <1>1, <1>3, <1>6 DEF Inv, TypeOK
<1>8. \A a \in Assignment : Coherent(assignments'[a])
  BY <1>3, <1>4 DEF Inv, LedgerInvariant
<1>9. \A p \in Payments : PaymentSound(payments'[p], assignments')
  <2>1. \A a \in Assignment : assignments[a].status \in Live => assignments'[a].status \in Live
    BY <1>1, <1>3, <1>4 DEF Live
  <2>2. QED
    BY <1>1, <2>1 DEF PaymentSound, Inv, LedgerInvariant, Allocated
<1>10. ASSUME NEW q \in Requests
       PROVE  /\ SessionSound(requests'[q], Target(requests'[q], payments'))
              /\ SessionCurrent(requests'[q], Target(requests'[q], payments'), assignments')
  <2>1. CASE q = r
    BY <1>6, <2>1, IdleSound
  <2>2. CASE q # r
    <3> DEFINE o == requests[q]
    <3>1. /\ o \in Session /\ SessionSound(o, Target(o, payments))
          /\ SessionCurrent(o, Target(o, payments), assignments)
      BY SessionType
    <3>2. Target(o, payments) \in PaymentRow
      BY <1>3, <3>1, TargetTyped
    <3> HIDE DEF o
    <3>3. SessionCurrent(o, Target(o, payments), assignments')
      BY <1>3, <1>5, <3>1, <3>2, OtherSession
    <3>4. QED
      BY <1>1, <1>6, <2>2, <3>1, <3>3 DEF o
  <2>3. QED
    BY <2>1, <2>2
<1>11. \A q, t \in Requests :
        q # t /\ requests'[q].op = "collect" /\ requests'[q].payment # None
        => requests'[t].payment # requests'[q].payment
  BY <1>6 DEF Inv, LedgerInvariant, Idle
<1>12. QED
  BY <1>7, <1>8, <1>9, <1>10, <1>11 DEF Inv, LedgerInvariant

LEMMA ResetSchoolInv ==
    ASSUME Inv, NEW S \in SUBSET Students, ResetSchool(S) PROVE Inv'
<1> DEFINE A == {a \in Assignment : StudentOf(a) \in S}
           gone == [AbsentRow EXCEPT !.status = "DELETED"]
           removed == [AbsentPayment EXCEPT !.status = "DELETED"]
<1>1. /\ assignments \in [Assignment -> AssignmentRow] /\ payments \in [Payments -> PaymentRow]
      /\ requests' = requests /\ today' = today /\ documents' = documents
  BY DEF Inv, TypeOK, ResetSchool
<1>2. gone \in AssignmentRow /\ gone.status = "DELETED" /\ Coherent(gone)
  BY DEF AbsentRow, AssignmentRow, Coherent, Due, Outstanding
<1>3. /\ removed \in PaymentRow /\ removed.status = "DELETED" /\ removed.alloc = NoAllocation
  BY AbsentTyped DEF AbsentPayment, PaymentRow
<1>4. \A a \in Assignment : assignments'[a] = IF StudentOf(a) \in S THEN gone ELSE assignments[a]
  BY DEF ResetSchool
<1>5. \A p \in Payments :
        payments'[p] = IF payments[p].status \in Recorded /\ payments[p].student \in S
                       THEN removed ELSE payments[p]
  BY DEF ResetSchool
<1> HIDE DEF gone, removed
<1>6. assignments' \in [Assignment -> AssignmentRow] /\ payments' \in [Payments -> PaymentRow]
  <2>1. DOMAIN assignments' = Assignment /\ DOMAIN payments' = Payments
    BY DEF ResetSchool
  <2>2. /\ assignments' = [a \in Assignment |-> assignments'[a]]
        /\ payments' = [p \in Payments |-> payments'[p]]
    BY DEF ResetSchool
  <2>3. QED
    BY <1>1, <1>2, <1>3, <1>4, <1>5, <2>2
<1>7. TypeOK'
  BY <1>1, <1>6 DEF Inv, TypeOK
<1>8. \A a \in Assignment : Coherent(assignments'[a])
  BY <1>2, <1>4 DEF Inv, LedgerInvariant
<1>9. ASSUME NEW p \in Payments PROVE PaymentSound(payments'[p], assignments')
  <2>1. CASE payments'[p] = removed
    BY <1>3, <2>1 DEF PaymentSound, Allocated, NoAllocation, Recorded
  <2>2. CASE payments'[p] = payments[p] /\ ~(payments[p].status \in Recorded /\ payments[p].student \in S)
    <3>1. PaymentSound(payments[p], assignments)
      BY DEF Inv, LedgerInvariant
    <3>2. ASSUME NEW a \in Allocated(payments[p])
          PROVE  StudentOf(a) = payments[p].student /\ assignments'[a].status \in Live
      <4>1. a \in Assignment /\ payments[p].status \in Recorded
        BY <3>1 DEF PaymentSound, Allocated, NoAllocation
      <4>2. QED
        BY <1>4, <2>2, <3>1, <4>1 DEF PaymentSound
    <3>3. QED
      BY <2>2, <3>1, <3>2 DEF PaymentSound
  <2>3. QED
    BY <1>5, <2>1, <2>2
<1>10. \A a \in Assignment : RowStep(assignments'[a], assignments[a])
  BY <1>2, <1>4 DEF RowStep, Superseded, Live
<1>11. ASSUME NEW q \in Requests
       PROVE  /\ SessionSound(requests'[q], Target(requests'[q], payments'))
              /\ SessionCurrent(requests'[q], Target(requests'[q], payments'), assignments')
  <2> DEFINE o == requests[q]
             old == Target(o, payments)
             new == Target(o, payments')
  <2>1. /\ o \in Session /\ SessionSound(o, old) /\ SessionCurrent(o, old, assignments)
    BY SessionType
  <2>2. old \in PaymentRow /\ new \in PaymentRow
    BY <1>1, <1>6, <2>1, TargetTyped
  <2>3. \/ new = old
        \/ /\ old.status \in Recorded /\ new = removed
    BY <1>5, <2>1 DEF Target, Session
  <2> HIDE DEF o, old, new
  <2>4. old.status \in Recorded => o.op # "collect" \/ new = old
    <3>1. o.op = "collect" => (o.step = "read" /\ o.payment = None) \/ old.status = "ABSENT"
      BY <2>1 DEF SessionSound
    <3>2. QED
      BY <3>1 DEF Recorded, Target, AbsentPayment, old, new
  <2>5. /\ old.status = "ABSENT" <=> new.status = "ABSENT"
        /\ new = old \/ (o.op # "collect" /\ Superseded(new, old, Recorded))
    <3>1. CASE new = old
      BY <3>1
    <3>2. CASE new # old
      <4>1. old.status \in Recorded /\ new.status = "DELETED" /\ o.op # "collect"
        BY <1>3, <2>3, <2>4, <3>2
      <4>2. QED
        BY <4>1 DEF Superseded, Recorded
    <3>3. QED
      BY <3>1, <3>2
  <2>6. SessionSound(o, new) /\ SessionCurrent(o, new, assignments')
    BY <1>1, <1>6, <1>10, <2>1, <2>2, <2>5, OtherSession
  <2>7. QED
    BY <1>1, <2>6 DEF o, new
<1>12. QED
  BY <1>1, <1>7, <1>8, <1>9, <1>11 DEF Inv, LedgerInvariant

LEMMA NextInv == Inv /\ [Next]_vars => Inv'
<1> SUFFICES ASSUME Inv, [Next]_vars PROVE Inv'
  OBVIOUS
<1>1. ASSUME NEW r \in Requests, Charge(r) PROVE Inv'
  BY <1>1, ChargeStartInv, CommitAssignInv DEF Charge
<1>2. ASSUME NEW r \in Requests, Collect(r) PROVE Inv'
  BY <1>2, StartCollectInv, FlushCollectInv, UploadReceiptInv, CommitsInv DEF Collect
<1>3. ASSUME NEW r \in Requests, Edit(r) PROVE Inv'
  BY <1>3, StartUpdateInv, CommitsInv, StartRegenerateInv, FinishRegenerateInv DEF Edit
<1>4. ASSUME NEW r \in Requests, Reverse(r) PROVE Inv'
  BY <1>4, StartCancelInv, CommitsInv DEF Reverse
<1>5. ASSUME NEW S \in Resets, ResetSchool(S) PROVE Inv'
  <2>1. S \in SUBSET Students
    BY InputAssumption
  <2>2. QED
    BY <1>5, <2>1, ResetSchoolInv
<1>6. CASE NextDay
  <2>1. TypeOK'
    BY <1>6 DEF NextDay, Inv, TypeOK
  <2>2. LedgerInvariant'
    BY <1>6 DEF NextDay, Inv, LedgerInvariant
  <2>3. QED
    BY <2>1, <2>2 DEF Inv
<1>7. CASE UNCHANGED vars
  BY <1>7 DEF vars, Inv, TypeOK, LedgerInvariant
<1>8. QED
  BY <1>1, <1>2, <1>3, <1>4, <1>5, <1>6, <1>7, AbortInv DEF Next

(* The ledger invariant holds in every reachable state: a session whose     *)
(* versions are still current holds the committed values, changed only by   *)
(* what its own operation adds.                                             *)
THEOREM Invariance == Spec => [](TypeOK /\ LedgerInvariant)
<1>1. Spec => []Inv
  BY InitInv, NextInv, PTL DEF Spec
<1>2. QED
  BY <1>1, PTL DEF Inv

(* The tables and sessions always hold rows of the declared shapes: no fine *)
(* turns negative, and no session leaves its operation's steps.             *)
THEOREM TypeCorrect == Spec => []TypeOK
  BY Invariance, PTL

(* However collections, edits, cancellations, assignments and resets        *)
(* overlap, no assignment is ever paid more than is due on it.              *)
THEOREM NeverOverpaid == Spec => []NoOverpayment
<1>1. Inv => NoOverpayment
  BY DEF Inv, LedgerInvariant, Coherent, NoOverpayment
<1>2. QED
  BY <1>1, Invariance, PTL DEF Inv

(* The status stored on an assignment always agrees with its amounts.       *)
THEOREM StatusFollowsBalance == Spec => []StatusMatchesBalance
<1>1. Inv => StatusMatchesBalance
  BY DEF Inv, LedgerInvariant, Coherent, StatusMatchesBalance
<1>2. QED
  BY <1>1, Invariance, PTL DEF Inv

-----------------------------------------------------------------------------
(* Steps that change the tables.                                            *)

Tables == <<assignments, payments>>

(* Every step is a commit, a reset, or leaves both tables alone. *)
LEMMA TableSteps ==
    ASSUME [Next]_vars
    PROVE  \/ UNCHANGED Tables
           \/ \E r \in Requests : \/ CommitAssign(r) \/ CommitCollect(r)
                                 \/ CommitUpdate(r) \/ CommitCancel(r)
           \/ \E S \in SUBSET Students : S \in Resets /\ ResetSchool(S)
<1>1. ASSUME NEW r \in Requests, Charge(r)
      PROVE  UNCHANGED Tables \/ CommitAssign(r)
  BY <1>1 DEF Charge, AssignFee, Propagate, StartAssign, Tables
<1>2. ASSUME NEW r \in Requests, Collect(r)
      PROVE  UNCHANGED Tables \/ CommitCollect(r)
  BY <1>2 DEF Collect, StartCollect, FlushCollect, UploadReceipt, Tables
<1>3. ASSUME NEW r \in Requests, Edit(r)
      PROVE  UNCHANGED Tables \/ CommitUpdate(r)
  BY <1>3 DEF Edit, StartUpdate, StartRegenerate, FinishRegenerate, Tables
<1>4. ASSUME NEW r \in Requests, Reverse(r)
      PROVE  UNCHANGED Tables \/ CommitCancel(r)
  BY <1>4 DEF Reverse, StartCancel, Tables
<1>5. ASSUME NEW r \in Requests, Abort(r) PROVE UNCHANGED Tables
  BY <1>5 DEF Abort, Tables
<1>6. NextDay \/ UNCHANGED vars => UNCHANGED Tables
  BY DEF NextDay, vars, Tables
<1>7. Resets \subseteq SUBSET Students
  BY InputAssumption
<1>8. QED
  BY <1>1, <1>2, <1>3, <1>4, <1>5, <1>6, <1>7 DEF Next

(* What a commit of a collection, an edit or a cancellation did to both tables. *)
Committed(s) ==
    LET p == s.payment
        old == payments[p]
        new == payments'[p]
    IN
    /\ p \in Payments
    /\ \A q \in Payments \ {p} : payments'[q] = payments[q]
    /\ \A a \in Assignment \ s.touched : assignments'[a] = assignments[a]
    /\ new.status = s.pay.status /\ new.alloc = s.pay.alloc
    /\ s.pay.alloc \in [Assignment -> Nat] /\ old.alloc \in [Assignment -> Nat]
    /\ s.touched \subseteq Assignment
    /\ s.op = "collect" => /\ old.status = "ABSENT" /\ old.alloc = NoAllocation
                           /\ new.status = "COMPLETED" /\ s.touched = Allocated(s.pay)
    /\ s.op = "update" => /\ old.status = "COMPLETED" /\ new.status = "COMPLETED"
                          /\ s.touched \subseteq Allocated(s.pay)
                          /\ \A a \in Assignment \ s.touched : new.alloc[a] = old.alloc[a]
                          /\ \A a \in s.touched : old.alloc[a] > 0
    /\ s.op = "cancel" => /\ old.status = "COMPLETED" /\ new.status = "CANCELLED"
                          /\ new.alloc = old.alloc /\ s.touched = Allocated(s.pay)
    /\ \A a \in s.touched :
        /\ assignments[a].status \in Live /\ assignments'[a].status \in Live
        /\ Due(assignments[a]) \in Int /\ Due(assignments'[a]) \in Int
        /\ assignments[a].paid \in Int
        /\ IF s.op = "collect" THEN Due(assignments'[a]) >= Due(assignments[a])
                               ELSE Due(assignments'[a]) = Due(assignments[a])
        /\ assignments'[a].paid = assignments[a].paid + Added(s, old, a)
        /\ assignments'[a].paid <= Due(assignments'[a])

LEMMA CommitEffect ==
    ASSUME Inv, NEW r \in Requests, NEW s, s = requests[r], Writing(s), s.step # "read" \/ s.op # "collect",
           FreshRows(s, s.touched), s.op # "collect" => FreshPayment(s),
           assignments' = WrittenRows(s), payments' = WrittenPayment(s)
    PROVE  Committed(s)
<1> DEFINE p == s.payment
<1>1. /\ s \in Session /\ p \in Payments /\ p # None
      /\ s.op = "collect" => payments[p].status = "ABSENT"
      /\ s.op # "collect" => PaymentCurrent(s, payments[p])
      /\ SessionSound(s, payments[p])
  BY CommitFinds, SessionType DEF Target
<1>2. \A a \in s.touched :
        /\ a \in Assignment
        /\ Coherent(s.rows[a]) /\ s.rows[a].status \in Live
        /\ assignments[a].status \in Live
        /\ RowCurrent(s, payments[p], assignments, a)
  BY CommitFinds
<1>3. /\ assignments \in [Assignment -> AssignmentRow] /\ payments \in [Payments -> PaymentRow]
      /\ \A a \in Assignment :
            assignments'[a] = IF a \in s.touched
                              THEN [s.rows[a] EXCEPT !.version = @ + 1] ELSE assignments[a]
      /\ \A q \in Payments :
            payments'[q] = IF q = p THEN [s.pay EXCEPT !.version = @ + 1] ELSE payments[q]
  BY <1>1, WrittenTyped DEF Inv, TypeOK
<1>4. /\ payments'[p].status = s.pay.status /\ payments'[p].alloc = s.pay.alloc
      /\ s.pay.alloc \in [Assignment -> Nat] /\ payments[p].alloc \in [Assignment -> Nat]
      /\ payments[p].status = "ABSENT" => payments[p].alloc = NoAllocation
  BY <1>1, <1>3 DEF Session, PaymentRow, Inv, LedgerInvariant, PaymentSound, Recorded
<1>5. ASSUME NEW a \in s.touched
      PROVE  /\ assignments'[a].status \in Live
             /\ Due(assignments[a]) \in Int /\ Due(assignments'[a]) \in Int
             /\ assignments[a].paid \in Int
             /\ IF s.op = "collect" THEN Due(assignments'[a]) >= Due(assignments[a])
                                    ELSE Due(assignments'[a]) = Due(assignments[a])
             /\ assignments'[a].paid = assignments[a].paid + Added(s, payments[p], a)
             /\ assignments'[a].paid <= Due(assignments'[a])
  <2>1. s.rows[a] \in AssignmentRow /\ assignments[a] \in AssignmentRow
    BY <1>1, <1>2, <1>3 DEF Session
  <2>2. assignments'[a] = [s.rows[a] EXCEPT !.version = @ + 1]
    BY <1>2, <1>3
  <2>3. /\ assignments'[a].status = s.rows[a].status
        /\ assignments'[a].assigned = s.rows[a].assigned
        /\ assignments'[a].discount = s.rows[a].discount
        /\ assignments'[a].fine = s.rows[a].fine /\ assignments'[a].paid = s.rows[a].paid
        /\ Coherent(assignments'[a])
    BY <1>2, <2>1, <2>2, Bumped
  <2>4. RowCurrent(s, payments[p], assignments, a)
    BY <1>2
  <2> HIDE DEF p
  <2>5. QED
    BY <1>2, <2>1, <2>3, <2>4 DEF RowCurrent, Coherent, Due, AssignmentRow
<1>6. s.touched \subseteq Assignment
  BY <1>2
<1>7. s.op = "update" =>
        /\ payments[p].status = "COMPLETED" /\ s.pay.status = "COMPLETED"
        /\ s.touched \subseteq Allocated(s.pay)
        /\ \A a \in Assignment \ s.touched : s.pay.alloc[a] = payments[p].alloc[a]
        /\ \A a \in s.touched : payments[p].alloc[a] > 0
  BY <1>1, <1>6 DEF SessionSound, PaymentCurrent
<1>8. s.op = "cancel" => /\ payments[p].status = "COMPLETED" /\ s.pay.status = "CANCELLED"
                        /\ s.pay.alloc = payments[p].alloc /\ s.touched = Allocated(s.pay)
  BY <1>1 DEF SessionSound, PaymentCurrent
<1>9. s.op = "collect" => s.pay.status = "COMPLETED" /\ s.touched = Allocated(s.pay)
  BY <1>1 DEF SessionSound
<1>10. QED
  BY <1>1, <1>2, <1>3, <1>4, <1>5, <1>6, <1>7, <1>8, <1>9 DEF Committed

LEMMA CommitsEffect ==
    ASSUME Inv, NEW r \in Requests
    PROVE  LET s == requests[r] IN
           /\ CommitCollect(r) => Committed(s) /\ s.op = "collect" /\ s.step # "read"
           /\ CommitUpdate(r) => Committed(s) /\ s.op = "update"
           /\ CommitCancel(r) => Committed(s) /\ s.op = "cancel"
<1> DEFINE s == requests[r]
<1>1. CASE CommitCollect(r)
  <2>1. Writing(s) /\ s.step = "uploaded" /\ s.op = "collect"
    BY <1>1 DEF CommitCollect, Writing
  <2>2. Committed(s)
    BY <1>1, <2>1, CommitEffect DEF CommitCollect
  <2>3. QED
    BY <2>1, <2>2 DEF CommitUpdate, CommitCancel
<1>2. CASE CommitUpdate(r)
  <2>1. Writing(s) /\ s.op = "update"
    BY <1>2 DEF CommitUpdate, Writing
  <2>2. Committed(s)
    BY <1>2, <2>1, CommitEffect DEF CommitUpdate
  <2>3. QED
    BY <2>1, <2>2 DEF CommitCollect, CommitCancel
<1>3. CASE CommitCancel(r)
  <2>1. Writing(s) /\ s.op = "cancel"
    BY <1>3, SessionType DEF CommitCancel, Writing, SessionSound
  <2>2. Committed(s)
    BY <1>3, <2>1, CommitEffect DEF CommitCancel
  <2>3. QED
    BY <2>1, <2>2 DEF CommitCollect, CommitUpdate
<1>4. QED
  BY <1>1, <1>2, <1>3

(* A cancelled payment is never rewritten, whatever an edit or a second     *)
(* cancellation that read it before goes on to commit.                      *)
THEOREM CancellationIsFinal == Spec => CancelledIsFinal
<1> DEFINE Final == \A p \in Payments :
                payments[p].status = "CANCELLED"
                => payments'[p] = payments[p] \/ payments'[p].status = "DELETED"
<1>1. ASSUME Inv, [Next]_vars PROVE Final
  <2>1. CASE UNCHANGED Tables
    BY <2>1 DEF Tables
  <2>2. ASSUME NEW r \in Requests, CommitCollect(r) \/ CommitUpdate(r) \/ CommitCancel(r)
        PROVE  Final
    <3>1. Committed(requests[r]) /\ requests[r].op \in {"collect", "update", "cancel"}
      BY <1>1, <2>2, CommitsEffect
    <3>2. QED
      BY <3>1 DEF Committed
  <2>3. ASSUME NEW r \in Requests, CommitAssign(r) PROVE Final
    BY <2>3 DEF CommitAssign
  <2>4. ASSUME NEW S \in SUBSET Students, ResetSchool(S) PROVE Final
    BY <2>4 DEF ResetSchool, AbsentPayment
  <2>5. QED
    BY <1>1, <2>1, <2>2, <2>3, <2>4, TableSteps
<1>2. Inv /\ [Next]_vars => [Final]_vars
  BY <1>1
<1>3. QED
  BY <1>2, InitInv, NextInv, PTL DEF Spec, CancelledIsFinal

-----------------------------------------------------------------------------
(* Sums over payments.  That the sum over a finite set does not depend on  *)
(* the order of its terms is shown by counting: it is the size of a table. *)

(* Of the sets in a non-empty family of finite sets, one is smallest. *)
LEMMA Smallest ==
    ASSUME NEW S, IsFiniteSet(S), NEW F \in SUBSET SUBSET S, F # {}
    PROVE  \E s \in F : \A t \in F : t \subseteq s => t = s
<1>1. F \subseteq FiniteSubsetsOf(S)
  BY FS_Subset DEF FiniteSubsetsOf
<1>2. PICK s \in F : \A t \in F : <<t, s>> \notin StrictSubsetOrdering(S)
  BY <1>1, FS_StrictSubsetOrderingWellFounded, WFMin
<1>3. QED
  BY <1>2 DEF StrictSubsetOrdering

(* A sum counts the cells of a table with f[x] cells for each x.           *)
Cells(f, s) == {c \in s \X Nat : c[2] < f[c[1]]}

LEMMA CellsOfOne ==
    ASSUME NEW S, NEW f \in [S -> Nat], NEW s \in SUBSET S, NEW x \in s,
           IsFiniteSet(Cells(f, s \ {x}))
    PROVE  /\ IsFiniteSet(Cells(f, s))
           /\ Cardinality(Cells(f, s)) = f[x] + Cardinality(Cells(f, s \ {x}))
<1> DEFINE Row == {x} \X (0..(f[x] - 1))
           Rest == Cells(f, s \ {x})
<1>1. f[x] \in Nat
  OBVIOUS
<1>2. IsFiniteSet(0..(f[x] - 1)) /\ Cardinality(0..(f[x] - 1)) = f[x]
  BY <1>1, FS_Interval
<1>3. IsFiniteSet({x}) /\ Cardinality({x}) = 1
  BY FS_Singleton
<1>4. IsFiniteSet(Row) /\ Cardinality(Row) = Cardinality({x}) * Cardinality(0..(f[x] - 1))
  BY <1>2, <1>3, FS_Product
<1>5. Cardinality(Row) = f[x]
  BY <1>1, <1>2, <1>3, <1>4
<1>6. Cells(f, s) = Rest \cup Row /\ Rest \cap Row = {}
  BY <1>1 DEF Cells
<1> HIDE DEF Row, Rest
<1>7. /\ IsFiniteSet(Rest \cup Row)
      /\ Cardinality(Rest \cup Row) =
            Cardinality(Rest) + Cardinality(Row) - Cardinality(Rest \cap Row)
  BY <1>4, FS_Union DEF Rest
<1>8. Cardinality(Rest) \in Nat /\ Cardinality(Rest \cap Row) = 0
  BY <1>6, FS_CardinalityType, FS_EmptySet DEF Rest
<1>9. QED
  BY <1>1, <1>5, <1>6, <1>7, <1>8 DEF Rest

LEMMA CellsAreFinite ==
    ASSUME NEW S, IsFiniteSet(S), NEW f \in [S -> Nat], NEW s \in SUBSET S
    PROVE  IsFiniteSet(Cells(f, s)) /\ Cardinality(Cells(f, s)) \in Nat
<1> DEFINE F == {t \in SUBSET S : ~IsFiniteSet(Cells(f, t))}
<1>1. F = {}
  <2> SUFFICES ASSUME F # {} PROVE FALSE
    OBVIOUS
  <2>1. F \in SUBSET SUBSET S
    OBVIOUS
  <2> HIDE DEF F
  <2>2. PICK t \in F : \A u \in F : u \subseteq t => u = t
    BY <2>1, Smallest
  <2> USE DEF F
  <2>3. CASE t = {}
    BY <2>2, <2>3, FS_EmptySet DEF Cells
  <2>4. CASE t # {}
    <3>1. PICK x \in t : TRUE
      BY <2>4
    <3>2. t \ {x} \in SUBSET S /\ t \ {x} \notin F
      BY <2>2, <3>1
    <3>3. QED
      BY <2>2, <3>1, <3>2, CellsOfOne
  <2>5. QED
    BY <2>3, <2>4
<1>2. QED
  BY <1>1, FS_CardinalityType

One(s) == CHOOSE x \in s : TRUE
Step(g, f, S) == [s \in SUBSET S |-> IF s = {} THEN 0 ELSE f[One(s)] + g[s \ {One(s)}]]
Total(f) == FoldFunction(LAMBDA x, y : x + y, 0, f)

LEMMA TotalCounts == 
    ASSUME NEW S, IsFiniteSet(S), NEW f \in [S -> Nat]
    PROVE Total(f) = Cardinality(Cells(f, S))
<1>1. Total(f) = (CHOOSE g : g = Step(g, f, S))[S]
  <2>1. Total(f) = (CHOOSE g : g = Step(g, f, DOMAIN f))[DOMAIN f]
    BY DEF Total, FoldFunction, FoldFunctionOnSet, MapThenFoldSet, Step, One
  <2>2. QED
    BY <2>1
<1> DEFINE count == [s \in SUBSET S |-> Cardinality(Cells(f, s))]
<1>2. \A s \in SUBSET S : s # {} => One(s) \in s
  BY DEF One
<1>3. count = Step(count, f, S)
  <2>1. ASSUME NEW s \in SUBSET S
        PROVE  count[s] = IF s = {} THEN 0 ELSE f[One(s)] + count[s \ {One(s)}]
    <3>1. CASE s = {}
      BY <3>1, FS_EmptySet DEF Cells
    <3>2. CASE s # {}
      <4>1. One(s) \in s /\ s \ {One(s)} \in SUBSET S
        BY <1>2, <3>2
      <4>2. QED
        BY <3>2, <4>1, CellsAreFinite, CellsOfOne
    <3>3. QED
      BY <3>1, <3>2
  <2> HIDE DEF count
  <2>2. count = [s \in SUBSET S |-> IF s = {} THEN 0 ELSE f[One(s)] + count[s \ {One(s)}]]
    BY <2>1 DEF count
  <2>3. QED
    BY <2>2 DEF Step
<1> DEFINE g == CHOOSE h : h = Step(h, f, S)
<1>4. g = Step(g, f, S)
  BY <1>3
<1> HIDE DEF g, count
<1> DEFINE F == {s \in SUBSET S : g[s] # count[s]}
<1>5. F = {}
  <2> SUFFICES ASSUME F # {} PROVE FALSE
    OBVIOUS
  <2>1. F \in SUBSET SUBSET S
    OBVIOUS
  <2> HIDE DEF F
  <2>2. PICK s \in F : \A t \in F : t \subseteq s => t = s
    BY <2>1, Smallest
  <2> USE DEF F
  <2>3. /\ g[s] = IF s = {} THEN 0 ELSE f[One(s)] + g[s \ {One(s)}]
        /\ count[s] = IF s = {} THEN 0 ELSE f[One(s)] + count[s \ {One(s)}]
    BY <1>3, <1>4, <2>2 DEF Step
  <2>4. s # {} => s \ {One(s)} \in SUBSET S /\ s \ {One(s)} # s
    BY <1>2, <2>2
  <2>5. QED
    BY <2>2, <2>3, <2>4
<1>6. QED
  BY <1>1, <1>5 DEF g, count

LEMMA TotalIsNat ==
    ASSUME NEW S, IsFiniteSet(S), NEW f \in [S -> Nat]
    PROVE  Total(f) \in Nat
  BY TotalCounts, CellsAreFinite

(* One term changes, and the sum changes by as much. *)
LEMMA TotalChanges ==
    ASSUME NEW S, IsFiniteSet(S), NEW f \in [S -> Nat], NEW g \in [S -> Nat], NEW p \in S,
           \A q \in S \ {p} : g[q] = f[q]
    PROVE  Total(g) = Total(f) - f[p] + g[p]
<1>1. Cells(g, S \ {p}) = Cells(f, S \ {p})
  BY DEF Cells
<1>2. IsFiniteSet(Cells(f, S \ {p})) /\ Cardinality(Cells(f, S \ {p})) \in Nat
  BY CellsAreFinite
<1>3. /\ Cardinality(Cells(f, S)) = f[p] + Cardinality(Cells(f, S \ {p}))
      /\ Cardinality(Cells(g, S)) = g[p] + Cardinality(Cells(f, S \ {p}))
  BY <1>1, <1>2, CellsOfOne
<1>4. f[p] \in Nat /\ g[p] \in Nat
  OBVIOUS
<1>5. QED
  BY <1>2, <1>3, <1>4, TotalCounts

LEMMA TotalOfNothing ==
    ASSUME NEW S, IsFiniteSet(S), NEW f \in [S -> Nat], \A q \in S : f[q] = 0
    PROVE  Total(f) = 0
<1>1. Cells(f, S) = {}
  BY DEF Cells
<1>2. QED
  BY <1>1, TotalCounts, FS_EmptySet

(* What each payment has paid on an assignment. *)
PaidOn(a) == [p \in Payments |-> IF payments[p].status = "COMPLETED"
                                 THEN payments[p].alloc[a] ELSE 0]

LEMMA PaidByIsTotal ==
    ASSUME NEW a \in Assignment
    PROVE  /\ PaidBy(a) = Total(PaidOn(a)) /\ PaidBy(a)' = Total(PaidOn(a)')
           /\ TypeOK => PaidOn(a) \in [Payments -> Nat]
           /\ TypeOK' => PaidOn(a)' \in [Payments -> Nat]
<1>1. PaidBy(a) = Total(PaidOn(a)) /\ PaidBy(a)' = Total(PaidOn(a)')
  BY DEF PaidBy, Total, PaidOn, FoldFunction, FoldFunctionOnSet, MapThenFoldSet
<1>2. TypeOK => \A p \in Payments : payments[p].alloc[a] \in Nat
  BY DEF TypeOK, PaymentRow
<1>3. TypeOK' => \A p \in Payments : payments'[p].alloc[a] \in Nat
  BY DEF TypeOK, PaymentRow
<1>4. QED
  BY <1>1, <1>2, <1>3 DEF PaidOn

LEMMA CommitBalances ==
    ASSUME Inv, Inv', LedgerBalances, NEW r \in Requests,
           CommitCollect(r) \/ CommitUpdate(r) \/ CommitCancel(r)
    PROVE  LedgerBalances'
<1> DEFINE s == requests[r]
           p == s.payment
<1>1. /\ Committed(s) /\ s.op \in {"collect", "update", "cancel"}
      /\ s.op = "collect" => s.step # "read"
  BY CommitsEffect
<1> HIDE DEF s
<1>2. ASSUME NEW a \in Assignment
      PROVE  assignments'[a].paid = PaidBy(a)'
  <2> DEFINE f == PaidOn(a)
             g == PaidOn(a)'
  <2>1. /\ f \in [Payments -> Nat] /\ g \in [Payments -> Nat]
        /\ PaidBy(a) = Total(f) /\ PaidBy(a)' = Total(g)
    BY PaidByIsTotal DEF Inv
  <2>2. p \in Payments /\ \A q \in Payments \ {p} : g[q] = f[q]
    BY <1>1 DEF Committed, PaidOn
  <2>3. /\ f[p] = IF payments[p].status = "COMPLETED" THEN payments[p].alloc[a] ELSE 0
        /\ g[p] = IF payments'[p].status = "COMPLETED" THEN payments'[p].alloc[a] ELSE 0
    BY <2>2 DEF PaidOn
  <2> HIDE DEF f, g
  <2>4. Total(g) = Total(f) - f[p] + g[p] /\ Total(f) \in Nat
    BY <2>1, <2>2, TotalChanges, TotalIsNat, InputAssumption
  <2>5. assignments[a].paid = Total(f) /\ f[p] \in Nat /\ g[p] \in Nat
    BY <2>1, <2>2 DEF LedgerBalances
  <2>6. s.pay.alloc[a] \in Nat /\ payments[p].alloc[a] \in Nat
    BY <1>1 DEF Committed
  <2>7. CASE a \in s.touched
    <3>1. assignments'[a].paid = assignments[a].paid + Added(s, payments[p], a)
      BY <1>1, <2>7 DEF Committed
    <3>2. Added(s, payments[p], a) = g[p] - f[p]
      BY <1>1, <2>3, <2>6 DEF Added, Committed
    <3>3. QED
      BY <2>1, <2>4, <2>5, <3>1, <3>2
  <2>8. CASE a \notin s.touched
    <3>1. assignments'[a] = assignments[a]
      BY <1>1, <2>8 DEF Committed
    <3>2. g[p] = f[p]
      BY <1>1, <2>3, <2>6, <2>8 DEF Committed, Allocated
    <3>3. QED
      BY <2>1, <2>4, <2>5, <3>1, <3>2
  <2>9. QED
    BY <2>7, <2>8
<1>3. QED
  BY <1>2 DEF LedgerBalances

LEMMA AssignBalances ==
    ASSUME Inv, LedgerBalances, NEW r \in Requests, CommitAssign(r)
    PROVE  LedgerBalances'
<1> DEFINE s == requests[r]
<1>1. /\ s \in Session /\ s.op = "assign" /\ payments' = payments
      /\ \A a \in s.touched : assignments[a].status = "ABSENT"
      /\ assignments' = WrittenRows(s)
      /\ \A a \in s.touched : s.rows[a].paid = 0
  BY SessionType DEF CommitAssign, SessionSound
<1> HIDE DEF s
<1>2. ASSUME NEW a \in Assignment
      PROVE  assignments'[a].paid = assignments[a].paid
  <2>1. CASE a \in s.touched
    <3>1. assignments[a].paid = 0
      BY <1>1, <2>1 DEF Inv, LedgerInvariant, Coherent
    <3>2. s.rows[a] \in AssignmentRow
      BY <1>1 DEF Session
    <3>3. assignments'[a] = [s.rows[a] EXCEPT !.version = @ + 1]
      BY <1>1, <2>1 DEF WrittenRows
    <3>4. QED
      BY <1>1, <2>1, <3>1, <3>2, <3>3 DEF AssignmentRow
  <2>2. CASE a \notin s.touched
    BY <1>1, <2>2 DEF WrittenRows
  <2>3. QED
    BY <2>1, <2>2
<1>3. ASSUME NEW a \in Assignment
      PROVE  PaidBy(a)' = PaidBy(a)
  <2>1. PaidOn(a)' = PaidOn(a)
    BY <1>1 DEF PaidOn
  <2>2. QED
    BY <2>1, PaidByIsTotal
<1>4. QED
  BY <1>2, <1>3 DEF LedgerBalances

LEMMA ResetBalances ==
    ASSUME Inv, Inv', LedgerBalances, NEW S \in SUBSET Students, ResetSchool(S)
    PROVE  LedgerBalances'
<1>1. \A p \in Payments :
        payments'[p] = IF payments[p].status \in Recorded /\ payments[p].student \in S
                       THEN [AbsentPayment EXCEPT !.status = "DELETED"] ELSE payments[p]
  BY DEF ResetSchool
<1>2. \A p \in Payments : \A a \in Assignment : payments[p].alloc[a] \in Nat
  BY DEF Inv, TypeOK, PaymentRow
<1>3. ASSUME NEW p \in Payments, NEW a \in Assignment, payments[p].alloc[a] > 0
      PROVE  payments[p].status \in Recorded /\ payments[p].student = StudentOf(a)
  <2>1. PaymentSound(payments[p], assignments)
    BY DEF Inv, LedgerInvariant
  <2>2. QED
    BY <1>3, <2>1 DEF PaymentSound, Allocated, NoAllocation
<1>4. ASSUME NEW a \in Assignment
      PROVE  assignments'[a].paid = PaidBy(a)'
  <2>1. PaidOn(a)' \in [Payments -> Nat]
    BY PaidByIsTotal DEF Inv
  <2>2. CASE StudentOf(a) \in S
    <3>1. assignments'[a].paid = 0
      BY <2>2 DEF ResetSchool, AbsentRow
    <3>2. \A p \in Payments : PaidOn(a)'[p] = 0
      BY <1>1, <1>2, <1>3, <2>2 DEF PaidOn, AbsentPayment
    <3>3. QED
      BY <2>1, <3>1, <3>2, PaidByIsTotal, TotalOfNothing, InputAssumption
  <2>3. CASE StudentOf(a) \notin S
    <3>1. assignments'[a] = assignments[a]
      BY <2>3 DEF ResetSchool
    <3>2. \A p \in Payments : PaidOn(a)'[p] = PaidOn(a)[p]
      BY <1>1, <1>2, <1>3, <2>3 DEF PaidOn, AbsentPayment
    <3>3. PaidOn(a)' = PaidOn(a)
      BY <3>2 DEF PaidOn
    <3>4. QED
      BY <3>1, <3>3, PaidByIsTotal DEF LedgerBalances
  <2>4. QED
    BY <2>2, <2>3
<1>5. QED
  BY <1>4 DEF LedgerBalances

(* Every amount on an assignment is accounted for by standing payments,    *)
(* whichever collections, edits, cancellations and resets overlapped.      *)
THEOREM EveryAmountIsAccountedFor == Spec => []LedgerBalances
<1>1. ASSUME Init PROVE LedgerBalances
  <2>1. \A p \in Payments : payments[p] = AbsentPayment
    BY <1>1 DEF Init
  <2>2. ASSUME NEW a \in Assignment PROVE assignments[a].paid = PaidBy(a)
    <3>1. PaidOn(a) \in [Payments -> Nat] /\ \A p \in Payments : PaidOn(a)[p] = 0
      BY <2>1 DEF PaidOn, AbsentPayment
    <3>2. assignments[a].paid = 0
      BY <1>1 DEF Init, AbsentRow
    <3>3. QED
      BY <3>1, <3>2, PaidByIsTotal, TotalOfNothing, InputAssumption
  <2>3. QED
    BY <2>2 DEF LedgerBalances
<1>2. ASSUME Inv, Inv', LedgerBalances, [Next]_vars PROVE LedgerBalances'
  <2>1. CASE UNCHANGED Tables
    <3>1. ASSUME NEW a \in Assignment
          PROVE  assignments'[a].paid = PaidBy(a)'
      <4>1. PaidOn(a)' = PaidOn(a) /\ assignments' = assignments
        BY <2>1 DEF PaidOn, Tables
      <4>2. QED
        BY <1>2, <4>1, PaidByIsTotal DEF LedgerBalances
    <3>2. QED
      BY <3>1 DEF LedgerBalances
  <2>2. QED
    BY <1>2, <2>1, CommitBalances, AssignBalances, ResetBalances, TableSteps
<1>3. QED
  BY <1>1, <1>2, InitInv, NextInv, PTL DEF Spec

-----------------------------------------------------------------------------
(* Receipts and their numbers.                                             *)

(* The numbers of the payments recorded, and of those that edits and       *)
(* cancellations hold, are in N; those of collections that have stored a   *)
(* document are in M.                                                      *)
(* An edit or a cancellation has the number of the payment it works on. *)
HasNumberOf(s, stored) ==
    \/ stored[s.payment].status = "DELETED"
    \/ /\ stored[s.payment].status \in Recorded
       /\ stored[s.payment].receipt = s.pay.receipt

Known(pays, reqs, N, M) ==
    /\ \A p \in Payments : pays[p].status \in Recorded => pays[p].receipt \in N
    /\ \A r \in Requests :
          /\ reqs[r].op \in {"update", "cancel"} =>
                reqs[r].pay.receipt \in N /\ HasNumberOf(reqs[r], pays)
          /\ reqs[r].op = "collect" /\ reqs[r].step = "uploaded"
             => reqs[r].pay.receipt \in M

LEMMA KnownSession ==
    ASSUME TypeOK, NEW N, NEW M, NEW N2, NEW M2, N \subseteq N2, M \subseteq M2,
           Known(payments, requests, N, M), payments' = payments,
           NEW r \in Requests, NEW s, Begin(r, s),
           s.op \in {"update", "cancel"} => s.pay.receipt \in N2 /\ HasNumberOf(s, payments),
           s.op = "collect" /\ s.step = "uploaded" => s.pay.receipt \in M2
    PROVE  Known(payments', requests', N2, M2)
<1>1. \A q \in Requests : requests'[q] = IF q = r THEN s ELSE requests[q]
  BY DEF TypeOK, Begin
<1>2. QED
  BY <1>1 DEF Known, HasNumberOf

LEMMA KnownStart ==
    ASSUME TypeOK, NEW N, NEW M, NEW N2, NEW M2, N \subseteq N2, M \subseteq M2,
           Known(payments, requests, N, M), NEW r \in Requests,
           \/ Charge(r) /\ ~CommitAssign(r)
           \/ \E student \in Students, alloc \in [Assignment -> Amounts \cup {0}],
                 ref \in References \cup {None} : StartCollect(r, student, alloc, ref)
           \/ \E p \in Payments : FlushCollect(r, p) \/ StartRegenerate(r, p)
           \/ FinishRegenerate(r) \/ Abort(r)
    PROVE  Known(payments', requests', N2, M2)
<1>1. PICK s : /\ Begin(r, s) /\ payments' = payments
               /\ s.op \notin {"update", "cancel"} /\ s.step # "uploaded"
  <2>1. ASSUME NEW A, NEW discount, StartAssign(r, A, discount)
        PROVE  \E s : /\ Begin(r, s) /\ payments' = payments
                      /\ s.op \notin {"update", "cancel"} /\ s.step # "uploaded"
    <3> DEFINE rows == [a \in Assignment |->
                          IF a \in A THEN NewAssignment(a, discount) ELSE AbsentRow]
               s == [Idle EXCEPT !.op = "assign", !.step = "read", !.touched = A,
                        !.rows = rows]
    <3>1. Begin(r, s) /\ payments' = payments
      BY <2>1 DEF StartAssign
    <3> HIDE DEF rows
    <3>2. s.op = "assign" /\ s.step = "read"
      BY DEF Idle
    <3> HIDE DEF s
    <3>3. QED
      BY <3>1, <3>2
  <2>2. CASE Charge(r) /\ ~CommitAssign(r)
    BY <2>1, <2>2 DEF Charge, AssignFee, Propagate
  <2>3. ASSUME NEW student, NEW alloc, NEW ref, StartCollect(r, student, alloc, ref)
        PROVE  \E s : /\ Begin(r, s) /\ payments' = payments
                      /\ s.op \notin {"update", "cancel"} /\ s.step # "uploaded"
    <3> DEFINE A == {a \in Assignment : alloc[a] > 0}
               row(a) == WithLateFine(FeeOf(a), assignments[a])
               fined == {a \in A : row(a) # assignments[a]}
               rows == [a \in Assignment |-> IF a \in A THEN row(a) ELSE AbsentRow]
               pay == [AbsentPayment EXCEPT !.status = "COMPLETED", !.student = student,
                          !.ref = ref, !.alloc = alloc]
               s == [Idle EXCEPT !.op = "collect", !.step = "read", !.touched = A,
                        !.fined = fined, !.rows = rows, !.pay = pay]
    <3>1. Begin(r, s) /\ payments' = payments
      BY <2>3 DEF StartCollect
    <3> HIDE DEF A, fined, rows, pay
    <3>2. s.op = "collect" /\ s.step = "read"
      BY DEF Idle
    <3> HIDE DEF s
    <3>3. QED
      BY <3>1, <3>2
  <2>4. ASSUME NEW p \in Payments, FlushCollect(r, p)
        PROVE  \E s : /\ Begin(r, s) /\ payments' = payments
                      /\ s.op \notin {"update", "cancel"} /\ s.step # "uploaded"
    <3> DEFINE o == requests[r]
               rows == [a \in Assignment |->
                          IF a \in o.touched THEN Pay(o.rows[a], o.pay.alloc[a]) ELSE o.rows[a]]
               s == [o EXCEPT !.step = "flushed", !.payment = p, !.rows = rows]
    <3>1. o \in Session /\ o.op = "collect"
      BY <2>4 DEF FlushCollect, TypeOK
    <3>2. Begin(r, s) /\ payments' = payments
      BY <2>4 DEF FlushCollect
    <3> HIDE DEF o, rows
    <3>3. s.op = "collect" /\ s.step = "flushed"
      BY <3>1 DEF Session
    <3>4. QED
      BY <3>2, <3>3
  <2>5. ASSUME NEW p \in Payments, StartRegenerate(r, p)
        PROVE  \E s : /\ Begin(r, s) /\ payments' = payments
                      /\ s.op \notin {"update", "cancel"} /\ s.step # "uploaded"
    <3> DEFINE s == [Idle EXCEPT !.op = "regenerate", !.step = "committed",
                        !.payment = p, !.pay = payments[p]]
    <3>1. Begin(r, s) /\ payments' = payments
      BY <2>5 DEF StartRegenerate
    <3>2. s.op = "regenerate" /\ s.step = "committed"
      BY DEF Idle
    <3> HIDE DEF s
    <3>3. QED
      BY <3>1, <3>2
  <2>6. CASE FinishRegenerate(r) \/ Abort(r)
    BY <2>6 DEF FinishRegenerate, Abort, End, Idle
  <2>7. QED
    BY <2>2, <2>3, <2>4, <2>5, <2>6
<1>2. QED
  BY <1>1, KnownSession

(* Edits and cancellations find the number in the row that they read. *)
LEMMA KnownRead ==
    ASSUME TypeOK, NEW N, NEW M, NEW N2, NEW M2, N \subseteq N2, M \subseteq M2,
           Known(payments, requests, N, M), NEW r \in Requests, NEW p \in Payments,
           \/ StartCancel(r, p)
           \/ \E amount \in Amounts, ref \in References \cup {None} :
                 StartUpdate(r, p, amount, ref)
    PROVE  Known(payments', requests', N2, M2)
<1>1. payments[p] \in PaymentRow
  BY DEF TypeOK
<1>2. payments[p].status = "COMPLETED" => payments[p].receipt \in N
  BY DEF Known, Recorded
<1>3. CASE StartCancel(r, p)
  <2> DEFINE pay == [payments[p] EXCEPT !.status = "CANCELLED"]
             rows == [a \in Assignment |->
                        IF a \in Allocated(payments[p])
                        THEN Revert(assignments[a], payments[p].alloc[a]) ELSE AbsentRow]
             s == [Idle EXCEPT !.op = "cancel", !.step = "read",
                      !.touched = Allocated(payments[p]), !.payment = p,
                      !.rows = rows, !.pay = pay]
  <2>1. Begin(r, s) /\ payments' = payments /\ payments[p].status = "COMPLETED"
    BY <1>3 DEF StartCancel
  <2>2. pay.receipt = payments[p].receipt
    BY <1>1 DEF PaymentRow
  <2> HIDE DEF rows, pay
  <2>3. s.op = "cancel" /\ s.pay = pay /\ s.payment = p
    BY DEF Idle
  <2> HIDE DEF s
  <2>4. HasNumberOf(s, payments)
    BY <2>1, <2>2, <2>3 DEF HasNumberOf, Recorded
  <2>5. QED
    BY <1>2, <2>1, <2>2, <2>3, <2>4, KnownSession
<1>4. ASSUME NEW amount, NEW ref, StartUpdate(r, p, amount, ref)
      PROVE  Known(payments', requests', N2, M2)
  <2> DEFINE A == {a \in Assignment : /\ Allocated(payments[p]) = {a}
                                      /\ payments[p].alloc[a] # amount}
             alloc == [a \in Assignment |-> IF a \in A THEN amount ELSE payments[p].alloc[a]]
             pay == [payments[p] EXCEPT !.ref = IF ref = None THEN @ ELSE Trim[ref],
                                        !.alloc = alloc]
             rows == [a \in Assignment |->
                        IF a \in A THEN Pay(assignments[a], amount - payments[p].alloc[a])
                        ELSE AbsentRow]
             s == [Idle EXCEPT !.op = "update", !.step = "read", !.touched = A,
                      !.payment = p, !.rows = rows, !.pay = pay]
  <2>1. Begin(r, s) /\ payments' = payments /\ payments[p].status = "COMPLETED"
    BY <1>4 DEF StartUpdate
  <2>2. pay.receipt = payments[p].receipt
    BY <1>1 DEF PaymentRow
  <2> HIDE DEF A, rows, pay
  <2>3. s.op = "update" /\ s.pay = pay /\ s.payment = p
    BY DEF Idle
  <2> HIDE DEF s
  <2>4. HasNumberOf(s, payments)
    BY <2>1, <2>2, <2>3 DEF HasNumberOf, Recorded
  <2>5. QED
    BY <1>2, <2>1, <2>2, <2>3, <2>4, KnownSession
<1>5. QED
  BY <1>3, <1>4

LEMMA KnownUpload ==
    ASSUME TypeOK, NEW N, NEW M, NEW N2, NEW M2, N \subseteq N2, M \subseteq M2,
           Known(payments, requests, N, M), NEW r \in Requests, UploadReceipt(r),
           NextReceiptNumber \in M2
    PROVE  Known(payments', requests', N2, M2)
<1> DEFINE n == NextReceiptNumber
           o == requests[r]
           s == [o EXCEPT !.step = "uploaded", !.pay.receipt = n]
<1>1. /\ Begin(r, s) /\ payments' = payments /\ o.op = "collect"
      /\ o \in Session /\ o.pay \in PaymentRow
  BY DEF UploadReceipt, TypeOK, Session
<1> HIDE DEF n, o
<1>2. s.op = "collect" /\ s.pay = [o.pay EXCEPT !.receipt = n]
  BY <1>1 DEF Session
<1>3. s.pay.receipt = n
  BY <1>1, <1>2 DEF PaymentRow
<1> HIDE DEF s
<1>4. QED
  BY <1>1, <1>2, <1>3, KnownSession DEF n

LEMMA TargetIsPayment ==
    ASSUME Inv, NEW r \in Requests, requests[r].op \in {"update", "cancel"}
    PROVE  requests[r].payment \in Payments
<1>1. requests[r] \in Session
  BY DEF Inv, TypeOK
<1>2. SessionSound(requests[r], Target(requests[r], payments))
  BY DEF Inv, LedgerInvariant
<1>3. QED
  BY <1>1, <1>2 DEF Session, SessionSound

LEMMA KnownCommit ==
    ASSUME Inv, NEW N, NEW M, NEW N2, NEW M2, N \subseteq N2, M \subseteq M2,
           Known(payments, requests, N, M), NEW r \in Requests,
           \/ CommitCollect(r) /\ M \subseteq N2
           \/ CommitUpdate(r) \/ CommitCancel(r)
    PROVE  Known(payments', requests', N2, M2)
<1> DEFINE o == requests[r]
           p == o.payment
<1>1. /\ o \in Session /\ o.pay \in PaymentRow /\ payments' = WrittenPayment(o)
      /\ payments \in [Payments -> PaymentRow] /\ requests \in [Requests -> Session]
  BY DEF CommitCollect, CommitUpdate, CommitCancel, Inv, TypeOK, Session
<1>2. o.pay.receipt \in N2
  BY DEF CommitCollect, CommitUpdate, CommitCancel, Known
<1>3. \/ requests' = [requests EXCEPT ![r] = Idle]
      \/ o.op = "update" /\ requests' = [requests EXCEPT ![r] = [o EXCEPT !.step = "committed"]]
  BY DEF CommitCollect, CommitUpdate, CommitCancel, End, Begin
<1> HIDE DEF o
<1>4. [o.pay EXCEPT !.version = @ + 1].receipt = o.pay.receipt
  BY <1>1 DEF PaymentRow
<1>5. \A q \in Payments : payments'[q].receipt \in {o.pay.receipt, payments[q].receipt}
      /\ (payments'[q].receipt # o.pay.receipt => payments'[q] = payments[q])
  BY <1>1, <1>4 DEF WrittenPayment
<1>6. \A q \in Payments : payments'[q].status \in Recorded => payments'[q].receipt \in N2
  BY <1>2, <1>5 DEF Known
<1>7. /\ [o EXCEPT !.step = "committed"].op = o.op
      /\ [o EXCEPT !.step = "committed"].pay = o.pay
      /\ [o EXCEPT !.step = "committed"].payment = p
  BY <1>1 DEF Session
<1>8. \A q \in Requests : \/ requests'[q] = requests[q]
                          \/ requests'[q] = Idle
                          \/ /\ requests'[q].op = "update" /\ requests'[q].pay = o.pay
                             /\ requests'[q].payment = p
  BY <1>1, <1>3, <1>7
<1>9. Idle.op = "idle"
  BY DEF Idle
<1>10. /\ p \in Payments /\ payments'[p].status \in Recorded
       /\ payments'[p].receipt = o.pay.receipt
       /\ \A q \in Payments \ {p} : payments'[q] = payments[q]
       /\ \/ o.op = "collect" /\ payments[p].status = "ABSENT"
          \/ payments[p].status \in Recorded /\ payments[p].receipt = o.pay.receipt
  <2>1. Committed(o) /\ o.op \in {"collect", "update", "cancel"}
    BY CommitsEffect DEF o
  <2>2. payments'[p].receipt = o.pay.receipt
    BY <1>1, <1>4, <2>1 DEF WrittenPayment, Committed
  <2>3. o.op # "collect" => payments[p].receipt = o.pay.receipt
    BY <2>1 DEF Known, HasNumberOf, Committed, o
  <2>4. QED
    BY <2>1, <2>2, <2>3 DEF Committed, Recorded
<1>11. ASSUME NEW q \in Requests, requests'[q].op \in {"update", "cancel"}
       PROVE  requests'[q].pay.receipt \in N2 /\ HasNumberOf(requests'[q], payments')
  <2>1. CASE requests'[q] = requests[q]
    <3>1. /\ requests[q].pay.receipt \in N2 /\ HasNumberOf(requests[q], payments)
      BY <1>11, <2>1 DEF Known
    <3>2. CASE requests[q].payment = p
      BY <1>10, <2>1, <3>1, <3>2 DEF HasNumberOf, Recorded
    <3>3. CASE requests[q].payment # p
      <4>1. Inv /\ requests[q].op \in {"update", "cancel"}
        BY <1>11, <2>1
      <4>2. requests[q].payment \in Payments
        BY <4>1, TargetIsPayment
      <4>3. QED
        BY <1>10, <2>1, <3>1, <3>3, <4>2 DEF HasNumberOf
    <3>4. QED
      BY <3>2, <3>3
  <2>2. CASE requests'[q].pay = o.pay /\ requests'[q].payment = p
    BY <1>2, <1>10, <2>2 DEF HasNumberOf
  <2>3. QED
    BY <1>8, <1>9, <1>11, <2>1, <2>2
<1>12. QED
  BY <1>6, <1>8, <1>9, <1>11 DEF Known

LEMMA KnownNext ==
    ASSUME Inv, [Next]_vars, NEW N, NEW M, NEW N2, NEW M2, N \subseteq N2, M \subseteq M2,
           Known(payments, requests, N, M),
           \A r \in Requests : /\ UploadReceipt(r) => NextReceiptNumber \in M2
                               /\ CommitCollect(r) => M \subseteq N2
    PROVE  Known(payments', requests', N2, M2)
<1>1. TypeOK
  BY DEF Inv
<1>2. ASSUME NEW r \in Requests, CommitAssign(r)
      PROVE  Known(payments', requests', N2, M2)
  <2>1. Begin(r, Idle) /\ payments' = payments /\ Idle.op = "idle"
    BY <1>2 DEF CommitAssign, End, Idle
  <2>2. QED
    BY <1>1, <2>1, KnownSession
<1>3. ASSUME NEW r \in Requests, Charge(r) \/ Abort(r)
      PROVE  Known(payments', requests', N2, M2)
  BY <1>1, <1>2, <1>3, KnownStart
<1>4. ASSUME NEW r \in Requests, Collect(r)
      PROVE  Known(payments', requests', N2, M2)
  BY <1>1, <1>4, KnownStart, KnownUpload, KnownCommit DEF Collect
<1>5. ASSUME NEW r \in Requests, Edit(r) \/ Reverse(r)
      PROVE  Known(payments', requests', N2, M2)
  BY <1>1, <1>5, KnownStart, KnownRead, KnownCommit DEF Edit, Reverse
<1>6. ASSUME NEW S \in Resets, ResetSchool(S)
      PROVE  Known(payments', requests', N2, M2)
  <2>1. \A p \in Payments : payments'[p] = payments[p] \/ payments'[p].status = "DELETED"
    BY <1>6 DEF ResetSchool, AbsentPayment
  <2>2. requests' = requests /\ "DELETED" \notin Recorded
    BY <1>6 DEF ResetSchool, Recorded
  <2>3. ASSUME NEW r \in Requests, requests[r].op \in {"update", "cancel"}
        PROVE  HasNumberOf(requests[r], payments')
    <3>1. requests[r].payment \in Payments
      BY <2>3, TargetIsPayment
    <3>2. HasNumberOf(requests[r], payments)
      BY <2>3 DEF Known
    <3>3. QED
      BY <2>1, <3>1, <3>2 DEF HasNumberOf
  <2>4. QED
    BY <2>1, <2>2, <2>3 DEF Known
<1>7. CASE NextDay \/ UNCHANGED vars
  BY <1>7 DEF NextDay, vars, Known, HasNumberOf
<1>8. QED
  BY <1>3, <1>4, <1>5, <1>6, <1>7 DEF Next

(* Documents are replaced, never removed. *)
LEMMA DocumentsStay ==
    ASSUME [Next]_vars
    PROVE  DOMAIN documents \subseteq DOMAIN documents'
<1>1. \A n, p, pay : Upload(n, p, pay) => DOMAIN documents \subseteq DOMAIN documents'
  BY DEF Upload
<1>2. ASSUME NEW r \in Requests, UploadReceipt(r) \/ FinishRegenerate(r)
      PROVE  DOMAIN documents \subseteq DOMAIN documents'
  BY <1>1, <1>2 DEF UploadReceipt, FinishRegenerate
<1>3. ASSUME NEW r \in Requests, Charge(r) \/ Abort(r)
      PROVE  documents' = documents
  BY <1>3 DEF Charge, AssignFee, Propagate, StartAssign, CommitAssign, Abort
<1>4. ASSUME NEW r \in Requests, Collect(r) \/ Edit(r) \/ Reverse(r)
      PROVE  DOMAIN documents \subseteq DOMAIN documents'
  BY <1>2, <1>4 DEF Collect, Edit, Reverse, StartCollect, FlushCollect, CommitCollect,
     StartUpdate, CommitUpdate, StartRegenerate, StartCancel, CommitCancel
<1>5. ASSUME NEW S \in Resets, ResetSchool(S)
      PROVE  documents' = documents
  BY <1>5 DEF ResetSchool
<1>6. NextDay \/ UNCHANGED vars => documents' = documents
  BY DEF NextDay, vars
<1>7. QED
  BY <1>3, <1>4, <1>5, <1>6 DEF Next

(* No committed receipt points at a document that was never stored.        *)
THEOREM EveryReceiptIsStored == Spec => []ReceiptIsStored
<1> DEFINE Stored == Known(payments, requests, DOMAIN documents, DOMAIN documents)
<1>1. ASSUME Init PROVE Stored
  BY <1>1 DEF Init, Known, AbsentPayment, Idle, Recorded
<1>2. ASSUME Inv, Stored, [Next]_vars PROVE Stored'
  <2>1. DOMAIN documents \subseteq DOMAIN documents'
    BY <1>2, DocumentsStay
  <2>2. \A r \in Requests : UploadReceipt(r) => NextReceiptNumber \in DOMAIN documents'
    BY DEF UploadReceipt, Upload
  <2>3. Known(payments', requests', DOMAIN documents', DOMAIN documents')
    BY <1>2, <2>1, <2>2, KnownNext
  <2>4. QED
    BY <2>3
<1>3. Stored => ReceiptIsStored
  BY DEF Known, ReceiptIsStored, ReceiptRows
<1> HIDE DEF Stored
<1>4. QED
  BY <1>1, <1>2, <1>3, InitInv, NextInv, PTL DEF Spec

Intact == \A p \in Payments : payments[p].status # "DELETED"

(* A reset that leaves every payment changes none. *)
LEMMA IntactSteps ==
    ASSUME Inv, [Next]_vars, Intact'
    PROVE  /\ Intact
           /\ payments' = payments \/ \E r \in Requests :
                 CommitCollect(r) \/ CommitUpdate(r) \/ CommitCancel(r)
<1>1. ASSUME NEW S, ResetSchool(S)
      PROVE  payments' = payments
  <2>1. \A p \in Payments : payments'[p] = payments[p] \/ payments'[p].status = "DELETED"
    BY <1>1 DEF ResetSchool, AbsentPayment
  <2>2. \A p \in Payments : payments'[p] = payments[p]
    BY <2>1 DEF Intact
  <2>3. payments' = [p \in Payments |-> payments'[p]] /\ payments = [p \in Payments |-> payments[p]]
    BY <1>1 DEF ResetSchool, Inv, TypeOK
  <2>4. QED
    BY <2>2, <2>3
<1>2. payments' = payments \/ \E r \in Requests :
         CommitCollect(r) \/ CommitUpdate(r) \/ CommitCancel(r)
  BY <1>1, TableSteps DEF Tables, CommitAssign
<1>3. ASSUME NEW r \in Requests, CommitCollect(r) \/ CommitUpdate(r) \/ CommitCancel(r)
      PROVE  Intact
  <2>1. Committed(requests[r]) /\ requests[r].op \in {"collect", "update", "cancel"}
    BY <1>3, CommitsEffect
  <2>2. QED
    BY <2>1 DEF Committed, Intact
<1>4. QED
  BY <1>2, <1>3 DEF Intact

(* As long as none is deleted, receipts are only added, one by each         *)
(* collection.                                                              *)
LEMMA ReceiptsGrow ==
    ASSUME Inv, Intact', [Next]_vars
    PROVE  /\ Cardinality(ReceiptRows) \in Nat /\ Cardinality(ReceiptRows)' \in Nat
           /\ Cardinality(ReceiptRows)' >= Cardinality(ReceiptRows)
           /\ \A r \in Requests :
                 CommitCollect(r) => Cardinality(ReceiptRows)' = Cardinality(ReceiptRows) + 1
<1>1. /\ IsFiniteSet(ReceiptRows) /\ Cardinality(ReceiptRows) \in Nat
      /\ Cardinality(ReceiptRows)' \in Nat
  <2>1. IsFiniteSet(ReceiptRows) /\ IsFiniteSet(ReceiptRows')
    BY InputAssumption, FS_Subset DEF ReceiptRows
  <2>2. Cardinality(ReceiptRows') \in Nat
    BY <2>1, FS_CardinalityType
  <2>3. QED
    BY <2>1, <2>2, FS_CardinalityType
<1>2. ASSUME NEW r \in Requests, CommitCollect(r)
      PROVE  Cardinality(ReceiptRows)' = Cardinality(ReceiptRows) + 1
  <2> DEFINE s == requests[r]
             p == s.payment
  <2>1. Committed(s) /\ s.op = "collect"
    BY <1>2, CommitsEffect
  <2>2. /\ p \in Payments /\ payments[p].status = "ABSENT" /\ payments'[p].status = "COMPLETED"
        /\ \A q \in Payments \ {p} : payments'[q] = payments[q]
    BY <2>1 DEF Committed
  <2> HIDE DEF p
  <2>3. ReceiptRows' = ReceiptRows \cup {p} /\ p \notin ReceiptRows
    BY <2>2 DEF ReceiptRows, Recorded
  <2>4. Cardinality(ReceiptRows \cup {p}) = Cardinality(ReceiptRows) + 1
    BY <1>1, <2>3, FS_AddElement
  <2>5. QED
    BY <2>3, <2>4
<1>3. ASSUME NEW r \in Requests, CommitUpdate(r) \/ CommitCancel(r)
      PROVE  ReceiptRows' = ReceiptRows
  <2> DEFINE s == requests[r]
             p == s.payment
  <2>1. Committed(s) /\ s.op \in {"update", "cancel"}
    BY <1>3, CommitsEffect
  <2>2. /\ p \in Payments /\ payments[p].status \in Recorded /\ payments'[p].status \in Recorded
        /\ \A q \in Payments \ {p} : payments'[q] = payments[q]
    BY <2>1 DEF Committed, Recorded
  <2> HIDE DEF p
  <2>3. QED
    BY <2>2 DEF ReceiptRows
<1>4. ASSUME payments' = payments PROVE ReceiptRows' = ReceiptRows
  BY <1>4 DEF ReceiptRows
<1>5. ReceiptRows' = ReceiptRows => Cardinality(ReceiptRows)' = Cardinality(ReceiptRows)
  OBVIOUS
<1>6. ReceiptRows' = ReceiptRows \/ \E r \in Requests : CommitCollect(r)
  BY <1>3, <1>4, IntactSteps
<1>7. QED
  BY <1>1, <1>2, <1>5, <1>6

Distinct ==
    \A p, q \in ReceiptRows : payments[p].receipt = payments[q].receipt => p = q

(* A commit finds its number free, or keeps the one the payment has. *)
LEMMA NumbersStayDistinct ==
    ASSUME Inv, Distinct, NEW N, NEW M, Known(payments, requests, N, M), [Next]_vars
    PROVE  Distinct'
<1>1. ASSUME NEW r \in Requests, CommitCollect(r) \/ CommitUpdate(r) \/ CommitCancel(r)
      PROVE  Distinct'
  <2> DEFINE s == requests[r]
             p == s.payment
  <2>1. /\ Committed(s)
        /\ (s.op = "collect" /\ CommitCollect(r)) \/ s.op \in {"update", "cancel"}
    BY <1>1, CommitsEffect
  <2>2. /\ p \in Payments /\ payments'[p].status \in Recorded
        /\ \A q \in Payments \ {p} : payments'[q] = payments[q]
    BY <2>1 DEF Committed, Recorded
  <2>3. payments'[p].receipt = s.pay.receipt
    <3>1. s.pay \in PaymentRow /\ payments \in [Payments -> PaymentRow]
      BY DEF Inv, TypeOK, Session
    <3>2. payments' = WrittenPayment(s)
      BY <1>1 DEF CommitCollect, CommitUpdate, CommitCancel
    <3>3. [s.pay EXCEPT !.version = @ + 1].receipt = s.pay.receipt
      BY <3>1 DEF PaymentRow
    <3> HIDE DEF s
    <3>4. QED
      BY <2>2, <3>1, <3>2, <3>3 DEF WrittenPayment
  <2>4. \A q \in ReceiptRows \ {p} : payments[q].receipt # s.pay.receipt
    <3>1. CASE s.op = "collect" /\ CommitCollect(r)
      BY <3>1 DEF CommitCollect, NumberIsFree, UsedNumbers
    <3>2. CASE s.op \in {"update", "cancel"}
      <4>1. payments[p].status \in Recorded /\ payments[p].receipt = s.pay.receipt
        BY <2>1, <3>2 DEF Committed, Known, HasNumberOf
      <4>2. QED
        BY <2>2, <4>1 DEF Distinct, ReceiptRows
    <3>3. QED
      BY <2>1, <3>1, <3>2
  <2> HIDE DEF s, p
  <2>5. QED
    BY <2>2, <2>3, <2>4 DEF Distinct, ReceiptRows
<1>2. ASSUME NEW S, ResetSchool(S)
      PROVE  Distinct'
  <2>1. \A p \in Payments : payments'[p] = payments[p] \/ payments'[p].status = "DELETED"
    BY <1>2 DEF ResetSchool, AbsentPayment
  <2>2. "DELETED" \notin Recorded
    BY DEF Recorded
  <2>3. QED
    BY <2>1, <2>2 DEF Distinct, ReceiptRows
<1>3. payments' = payments => Distinct'
  BY DEF Distinct, ReceiptRows
<1>4. QED
  BY <1>1, <1>2, <1>3, TableSteps DEF Tables, CommitAssign

(* As many different numbers as there are, up to their count, are all. *)
LEMMA NumbersFill ==
    ASSUME Distinct, \A p \in ReceiptRows : payments[p].receipt \in 1 .. Cardinality(ReceiptRows)
    PROVE  UsedNumbers = 1 .. (NextReceiptNumber - 1)
<1> DEFINE n == Cardinality(ReceiptRows)
           number == [p \in ReceiptRows |-> payments[p].receipt]
<1>1. IsFiniteSet(ReceiptRows) /\ n \in Nat
  BY InputAssumption, FS_Subset, FS_CardinalityType DEF ReceiptRows
<1>2. NextReceiptNumber - 1 = n
  BY <1>1 DEF NextReceiptNumber
<1>3. number \in Injection(ReceiptRows, 1 .. n)
  BY DEF Distinct, Injection, IsInjective
<1> HIDE DEF n
<1>4. IsFiniteSet(1 .. n) /\ Cardinality(1 .. n) = n
  BY <1>1, FS_Interval
<1>5. number \in Surjection(ReceiptRows, 1 .. n)
  BY <1>3, <1>4, FS_Injection DEF n
<1>6. 1 .. n = {number[p] : p \in ReceiptRows}
  BY <1>5 DEF Surjection
<1>7. QED
  BY <1>2, <1>6 DEF UsedNumbers

(* No two receipts have one number, though overlapping collections count    *)
(* the same receipts (get_next_receipt_number); and as long as no receipt   *)
(* was deleted, the numbers run without a gap, so that the number of the    *)
(* next collection is not taken.  A reset lowers the count and leaves the   *)
(* numbers.                                                                 *)
THEOREM ReceiptNumbersHold == Spec => []ReceiptsAreNumbered
<1> DEFINE n == Cardinality(ReceiptRows)
           Any == Known(payments, requests, Nat, Nat)
           Numbered == Intact => Known(payments, requests, 1 .. n, 1 .. (n + 1))
           All == Any /\ Numbered /\ Distinct
<1>1. ASSUME Init PROVE All
  BY <1>1 DEF Init, Known, AbsentPayment, Idle, Recorded, Distinct, ReceiptRows
<1>2. ASSUME Inv, All, [Next]_vars PROVE All'
  <2>1. Any'
    <3>1. NextReceiptNumber \in Nat
      BY InputAssumption, FS_Subset, FS_CardinalityType DEF NextReceiptNumber, ReceiptRows
    <3>2. Known(payments', requests', Nat, Nat)
      BY <1>2, <3>1, KnownNext
    <3>3. QED
      BY <3>2
  <2>2. ASSUME Intact' PROVE Known(payments', requests', 1 .. n', 1 .. (n' + 1))
    <3>1. PICK m \in Nat, k \in Nat :
            /\ m = n /\ k = n' /\ k >= m
            /\ \A r \in Requests : CommitCollect(r) => k = m + 1
      BY <1>2, <2>2, ReceiptsGrow
    <3>2. NextReceiptNumber = m + 1 /\ Known(payments, requests, 1 .. m, 1 .. (m + 1))
      BY <1>2, <2>2, <3>1, IntactSteps DEF NextReceiptNumber
    <3>3. 1 .. m \subseteq 1 .. k /\ 1 .. (m + 1) \subseteq 1 .. (k + 1) /\ m + 1 \in 1 .. (k + 1)
      <4>1. m \in Nat /\ k \in Nat /\ k >= m
        BY <3>1
      <4>2. QED
        BY <4>1
    <3>4. \A r \in Requests : CommitCollect(r) => 1 .. (m + 1) \subseteq 1 .. k
      BY <3>1
    <3>5. Known(payments', requests', 1 .. k, 1 .. (k + 1))
      BY <1>2, <3>2, <3>3, <3>4, KnownNext
    <3>6. QED
      BY <3>1, <3>5
  <2>3. Distinct'
    BY <1>2, NumbersStayDistinct
  <2>4. QED
    BY <2>1, <2>2, <2>3
<1>3. All => ReceiptsAreNumbered
  <2>1. ASSUME All, Intact PROVE \A p \in ReceiptRows : payments[p].receipt \in 1 .. n
    BY <2>1 DEF Known, ReceiptRows
  <2> HIDE DEF n
  <2>2. QED
    BY <2>1, NumbersFill DEF ReceiptsAreNumbered, Distinct, Intact, n
<1> HIDE DEF All
<1>4. QED
  BY <1>1, <1>2, <1>3, InitInv, NextInv, PTL DEF Spec

-----------------------------------------------------------------------------
(* The ledger keeps the books.                                              *)

BookAccounts == [a \in Assignment |-> AccountOf(assignments[a])]
BookEntries == [p \in Payments |-> EntryOf(payments[p])]

LEMMA BooksInit == Init => Books!Init
<1> SUFFICES ASSUME Init PROVE Books!Init
  OBVIOUS
<1>1. AccountOf(AbsentRow) = Books!NoAccount
  BY DEF AccountOf, BookState, AbsentRow, Due, Books!NoAccount
<1>2. EntryOf(AbsentPayment) = Books!NoPayment
  BY DEF EntryOf, BookState, AbsentPayment, NoAllocation, Books!NoPayment
<1>3. QED
  BY <1>1, <1>2 DEF Init, Books!Init

LEMMA BooksOpen ==
    ASSUME Inv, NEW r \in Requests, CommitAssign(r) PROVE Books!Open
<1> DEFINE s == requests[r]
<1>1. /\ s \in Session /\ s.op = "assign" /\ payments' = payments
      /\ \A a \in s.touched : assignments[a].status = "ABSENT"
      /\ assignments' = WrittenRows(s)
  BY SessionType DEF CommitAssign
<1>2. \A a \in s.touched : /\ a \in Assignment /\ s.rows[a] \in AssignmentRow
                           /\ s.rows[a].status = "UNPAID"
                           /\ s.rows[a].paid = 0 /\ Due(s.rows[a]) >= 0
  BY <1>1, SessionType DEF SessionSound, Session
<1>3. \A a \in Assignment :
        assignments'[a] = IF a \in s.touched
                          THEN [s.rows[a] EXCEPT !.version = @ + 1] ELSE assignments[a]
  BY <1>1, WrittenTyped DEF Inv
<1> HIDE DEF s
<1>4. \A a \in s.touched : /\ assignments'[a].status = "UNPAID" /\ assignments'[a].paid = 0
                           /\ Due(assignments'[a]) >= 0
  <2> TAKE a \in s.touched
  <2>1. assignments'[a] = [s.rows[a] EXCEPT !.version = @ + 1]
    BY <1>2, <1>3
  <2>2. QED
    BY <1>2, <2>1, Bumped DEF Due
<1>5. \A a \in s.touched : /\ BookAccounts[a].state = "none" /\ BookAccounts'[a].state = "open"
                           /\ BookAccounts'[a].due >= 0 /\ BookAccounts'[a].paid = 0
  BY <1>1, <1>2, <1>4 DEF BookAccounts, AccountOf, BookState
<1>6. \A a \in Assignment \ s.touched : BookAccounts'[a] = BookAccounts[a]
  BY <1>3 DEF BookAccounts
<1>7. DOMAIN BookAccounts' = Assignment /\ s.touched \in SUBSET Assignment /\ UNCHANGED BookEntries
  BY <1>1, <1>2 DEF BookAccounts, BookEntries
<1>8. QED
  BY <1>5, <1>6, <1>7 DEF Books!Open, Books!OnlyAccounts, BookAccounts, BookEntries

LEMMA OpenAccount ==
    ASSUME NEW row, row.status \in Live
    PROVE  /\ AccountOf(row).state = "open" /\ AccountOf(row).due = Due(row)
           /\ AccountOf(row).paid = row.paid
<1>1. BookState(row.status, "open") = "open"
  BY DEF BookState, Live
<1>2. QED
  BY <1>1 DEF AccountOf

LEMMA SameAccount ==
    ASSUME NEW row, NEW old, row.status \in Live, old.status \in Live,
           AccountOf(row).due = AccountOf(old).due, AccountOf(row).paid = AccountOf(old).paid
    PROVE  AccountOf(row) = AccountOf(old)
<1>1. BookState(row.status, "open") = "open" /\ BookState(old.status, "open") = "open"
  BY DEF BookState, Live
<1>2. Due(row) = Due(old) /\ row.paid = old.paid
  BY OpenAccount
<1>3. QED
  BY <1>1, <1>2 DEF AccountOf

LEMMA EntryFields ==
    ASSUME NEW pay
    PROVE  /\ EntryOf(pay).alloc = pay.alloc
           /\ pay.status \in Recorded => EntryOf(pay).state = pay.status
<1>1. pay.status \in Recorded => BookState(pay.status, pay.status) = pay.status
  BY DEF BookState, Recorded
<1>2. QED
  BY <1>1 DEF EntryOf

(* What a commit did, in the words of the books. *)
LEMMA BooksCommit ==
    ASSUME NEW s, Committed(s), NEW p, p = s.payment
    PROVE  /\ p \in Payments /\ Books!OnlyPayment(p)
           /\ BookEntries'[p].state = BookState(s.pay.status, s.pay.status)
           /\ BookEntries'[p].alloc = s.pay.alloc /\ BookEntries[p].alloc = payments[p].alloc
           /\ DOMAIN BookAccounts' = Assignment
           /\ \A a \in Assignment \ s.touched : BookAccounts'[a] = BookAccounts[a]
           /\ \A a \in s.touched :
                /\ BookAccounts[a].state = "open" /\ BookAccounts'[a].state = "open"
                /\ BookAccounts[a].due = Due(assignments[a]) /\ BookAccounts'[a].due = Due(assignments'[a])
                /\ BookAccounts[a].paid = assignments[a].paid /\ BookAccounts'[a].paid = assignments'[a].paid
                /\ Due(assignments'[a]) \in Int /\ assignments[a].paid \in Int
                /\ BookAccounts'[a].paid <= BookAccounts'[a].due
                /\ BookAccounts'[a].paid = BookAccounts[a].paid + Added(s, payments[p], a)
                /\ IF s.op = "collect" THEN BookAccounts'[a].due >= BookAccounts[a].due ELSE BookAccounts'[a].due = BookAccounts[a].due
<1>1. /\ p \in Payments /\ \A q \in Payments \ {p} : payments'[q] = payments[q]
      /\ payments'[p].status = s.pay.status /\ payments'[p].alloc = s.pay.alloc
      /\ s.touched \subseteq Assignment
      /\ \A a \in Assignment \ s.touched : assignments'[a] = assignments[a]
  BY DEF Committed
<1>2. Books!OnlyPayment(p)
  BY <1>1 DEF Books!OnlyPayment
<1>3. /\ BookEntries'[p].state = BookState(s.pay.status, s.pay.status)
      /\ BookEntries'[p].alloc = s.pay.alloc /\ BookEntries[p].alloc = payments[p].alloc
  BY <1>1 DEF BookEntries, EntryOf
<1>4. DOMAIN BookAccounts' = Assignment /\ \A a \in Assignment \ s.touched : BookAccounts'[a] = BookAccounts[a]
  BY <1>1 DEF BookAccounts
<1>5. \A a \in s.touched :
        /\ BookAccounts[a] = AccountOf(assignments[a]) /\ BookAccounts'[a] = AccountOf(assignments'[a])
        /\ assignments[a].status \in Live /\ assignments'[a].status \in Live
  BY <1>1 DEF BookAccounts, Committed
<1>6. \A a \in s.touched :
        /\ BookAccounts[a].state = "open" /\ BookAccounts'[a].state = "open"
        /\ BookAccounts[a].due = Due(assignments[a]) /\ BookAccounts'[a].due = Due(assignments'[a])
        /\ BookAccounts[a].paid = assignments[a].paid /\ BookAccounts'[a].paid = assignments'[a].paid
  BY <1>5, OpenAccount
<1>7. QED
  BY <1>1, <1>2, <1>3, <1>4, <1>6 DEF Committed

LEMMA BooksReceive ==
    ASSUME NEW s, Committed(s), s.op = "collect", s.step # "read" PROVE Books!Receive(s.payment)
<1> DEFINE p == s.payment
<1>1. /\ payments[p].status = "ABSENT" /\ payments[p].alloc = NoAllocation
      /\ s.pay.status = "COMPLETED" /\ s.touched = Allocated(s.pay) /\ p \in Payments
      /\ s.pay.alloc \in [Assignment -> Nat]
  BY DEF Committed
<1>2. BookEntries[p] = Books!NoPayment
  BY <1>1 DEF BookEntries, EntryOf, BookState, NoAllocation, Books!NoPayment
<1>3. BookEntries'[p].state = "COMPLETED" /\ BookEntries'[p].alloc = s.pay.alloc
  BY <1>1, BooksCommit DEF BookState
<1>4. {a \in Assignment : BookEntries'[p].alloc[a] > 0} = s.touched
  BY <1>1, <1>3 DEF Allocated
<1>5. \A a \in s.touched : Added(s, payments[p], a) = BookEntries'[p].alloc[a]
  BY <1>3 DEF Added
<1>6. Books!OnlyAccounts(s.touched)
  BY BooksCommit DEF Books!OnlyAccounts, BookAccounts
<1>7. \A a \in s.touched : /\ BookAccounts[a].state = "open" /\ BookAccounts'[a].state = "open"
                           /\ BookAccounts'[a].due >= BookAccounts[a].due
                           /\ BookAccounts'[a].paid = BookAccounts[a].paid + BookEntries'[p].alloc[a]
                           /\ BookAccounts'[a].paid <= BookAccounts'[a].due
  BY <1>5, BooksCommit
<1>8. Books!OnlyPayment(p)
  BY BooksCommit
<1>9. QED
  BY <1>2, <1>3, <1>4, <1>6, <1>7, <1>8 DEF Books!Receive, BookAccounts, BookEntries

LEMMA BooksAdjust ==
    ASSUME NEW s, Committed(s), s.op = "update" PROVE Books!Adjust(s.payment)
<1> DEFINE p == s.payment
           A == {a \in Assignment : BookEntries'[p].alloc[a] # BookEntries[p].alloc[a]}
<1>1. /\ payments[p].status = "COMPLETED" /\ s.pay.status = "COMPLETED"
      /\ s.touched \subseteq Allocated(s.pay) /\ p \in Payments
      /\ \A a \in Assignment \ s.touched : s.pay.alloc[a] = payments[p].alloc[a]
      /\ \A a \in s.touched : payments[p].alloc[a] > 0
      /\ s.pay.alloc \in [Assignment -> Nat] /\ payments[p].alloc \in [Assignment -> Nat]
      /\ s.touched \subseteq Assignment
  BY DEF Committed
<1>2. BookEntries[p].state = "COMPLETED" /\ BookEntries'[p].state = "COMPLETED"
  BY <1>1, BooksCommit DEF BookEntries, EntryOf, BookState
<1>3. BookEntries'[p].alloc = s.pay.alloc /\ BookEntries[p].alloc = payments[p].alloc
  BY BooksCommit
<1>4. A \subseteq s.touched
  BY <1>1, <1>3
<1>5. \A a \in s.touched :
        /\ Added(s, payments[p], a) = BookEntries'[p].alloc[a] - BookEntries[p].alloc[a]
        /\ BookEntries'[p].alloc[a] \in Nat /\ BookEntries[p].alloc[a] \in Nat
        /\ BookEntries'[p].alloc[a] > 0 /\ BookEntries[p].alloc[a] > 0
  BY <1>1, <1>3 DEF Added, Allocated
<1>6. \A a \in s.touched : /\ BookAccounts[a].state = "open" /\ BookAccounts'[a].state = "open"
                           /\ BookAccounts'[a].due = BookAccounts[a].due /\ BookAccounts[a].paid \in Int
                           /\ BookAccounts'[a].paid = BookAccounts[a].paid + Added(s, payments[p], a)
                           /\ BookAccounts'[a].paid <= BookAccounts'[a].due
                           /\ BookAccounts[a] = AccountOf(assignments[a])
                           /\ BookAccounts'[a] = AccountOf(assignments'[a])
                           /\ assignments[a].status \in Live /\ assignments'[a].status \in Live
  <2> TAKE a \in s.touched
  <2>1. /\ a \in Assignment
        /\ assignments[a].status \in Live /\ assignments'[a].status \in Live
    BY <1>1 DEF Committed
  <2>2. BookAccounts[a] = AccountOf(assignments[a]) /\ BookAccounts'[a] = AccountOf(assignments'[a])
    BY <2>1 DEF BookAccounts
  <2>3. /\ BookAccounts[a].state = "open" /\ BookAccounts'[a].state = "open"
        /\ BookAccounts'[a].due = BookAccounts[a].due /\ BookAccounts[a].paid \in Int
        /\ BookAccounts'[a].paid = BookAccounts[a].paid + Added(s, payments[p], a)
        /\ BookAccounts'[a].paid <= BookAccounts'[a].due
    BY BooksCommit
  <2>4. QED
    BY <2>1, <2>2, <2>3
<1>7. \A a \in A : /\ BookEntries[p].alloc[a] > 0 /\ BookEntries'[p].alloc[a] > 0
                   /\ BookAccounts[a].state = "open" /\ BookAccounts'[a].state = "open"
                   /\ BookAccounts'[a].due = BookAccounts[a].due
                   /\ BookAccounts'[a].paid = BookAccounts[a].paid + BookEntries'[p].alloc[a] - BookEntries[p].alloc[a]
                   /\ BookAccounts'[a].paid <= BookAccounts'[a].due
  BY <1>4, <1>5, <1>6
<1>8. \A a \in Assignment \ A : BookAccounts'[a] = BookAccounts[a]
  <2> TAKE a \in Assignment \ A
  <2>1. CASE a \notin s.touched
    BY <2>1, BooksCommit
  <2>2. CASE a \in s.touched
    <3>1. BookAccounts'[a].paid = BookAccounts[a].paid
      BY <1>5, <1>6, <2>2
    <3>2. QED
      BY <1>6, <2>2, <3>1, SameAccount
  <2>3. QED
    BY <2>1, <2>2
<1>9. Books!OnlyAccounts(A) /\ Books!OnlyPayment(p)
  BY <1>8, BooksCommit DEF Books!OnlyAccounts, BookAccounts
<1>10. QED
  BY <1>2, <1>7, <1>9 DEF Books!Adjust, BookAccounts, BookEntries

LEMMA BooksCancel ==
    ASSUME NEW s, Committed(s), s.op = "cancel" PROVE Books!Cancel(s.payment)
<1> DEFINE p == s.payment
<1>1. /\ payments[p].status = "COMPLETED" /\ s.pay.status = "CANCELLED" /\ p \in Payments
      /\ s.pay.alloc = payments[p].alloc /\ s.touched = Allocated(s.pay)
      /\ s.pay.alloc \in [Assignment -> Nat] /\ s.touched \subseteq Assignment
      /\ payments'[p].alloc = s.pay.alloc
  BY DEF Committed
<1>2. BookEntries[p].state = "COMPLETED" /\ BookEntries'[p].state = "CANCELLED"
  BY <1>1, BooksCommit DEF BookEntries, EntryOf, BookState
<1>3. BookEntries[p].alloc = s.pay.alloc /\ BookEntries'[p].alloc = BookEntries[p].alloc
  BY <1>1, BooksCommit
<1>4. {a \in Assignment : BookEntries[p].alloc[a] > 0} = s.touched
  BY <1>1, <1>3 DEF Allocated
<1>5. \A a \in s.touched : /\ Added(s, payments[p], a) = 0 - BookEntries[p].alloc[a]
                           /\ BookEntries[p].alloc[a] \in Nat
  BY <1>1, <1>3 DEF Added
<1>6. Books!OnlyAccounts(s.touched) /\ Books!OnlyPayment(p)
  BY BooksCommit DEF Books!OnlyAccounts, BookAccounts
<1>7. \A a \in s.touched : /\ BookAccounts[a].state = "open" /\ BookAccounts'[a].state = "open"
                           /\ BookAccounts'[a].due = BookAccounts[a].due /\ BookAccounts[a].paid \in Int
                           /\ BookAccounts'[a].paid = BookAccounts[a].paid + Added(s, payments[p], a)
  BY <1>1, BooksCommit
<1>8. \A a \in s.touched : /\ BookAccounts[a].state = "open" /\ BookAccounts'[a].state = "open"
                           /\ BookAccounts'[a].due = BookAccounts[a].due
                           /\ BookAccounts'[a].paid = BookAccounts[a].paid - BookEntries[p].alloc[a]
  BY <1>5, <1>7
<1>9. QED
  BY <1>2, <1>3, <1>4, <1>6, <1>8 DEF Books!Cancel, BookAccounts, BookEntries

LEMMA BooksErase ==
    ASSUME Inv, NEW S \in SUBSET Students, ResetSchool(S) PROVE Books!Erase
<1> DEFINE gone == [AbsentRow EXCEPT !.status = "DELETED"]
           removed == [AbsentPayment EXCEPT !.status = "DELETED"]
           A == {a \in Assignment : BookAccounts'[a] # BookAccounts[a]}
           P == {p \in Payments : BookEntries'[p] # BookEntries[p]}
<1>1. \A a \in Assignment : assignments'[a] = IF StudentOf(a) \in S THEN gone ELSE assignments[a]
  BY DEF ResetSchool
<1>2. \A p \in Payments :
        payments'[p] = IF payments[p].status \in Recorded /\ payments[p].student \in S
                       THEN removed ELSE payments[p]
  BY DEF ResetSchool
<1>3. AccountOf(gone) = Books!ErasedAccount
  BY DEF AccountOf, BookState, AbsentRow, Due, Books!ErasedAccount
<1>4. EntryOf(removed) = Books!ErasedPayment
  BY DEF EntryOf, BookState, AbsentPayment, NoAllocation, Books!ErasedPayment
<1>5. /\ \A a \in Assignment : BookAccounts[a] = AccountOf(assignments[a]) /\ BookAccounts'[a] = AccountOf(assignments'[a])
      /\ \A p \in Payments : BookEntries[p] = EntryOf(payments[p]) /\ BookEntries'[p] = EntryOf(payments'[p])
      /\ DOMAIN BookAccounts' = Assignment /\ DOMAIN BookEntries' = Payments
  BY DEF BookAccounts, BookEntries
<1> HIDE DEF gone, removed
<1>6. \A a \in A : BookAccounts'[a] = Books!ErasedAccount
  BY <1>1, <1>3, <1>5
<1>7. \A p \in P : BookEntries[p].state \in {"COMPLETED", "CANCELLED"} /\ BookEntries'[p] = Books!ErasedPayment
  <2> TAKE p \in P
  <2>1. payments[p].status \in Recorded /\ payments'[p] = removed
    BY <1>2, <1>5
  <2>3. BookEntries[p].state = payments[p].status
    BY <1>5, <2>1, EntryFields
  <2>4. QED
    BY <1>4, <1>5, <2>1, <2>3 DEF Recorded
<1>8. ASSUME NEW p \in Payments, NEW a \in Assignment, BookEntries[p].alloc[a] > 0
      PROVE  p \in P <=> a \in A
  <2>1. payments[p].alloc[a] > 0
    BY <1>5, <1>8, EntryFields
  <2>2. /\ StudentOf(a) = payments[p].student /\ assignments[a].status \in Live
        /\ payments[p].status \in Recorded
    BY <2>1 DEF Inv, LedgerInvariant, PaymentSound, Allocated, NoAllocation
  <2>3. BookAccounts[a].state = "open" /\ BookEntries[p].state \in Recorded
    BY <1>5, <2>2, OpenAccount, EntryFields
  <2>4. CASE payments[p].student \in S
    <3>1. BookAccounts'[a].state = "erased" /\ BookEntries'[p].state = "erased"
      BY <1>1, <1>2, <1>3, <1>4, <1>5, <2>2, <2>4 DEF Books!ErasedAccount, Books!ErasedPayment
    <3>2. BookAccounts'[a] # BookAccounts[a] /\ BookEntries'[p] # BookEntries[p]
      BY <2>3, <3>1 DEF Recorded
    <3>3. QED
      BY <3>2
  <2>5. CASE payments[p].student \notin S
    BY <1>1, <1>2, <1>5, <2>2, <2>5
  <2>6. QED
    BY <2>4, <2>5
<1>9. QED
  BY <1>5, <1>6, <1>7, <1>8 DEF Books!Erase, BookAccounts, BookEntries

(* Handlers that overlap, fail half way or are rolled back leave the fee    *)
(* tables as a clerk who does one operation at a time would.                *)
THEOREM LedgerKeepsTheBooks == Spec => KeepsTheBooks
<1>1. ASSUME Inv, [Next]_vars PROVE [Books!Next]_(Books!books)
  <2>1. CASE UNCHANGED Tables
    BY <2>1 DEF Tables, Books!books
  <2>2. ASSUME NEW r \in Requests, CommitAssign(r) PROVE Books!Next
    BY <1>1, <2>2, BooksOpen DEF Books!Next
  <2>3. ASSUME NEW r \in Requests, CommitCollect(r) \/ CommitUpdate(r) \/ CommitCancel(r)
        PROVE  Books!Next
    <3> DEFINE s == requests[r]
    <3>1. /\ Committed(s)
          /\ \/ s.op = "collect" /\ s.step # "read"
             \/ s.op = "update"
             \/ s.op = "cancel"
      BY <1>1, <2>3, CommitsEffect
    <3>2. s.payment \in Payments
      BY <3>1 DEF Committed
    <3>3. Books!Receive(s.payment) \/ Books!Adjust(s.payment) \/ Books!Cancel(s.payment)
      BY <3>1, BooksReceive, BooksAdjust, BooksCancel
    <3>4. QED
      BY <3>2, <3>3 DEF Books!Next
  <2>4. ASSUME NEW S \in SUBSET Students, ResetSchool(S) PROVE Books!Next
    BY <1>1, <2>4, BooksErase DEF Books!Next
  <2>5. QED
    BY <1>1, <2>1, <2>2, <2>3, <2>4, TableSteps
<1>2. Init /\ [][Next]_vars => Books!Init /\ [][Books!Next]_(Books!books)
  <2>1. Inv /\ [Next]_vars => [Books!Next]_(Books!books)
    BY <1>1
  <2>2. QED
    BY <2>1, BooksInit, InitInv, NextInv, PTL
<1>3. QED
  BY <1>2 DEF Spec, KeepsTheBooks, Books!Spec

=============================================================================
