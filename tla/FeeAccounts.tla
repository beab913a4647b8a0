---------------------------- MODULE FeeAccounts ----------------------------
(***************************************************************************)
(* What the fee ledger promises, as if one clerk kept it by hand: every    *)
(* operation is one step that looks at the books as they are now.  The     *)
(* amounts an operation brings in (a fee, a late fine, a payment) are left *)
(* open; what it does to the accounts and to the payments is not.          *)
(***************************************************************************)
EXTENDS Integers

CONSTANTS Accounts, Payments

VARIABLES
    account,    \* account |-> [state, due, paid]
    payment     \* payment |-> [state, alloc: what it pays to each account]

books == <<account, payment>>

NoAccount == [state |-> "none", due |-> 0, paid |-> 0]
ErasedAccount == [state |-> "erased", due |-> 0, paid |-> 0]
NoPayment == [state |-> "none", alloc |-> [a \in Accounts |-> 0]]
ErasedPayment == [state |-> "erased", alloc |-> [a \in Accounts |-> 0]]

Init ==
    /\ account = [a \in Accounts |-> NoAccount]
    /\ payment = [p \in Payments |-> NoPayment]

OnlyPayment(p) ==
    /\ DOMAIN payment' = Payments
    /\ \A q \in Payments \ {p} : payment'[q] = payment[q]
OnlyAccounts(A) ==
    /\ DOMAIN account' = Accounts
    /\ \A a \in Accounts \ A : account'[a] = account[a]

(* Fees are charged on accounts that do not exist yet. *)
Open ==
    /\ \E A \in SUBSET Accounts :
        /\ OnlyAccounts(A)
        /\ \A a \in A : /\ account[a].state = "none"
                        /\ account'[a].state = "open"
                        /\ account'[a].due >= 0 /\ account'[a].paid = 0
    /\ UNCHANGED payment

(* A payment arrives: it is added to open accounts, whose dues may have     *)
(* grown by a late fine, and no account takes more than is still due.       *)
Receive(p) ==
    LET alloc == payment'[p].alloc
        A == {a \in Accounts : alloc[a] > 0}
    IN
    /\ payment[p] = NoPayment
    /\ payment'[p].state = "COMPLETED"
    /\ OnlyPayment(p) /\ OnlyAccounts(A)
    /\ \A a \in A : /\ account[a].state = "open" /\ account'[a].state = "open"
                    /\ account'[a].due >= account[a].due
                    /\ account'[a].paid = account[a].paid + alloc[a]
                    /\ account'[a].paid <= account'[a].due

(* A standing payment is corrected: the accounts follow the correction.     *)
Adjust(p) ==
    LET old == payment[p].alloc
        new == payment'[p].alloc
        A == {a \in Accounts : new[a] # old[a]}
    IN
    /\ payment[p].state = "COMPLETED" /\ payment'[p].state = "COMPLETED"
    /\ OnlyPayment(p) /\ OnlyAccounts(A)
    /\ \A a \in A : /\ old[a] > 0 /\ new[a] > 0
                    /\ account[a].state = "open" /\ account'[a].state = "open"
                    /\ account'[a].due = account[a].due
                    /\ account'[a].paid = account[a].paid + new[a] - old[a]
                    /\ account'[a].paid <= account'[a].due

(* A standing payment is cancelled: everything it paid is taken back.       *)
Cancel(p) ==
    LET alloc == payment[p].alloc
        A == {a \in Accounts : alloc[a] > 0}
    IN
    /\ payment[p].state = "COMPLETED" /\ payment'[p].state = "CANCELLED"
    /\ payment'[p].alloc = alloc
    /\ OnlyPayment(p) /\ OnlyAccounts(A)
    /\ \A a \in A : /\ account[a].state = "open" /\ account'[a].state = "open"
                    /\ account'[a].due = account[a].due
                    /\ account'[a].paid = account[a].paid - alloc[a]

(* Accounts are erased together with the payments made to them, and no      *)
(* payment that also went elsewhere is erased with them.                    *)
Erase ==
    LET A == {a \in Accounts : account'[a] # account[a]}
        P == {p \in Payments : payment'[p] # payment[p]}
    IN
    /\ DOMAIN account' = Accounts /\ DOMAIN payment' = Payments
    /\ \A a \in A : account'[a] = ErasedAccount
    /\ \A p \in P : /\ payment[p].state \in {"COMPLETED", "CANCELLED"}
                    /\ payment'[p] = ErasedPayment
    /\ \A p \in Payments, a \in Accounts :
          payment[p].alloc[a] > 0 => (p \in P <=> a \in A)

Next ==
    \/ Open
    \/ \E p \in Payments : Receive(p) \/ Adjust(p) \/ Cancel(p)
    \/ Erase

Spec == Init /\ [][Next]_books
=============================================================================
