----------------------------- MODULE BillingMoney -----------------------------
(***************************************************************************)
(* The money of one tenant (billing.py): the wallet and its transactions,  *)
(* and an invoice with its payments, refunds and credit notes.             *)
(*                                                                         *)
(* A request is a read followed by a commit. Only the wallet's row is      *)
(* locked, and only when it exists; everything else is read without a lock *)
(* and written back at the commit, an attribute of the invoice only when   *)
(* it differs from the value that was read.                                *)
(***************************************************************************)
EXTENDS Integers, FiniteSetsExt

CONSTANTS
    Clerks,             \* requests being handled at a time
    References,         \* references of wallet transactions
    WalletAmount,       \* their signed amounts: a DEBIT is negative
    Payments,           \* provider references of payments for the invoice
    PaymentAmount,      \* what each of them pays
    Manual,             \* those paid offline, to be confirmed by an operator
    InvoiceTotal,       \* total of the invoice
    CreditAmount,       \* what a credit note credits
    MaxNotes,           \* bound: credit notes and refunds that are written
    NoWallet            \* the wallet's row does not exist yet

ASSUME MoneyAssumption ==
    /\ References # {} /\ WalletAmount \in [References -> Int]
    /\ PaymentAmount \in [Payments -> Nat]
    /\ Manual \subseteq Payments
    /\ InvoiceTotal \in Nat \ {0} /\ CreditAmount \in Nat \ {0} /\ MaxNotes \in Nat
    /\ NoWallet \notin Int

VARIABLES
    balance,        \* balance of the wallet
    posted,         \* references of the wallet's transactions
    invoice,        \* status and credits of the invoice
    payment,        \* status of each payment
    refunded,       \* amount of each payment's refunds
    credited,       \* amount of the credit notes
    notes,          \* credit notes and refunds so far
    clerk           \* what each request has read

moneyVars == <<balance, posted, invoice, payment, refunded, credited, notes, clerk>>

InvoiceStates == {"DRAFT", "PARTIALLY_PAID", "PAID", "CREDITED"}
PaymentStates == {"none", "PENDING_RECONCILIATION", "CONFIRMED"}

\* for: the reference or payment of the request; status, amount: what it read.
Clerk == [task : {"none", "post", "open", "pay", "confirm", "refund", "credit"},
          for : References \union Payments, status : InvoiceStates, amount : Nat]

IdleClerk == [task |-> "none", for |-> CHOOSE r \in References : TRUE,
              status |-> "DRAFT", amount |-> 0]

\* Sum of f over a set.
Total(S, f) == MapThenSumSet(LAMBDA x : f[x], S)

Confirmed == {p \in Payments : payment[p] = "CONFIRMED"}

FreeClerk(c) == clerk[c] = IdleClerk
Reads(c, task, for, amount) ==
    /\ FreeClerk(c)
    /\ clerk' = [clerk EXCEPT ![c] = [task |-> task, for |-> for,
                                      status |-> invoice.status, amount |-> amount]]
Ends(c) == clerk' = [clerk EXCEPT ![c] = IdleClerk]

MoneyInit ==
    /\ balance = NoWallet /\ posted = {}
    /\ invoice = [status |-> "DRAFT", credits |-> 0]
    /\ payment = [p \in Payments |-> "none"]
    /\ refunded = [p \in Payments |-> 0]
    /\ credited = 0 /\ notes = 0
    /\ clerk = [c \in Clerks |-> IdleClerk]

-------------------------------------------------------------------------------
\* wallet_tx finds no transaction with the reference.
WalletLook(c, r) ==
    /\ r \notin posted
    /\ Reads(c, "post", r, 0)
    /\ UNCHANGED <<balance, posted, invoice, payment, refunded, credited, notes>>

Covers(before, amount) == before + amount >= 0

\* The unique reference refuses the second of two requests that found none.
Posts(r) == r \notin posted

Post(r, before) ==
    IF Covers(before, WalletAmount[r]) /\ Posts(r)
    THEN /\ balance' = before + WalletAmount[r]
         /\ posted' = posted \union {r}
    ELSE UNCHANGED <<balance, posted>>

\* The wallet's row is locked: balance and transaction are written together.
WalletPost(c) ==
    /\ clerk[c].task = "post" /\ balance # NoWallet
    /\ Post(clerk[c].for, balance)
    /\ Ends(c)
    /\ UNCHANGED <<invoice, payment, refunded, credited, notes>>

\* There is no row to lock.
WalletMissing(c) ==
    /\ clerk[c].task = "post" /\ balance = NoWallet
    /\ clerk' = [clerk EXCEPT ![c].task = "open"]
    /\ UNCHANGED <<balance, posted, invoice, payment, refunded, credited, notes>>

\* A faulty variant: a wallet that another request has opened is overwritten.
OpensAlways == TRUE

\* The primary key refuses the second of two requests that found no row.
Opens == balance = NoWallet

\* A new row is inserted with the transaction.
WalletOpen(c) ==
    /\ clerk[c].task = "open"
    /\ IF Opens THEN Post(clerk[c].for, 0) ELSE UNCHANGED <<balance, posted>>
    /\ Ends(c)
    /\ UNCHANGED <<invoice, payment, refunded, credited, notes>>

-------------------------------------------------------------------------------
PayRead(c, p) ==
    /\ payment[p] = "none" /\ invoice.status \notin {"PAID", "CREDITED"}
    /\ Reads(c, "pay", p, 0)
    /\ UNCHANGED <<balance, posted, invoice, payment, refunded, credited, notes>>

\* The provider's reference is unique. A sandbox payment counts at once.
PayCommit(c) ==
    LET p == clerk[c].for
    IN /\ clerk[c].task = "pay"
       /\ IF payment[p] # "none" THEN UNCHANGED <<payment, invoice>>
          ELSE /\ payment' = [payment EXCEPT ![p] =
                     IF p \in Manual THEN "PENDING_RECONCILIATION" ELSE "CONFIRMED"]
               /\ invoice' = IF p \notin Manual /\ PaymentAmount[p] >= InvoiceTotal
                             THEN [invoice EXCEPT !.status = "PAID"] ELSE invoice
       /\ Ends(c)
       /\ UNCHANGED <<balance, posted, refunded, credited, notes>>

\* The payments that confirm_manual counts: the committed ones and its own.
Counted(p) == Confirmed \union {p}

\* The confirmation is flushed, which locks the payment, and the sum is read.
ConfirmRead(c, p) ==
    /\ p \in Manual /\ payment[p] # "none"
    /\ \A d \in Clerks : ~(clerk[d].task = "confirm" /\ clerk[d].for = p)
    /\ Reads(c, "confirm", p, Total(Counted(p), PaymentAmount))
    /\ UNCHANGED <<balance, posted, invoice, payment, refunded, credited, notes>>

ConfirmCommit(c) ==
    LET status == IF clerk[c].amount >= InvoiceTotal THEN "PAID" ELSE "PARTIALLY_PAID"
    IN /\ clerk[c].task = "confirm"
       /\ payment' = [payment EXCEPT ![clerk[c].for] = "CONFIRMED"]
       /\ invoice' = IF status # clerk[c].status THEN [invoice EXCEPT !.status = status]
                     ELSE invoice
       /\ Ends(c)
       /\ UNCHANGED <<balance, posted, refunded, credited, notes>>

RefundRead(c, p) ==
    /\ payment[p] # "none" /\ notes < MaxNotes
    /\ Reads(c, "refund", p, refunded[p])
    /\ UNCHANGED <<balance, posted, invoice, payment, refunded, credited, notes>>

\* Only refunds of sandbox payments are confirmed and count. Each of two
\* refunds read before the other was written is within the payment's amount.
RefundCommit(c) ==
    LET p == clerk[c].for
    IN /\ clerk[c].task = "refund"
       /\ notes < MaxNotes
       /\ \E amount \in 1..PaymentAmount[p] :
             /\ clerk[c].amount + amount <= PaymentAmount[p]
             /\ refunded' = [refunded EXCEPT ![p] = IF p \in Manual THEN @ ELSE @ + amount]
       /\ notes' = notes + 1
       /\ Ends(c)
       /\ UNCHANGED <<balance, posted, invoice, payment, credited>>

CreditRead(c) ==
    /\ CreditAmount <= InvoiceTotal - invoice.credits /\ notes < MaxNotes
    /\ Reads(c, "credit", clerk[c].for, invoice.credits)
    /\ UNCHANGED <<balance, posted, invoice, payment, refunded, credited, notes>>

\* A credit note adds to the credits that were read.
CreditCommit(c) ==
    LET credits == clerk[c].amount + CreditAmount
    IN /\ clerk[c].task = "credit"
       /\ notes < MaxNotes
       /\ invoice' = [status |-> IF credits >= InvoiceTotal /\ clerk[c].status # "CREDITED"
                                 THEN "CREDITED" ELSE invoice.status,
                      credits |-> credits]
       /\ credited' = credited + CreditAmount
       /\ notes' = notes + 1
       /\ Ends(c)
       /\ UNCHANGED <<balance, posted, payment, refunded>>

\* A request ends without a commit.
ClerkFails(c) ==
    /\ ~FreeClerk(c)
    /\ Ends(c)
    /\ UNCHANGED <<balance, posted, invoice, payment, refunded, credited, notes>>

MoneyNext ==
    \E c \in Clerks :
        \/ \E r \in References : WalletLook(c, r)
        \/ WalletPost(c) \/ WalletMissing(c) \/ WalletOpen(c)
        \/ \E p \in Payments : PayRead(c, p) \/ ConfirmRead(c, p) \/ RefundRead(c, p)
        \/ PayCommit(c) \/ ConfirmCommit(c) \/ RefundCommit(c)
        \/ CreditRead(c) \/ CreditCommit(c) \/ ClerkFails(c)

MoneySpec == MoneyInit /\ [][MoneyNext]_moneyVars

-------------------------------------------------------------------------------
MoneyTypeOK ==
    /\ balance \in Int \union {NoWallet} /\ posted \in SUBSET References
    /\ invoice \in [status : InvoiceStates, credits : Nat]
    /\ payment \in [Payments -> PaymentStates]
    /\ refunded \in [Payments -> Nat]
    /\ credited \in Nat /\ notes \in 0..MaxNotes
    /\ clerk \in [Clerks -> Clerk]

WalletAddsUp ==
    IF balance = NoWallet THEN posted = {}
    ELSE balance >= 0 /\ balance = Total(posted, WalletAmount)

SettledIsCovered ==
    /\ invoice.status = "PAID" => Total(Confirmed, PaymentAmount) >= InvoiceTotal
    /\ invoice.status = "CREDITED" => credited >= InvoiceTotal

\* Concurrent requests neither lose nor repeat a wallet transaction, also when
\* they open the wallet together: the balance is the sum of the transactions
\* and never negative (wallet_tx). An invoice is shown as PAID or CREDITED only
\* when confirmed payments or credit notes cover it, whatever was read before
\* other requests committed (pay, confirm_manual, credit_note). The converse
\* fails: two payments confirmed at once each miss the other, which the
\* reconciliation reports.
MoneyAddsUp == WalletAddsUp /\ SettledIsCovered
===============================================================================
