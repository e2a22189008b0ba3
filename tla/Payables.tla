------------------------------ MODULE Payables ------------------------------
(***************************************************************************)
(* One supplier invoice and the payments made against it                   *)
(* (src/internal/handlers/payables.go, models/payables_models.go).         *)
(*                                                                         *)
(* Amounts are whole multiples of half a ngwee, the slack AdminSettleExpense*)
(* leaves for rounding.  The gates before recording and settling either let*)
(* a request through or end it, and are the subject of Approvals.          *)
(***************************************************************************)
EXTENDS Integers

CONSTANTS
  Nets, Vats,    \* amounts of an invoice, and of the VAT on it
  Payments,      \* amounts of a payment
  Treatments,    \* VAT treatments there are
  Keepers,       \* slots for requests running at once
  MaxPayments    \* bound: payments recorded

ASSUME PayableBounds ==
  /\ Nets \subseteq Int /\ Vats \subseteq Int /\ Payments \subseteq Int
  /\ "standard" \in Treatments /\ MaxPayments \in Nat

VARIABLES
  expense,   \* the expenses row: net, vat, treatment, and whether it is live
  paid,      \* sum of its expense_settlements rows
  payments,  \* and how many there are
  entry,     \* entry[k]: locals of a request
  agreed,    \* history: the total when the first payment was recorded
  inTurn     \* history: no two requests have run at once so far

pvars == <<expense, paid, payments, entry, agreed, inTurn>>

NoExpense == [live |-> FALSE]
NoEntry == [pc |-> "none"]

Requests == [net : Nets, vat : Vats, treatment : Treatments]
Expense == [net : Nets, vat : Vats, treatment : Treatments, live : BOOLEAN]
Row(r) == [net |-> r.net, vat |-> r.vat, treatment |-> r.treatment, live |-> TRUE]

\* validateExpense: only a standard-rated supply carries VAT.
Valid(r) ==
  /\ r.net > 0 /\ r.vat >= 0
  /\ r.treatment # "standard" => r.vat = 0

Slack == 1
Gross(r) == r.net + r.vat
Outstanding == IF Gross(expense) > paid THEN Gross(expense) - paid ELSE 0

PayablesTypeOK ==
  /\ expense = NoExpense \/ (expense \in Expense /\ Valid(expense))
  /\ paid \in Nat /\ payments \in 0 .. MaxPayments
  /\ \A k \in Keepers : entry[k].pc \in {"none", "update", "delete", "settle"}
  /\ agreed \in Nat

PayablesInit ==
  /\ expense = NoExpense /\ paid = 0 /\ payments = 0 /\ agreed = 0
  /\ entry = [k \in Keepers |-> NoEntry] /\ inTurn = TRUE

-----------------------------------------------------------------------------
Enters(k, t) == entry' = [entry EXCEPT ![k] = t]

\* A request that has read the row and its payments.
ReadAs(k, t) ==
  /\ expense.live /\ entry[k] = NoEntry
  /\ Enters(k, t)
  /\ inTurn' = (inTurn /\ \A j \in Keepers : entry[j] = NoEntry)
  /\ UNCHANGED <<expense, paid, payments, agreed>>

\* AdminCreateExpense, past the gate.
Record(r) ==
  /\ expense = NoExpense /\ Valid(r)
  /\ expense' = Row(r)
  /\ UNCHANGED <<paid, payments, entry, agreed, inTurn>>

\* Mutant of MayChange: it is enough that the new total covers what was paid.
MayChangeIfCovered(r) == Gross(r) >= paid

\* AdminUpdateExpense: the total of an invoice with payments cannot be changed.
MayChange(r) == paid > 0 => Gross(r) = Gross(expense)

BeginUpdateExpense(k, r) ==
  /\ expense.live /\ Valid(r) /\ MayChange(r)
  /\ ReadAs(k, [pc |-> "update", req |-> r])

\* The UPDATE finds no row once the invoice is deleted.
UpdateExpense(k) ==
  /\ entry[k].pc = "update"
  /\ expense' = IF expense.live THEN Row(entry[k].req) ELSE expense
  /\ Enters(k, NoEntry)
  /\ UNCHANGED <<paid, payments, agreed, inTurn>>

\* AdminDeleteExpense: only one that was never paid.
BeginDeleteExpense(k) ==
  /\ paid = 0
  /\ ReadAs(k, [pc |-> "delete"])

DeleteExpense(k) ==
  /\ entry[k].pc = "delete"
  /\ expense' = [expense EXCEPT !.live = FALSE]
  /\ Enters(k, NoEntry)
  /\ UNCHANGED <<paid, payments, agreed, inTurn>>

\* AdminSettleExpense: no more than is owed, when the row was read.
BeginSettle(k, a) ==
  /\ expense.live /\ a > 0 /\ a <= Outstanding + Slack
  /\ ReadAs(k, [pc |-> "settle", amount |-> a])

\* The payment is recorded whatever became of the invoice.
Settle(k) ==
  /\ entry[k].pc = "settle" /\ payments < MaxPayments
  /\ paid' = paid + entry[k].amount /\ payments' = payments + 1
  /\ agreed' = IF payments = 0 THEN Gross(expense) ELSE agreed
  /\ Enters(k, NoEntry)
  /\ UNCHANGED <<expense, inTurn>>

\* The gate ends the request, a statement fails or the replica dies.
DropEntry(k) ==
  /\ entry[k] # NoEntry
  /\ Enters(k, NoEntry)
  /\ UNCHANGED <<expense, paid, payments, agreed, inTurn>>

PayablesNext ==
  \/ \E r \in Requests : Record(r)
  \/ \E k \in Keepers :
       \/ \E r \in Requests : BeginUpdateExpense(k, r)
       \/ UpdateExpense(k)
       \/ BeginDeleteExpense(k) \/ DeleteExpense(k)
       \/ \E a \in Payments : BeginSettle(k, a)
       \/ Settle(k)
       \/ DropEntry(k)

PayablesSpec == PayablesInit /\ [][PayablesNext]_pvars

-----------------------------------------------------------------------------
\* "The settlements stay, the total moves" would rewrite history, and a settled
\* expense is "evidence that money left the business" (AdminUpdateExpense,
\* AdminDeleteExpense): while requests take turns, an invoice with a payment is
\* live with the total it had at the first one, and what was paid exceeds it by
\* no more than the slack of each payment.
PaidInvoiceStandsInTurn ==
  inTurn /\ payments > 0 =>
    /\ expense.live /\ Gross(expense) = agreed
    /\ paid <= agreed + Slack * payments

\* Nobody pays "a supplier more than is owed" (TestSettlementCannotExceedOutstanding,
\* AdminSettleExpense): what was paid on an invoice is within its total, give or
\* take the slack of each payment, though payments overlap.
PaidWithinTotal ==
  expense # NoExpense => paid <= Gross(expense) + Slack * payments
=============================================================================
