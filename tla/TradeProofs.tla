----------------------------- MODULE TradeProofs -----------------------------
(***************************************************************************)
(* The company's side: a paid supplier invoice, the drawer of a till, a    *)
(* deal won as approved, the evidence of a signed contract and the shares  *)
(* of a landed cost stand, for any amounts, tills, deals, documents,       *)
(* charges and requests running at once.                                   *)
(***************************************************************************)
EXTENDS Payables, Tills, Deals, Contracts, LandedCost, Sums, SequenceTheorems, TLAPS

(* A paid supplier invoice *)

\* What a request under way has found out, while no other runs.
EntryKnows(t) ==
  /\ t.pc # "none" => expense.live
  /\ t.pc = "update" => (paid > 0 => Gross(t.req) = Gross(expense))
  /\ t.pc = "delete" => paid = 0
  /\ t.pc = "settle" => t.amount <= Outstanding + Slack

\* The row is an invoice that can be recorded.
Recorded == expense \in Expense /\ Valid(expense)

\* What any request under way has been given.
EntryShape(t) ==
  /\ t.pc # "none" => Recorded
  /\ t.pc = "update" => t.req \in Requests /\ Valid(t.req)
  /\ t.pc = "settle" => t.amount \in Int /\ t.amount > 0

\* No payment is without an amount, and while requests take turns the one under way
\* has found out what is still so: the total of a paid invoice is settled.
PayablesInv ==
  /\ PayablesTypeOK
  /\ DOMAIN entry = Keepers
  /\ \A k \in Keepers : EntryShape(entry[k])
  /\ paid > 0 <=> payments > 0
  /\ inTurn =>
       /\ \A j, k \in Keepers : entry[j] # NoEntry /\ entry[k] # NoEntry => j = k
       /\ \A k \in Keepers : EntryKnows(entry[k])
  /\ PaidInvoiceStandsInTurn

\* A total that is valid is a positive number.
LEMMA ValidGross ==
  ASSUME NEW r \in Requests \cup Expense, Valid(r)
  PROVE  Gross(r) \in Nat /\ Gross(r) > 0
<1>1. r.net \in Int /\ r.vat \in Int
  BY PayableBounds DEF Requests, Expense
<1>2. r.net > 0 /\ r.vat >= 0
  BY DEF Valid
<1>3. QED
  BY <1>1, <1>2 DEF Gross

\* What is recorded is a live invoice with what was sent.
LEMMA RowFacts ==
  ASSUME NEW r \in Requests, Valid(r)
  PROVE  Row(r) \in Expense /\ Valid(Row(r)) /\ Row(r).live /\ Gross(Row(r)) = Gross(r)
BY DEF Row, Valid, Gross, Requests, Expense

\* An invoice has a total, and only an invoice is live.
LEMMA ExpenseFacts ==
  ASSUME PayablesTypeOK
  PROVE  /\ expense.live \in BOOLEAN
         /\ Recorded => Gross(expense) \in Nat /\ Gross(expense) > 0
         /\ ~Recorded => expense = NoExpense /\ ~expense.live
<1>1. Recorded => expense.live \in BOOLEAN
  BY DEF Recorded, Expense
<1>2. Recorded => Gross(expense) \in Nat /\ Gross(expense) > 0
  BY ValidGross DEF Recorded
<1>3. ~Recorded => expense = NoExpense /\ expense.live = FALSE
  BY DEF PayablesTypeOK, Recorded, NoExpense
<1>4. QED
  BY <1>1, <1>2, <1>3 DEF Recorded

\* At first nothing is recorded.
LEMMA PayablesInitInv == PayablesInit => PayablesInv
<1> SUFFICES ASSUME PayablesInit PROVE PayablesInv
  OBVIOUS
<1>1. \A k \in Keepers : entry[k] = NoEntry /\ entry[k].pc = "none"
  BY DEF PayablesInit, NoEntry
<1>2. PayablesTypeOK
  <2>1. 0 \in 0 .. MaxPayments
    BY PayableBounds
  <2>2. QED
    BY <1>1, <2>1 DEF PayablesInit, PayablesTypeOK
<1>3. QED
  BY <1>1, <1>2 DEF PayablesInit, PayablesInv, EntryKnows, EntryShape, PaidInvoiceStandsInTurn

\* A request that reads the row starts with what it has read.
LEMMA ReadAsInv ==
  ASSUME PayablesInv, NEW k \in Keepers, NEW t, ReadAs(k, t),
         t.pc \in {"update", "delete", "settle"}, EntryShape(t), EntryKnows(t)
  PROVE  PayablesInv'
<1>1. /\ entry' = [entry EXCEPT ![k] = t] /\ DOMAIN entry' = Keepers
      /\ entry'[k] = t /\ \A j \in Keepers \ {k} : entry'[j] = entry[j]
      /\ UNCHANGED <<expense, paid, payments, agreed>>
      /\ inTurn' = (inTurn /\ \A j \in Keepers : entry[j] = NoEntry)
  BY DEF PayablesInv, ReadAs, Enters
<1>2. PayablesTypeOK'
  BY <1>1 DEF PayablesInv, PayablesTypeOK
<1>3. \A j \in Keepers : EntryShape(entry[j])'
  BY <1>1 DEF PayablesInv, EntryShape, Recorded
<1>4. ASSUME inTurn'
      PROVE  /\ \A i, j \in Keepers : entry'[i] # NoEntry /\ entry'[j] # NoEntry => i = j
             /\ \A j \in Keepers : EntryKnows(entry[j])'
             /\ inTurn
  <2>1. inTurn /\ \A j \in Keepers \ {k} : entry'[j] = NoEntry
    BY <1>1, <1>4
  <2>2. EntryKnows(t)'
    BY <1>1 DEF EntryKnows, Outstanding
  <2>3. \A j \in Keepers \ {k} : EntryKnows(entry[j])'
    BY <2>1 DEF EntryKnows, NoEntry
  <2>4. QED
    BY <1>1, <2>1, <2>2, <2>3
<1>5. PaidInvoiceStandsInTurn'
  BY <1>1, <1>4 DEF PayablesInv, PaidInvoiceStandsInTurn
<1>6. QED
  BY <1>1, <1>2, <1>3, <1>4, <1>5 DEF PayablesInv

\* A request that ends leaves nobody at work while requests take turns.
LEMMA EndsAlone ==
  ASSUME PayablesInv, NEW k \in Keepers, entry[k] # NoEntry, Enters(k, NoEntry),
         UNCHANGED inTurn, Recorded => Recorded'
  PROVE  /\ DOMAIN entry' = Keepers
         /\ \A j \in Keepers : entry'[j] = IF j = k THEN NoEntry ELSE entry[j]
         /\ \A j \in Keepers : entry'[j].pc \in {"none", "update", "delete", "settle"}
         /\ \A j \in Keepers : EntryShape(entry[j])'
         /\ inTurn' => \A j \in Keepers : entry'[j] = NoEntry /\ EntryKnows(entry[j])'
<1>1. /\ DOMAIN entry' = Keepers
      /\ \A j \in Keepers : entry'[j] = IF j = k THEN NoEntry ELSE entry[j]
  BY DEF PayablesInv, Enters
<1>2. \A j \in Keepers : EntryShape(entry[j])'
  <2>1. EntryShape(NoEntry)'
    BY DEF EntryShape, NoEntry
  <2>2. \A j \in Keepers \ {k} : EntryShape(entry[j])'
    BY <1>1 DEF PayablesInv, EntryShape
  <2>3. QED
    BY <1>1, <2>1, <2>2
<1>3. inTurn' => \A j \in Keepers : entry'[j] = NoEntry
  BY <1>1 DEF PayablesInv
<1>4. inTurn' => \A j \in Keepers : EntryKnows(entry[j])'
  BY <1>3 DEF EntryKnows, NoEntry
<1>5. \A j \in Keepers : entry'[j].pc \in {"none", "update", "delete", "settle"}
  BY <1>1 DEF PayablesInv, PayablesTypeOK, NoEntry
<1>6. QED
  BY <1>1, <1>2, <1>3, <1>4, <1>5

\* One step per action of the handlers.
LEMMA PayablesNextInv == PayablesInv /\ [PayablesNext]_pvars => PayablesInv'
<1> SUFFICES ASSUME PayablesInv, [PayablesNext]_pvars PROVE PayablesInv'
  OBVIOUS
<1>0. /\ expense.live \in BOOLEAN
      /\ Recorded => Gross(expense) \in Nat /\ Gross(expense) > 0
      /\ expense.live => Recorded
      /\ paid \in Nat /\ payments \in Nat /\ agreed \in Nat
  BY ExpenseFacts DEF PayablesInv, PayablesTypeOK
<1>1. ASSUME NEW r \in Requests, Record(r) PROVE PayablesInv'
  <2>1. /\ Valid(r) /\ expense' = Row(r) /\ UNCHANGED <<paid, payments, entry, agreed, inTurn>>
        /\ expense = NoExpense /\ ~expense.live
    BY <1>1 DEF Record, NoExpense
  <2>2. Recorded'
    BY <2>1, RowFacts DEF Recorded
  <2>3. PayablesTypeOK'
    BY <2>1, <2>2 DEF PayablesInv, PayablesTypeOK, Recorded
  <2>4. inTurn' => \A k \in Keepers : entry[k].pc = "none"
    BY <2>1 DEF PayablesInv, EntryKnows
  <2>5. inTurn' => \A k \in Keepers : EntryKnows(entry[k])'
    BY <2>1, <2>4 DEF EntryKnows
  <2>6. inTurn' => payments = 0
    BY <2>1, <1>0 DEF PayablesInv, PaidInvoiceStandsInTurn
  <2>7. \A k \in Keepers : EntryShape(entry[k])'
    BY <2>1, <2>2 DEF PayablesInv, EntryShape
  <2>8. PaidInvoiceStandsInTurn'
    BY <2>1, <2>6, <1>0 DEF PaidInvoiceStandsInTurn
  <2>9. QED
    BY <2>1, <2>3, <2>5, <2>7, <2>8 DEF PayablesInv
<1>2. ASSUME NEW k \in Keepers, NEW r \in Requests, BeginUpdateExpense(k, r) PROVE PayablesInv'
  <2> DEFINE t == [pc |-> "update", req |-> r]
  <2>1. ReadAs(k, t) /\ EntryShape(t) /\ EntryKnows(t)
    BY <1>2, <1>0 DEF BeginUpdateExpense, EntryShape, EntryKnows, MayChange
  <2>2. QED
    BY <2>1, ReadAsInv
<1>3. ASSUME NEW k \in Keepers, UpdateExpense(k) PROVE PayablesInv'
  <2> DEFINE r == entry[k].req
  <2>1. /\ entry[k].pc = "update" /\ entry[k] # NoEntry /\ Enters(k, NoEntry)
        /\ expense' = IF expense.live THEN Row(r) ELSE expense
        /\ UNCHANGED <<paid, payments, agreed, inTurn>>
    BY <1>3 DEF UpdateExpense, NoEntry
  <2>2. r \in Requests /\ Valid(r)
    BY <2>1 DEF PayablesInv, EntryShape
  <2>3. Recorded'
    BY <2>1, <2>2, RowFacts, <1>0 DEF PayablesInv, EntryShape, Recorded
  <2>e. /\ DOMAIN entry' = Keepers
        /\ \A j \in Keepers : entry'[j].pc \in {"none", "update", "delete", "settle"}
        /\ \A j \in Keepers : EntryShape(entry[j])'
        /\ inTurn' => \A j \in Keepers : entry'[j] = NoEntry /\ EntryKnows(entry[j])'
    BY <2>1, <2>3, EndsAlone
  <2>4. PayablesTypeOK'
    BY <2>1, <2>3, <2>e DEF PayablesInv, PayablesTypeOK, Recorded
  <2>5. inTurn' /\ payments' > 0 => expense'.live /\ Gross(expense') = agreed
    <3>1. Row(r).live /\ Gross(Row(r)) = Gross(r)
      BY <2>2, RowFacts
    <3>2. QED
      BY <2>1, <3>1, <1>0 DEF PayablesInv, PaidInvoiceStandsInTurn, EntryKnows
  <2>6. PaidInvoiceStandsInTurn'
    BY <2>1, <2>5, <1>0 DEF PayablesInv, PaidInvoiceStandsInTurn
  <2>7. QED
    BY <2>1, <2>4, <2>6, <2>e DEF PayablesInv
<1>4. ASSUME NEW k \in Keepers, BeginDeleteExpense(k) PROVE PayablesInv'
  <2> DEFINE t == [pc |-> "delete"]
  <2>1. ReadAs(k, t) /\ EntryShape(t) /\ EntryKnows(t)
    BY <1>4, <1>0 DEF BeginDeleteExpense, EntryShape, EntryKnows, ReadAs
  <2>2. QED
    BY <2>1, ReadAsInv
<1>5. ASSUME NEW k \in Keepers, DeleteExpense(k) PROVE PayablesInv'
  <2>1. /\ entry[k].pc = "delete" /\ entry[k] # NoEntry /\ Enters(k, NoEntry)
        /\ expense' = [expense EXCEPT !.live = FALSE]
        /\ UNCHANGED <<paid, payments, agreed, inTurn>>
    BY <1>5 DEF DeleteExpense, NoEntry
  <2>a. Recorded'
    BY <2>1 DEF PayablesInv, EntryShape, Recorded, Expense, Valid
  <2>e. /\ DOMAIN entry' = Keepers
        /\ \A j \in Keepers : entry'[j].pc \in {"none", "update", "delete", "settle"}
        /\ \A j \in Keepers : EntryShape(entry[j])'
        /\ inTurn' => \A j \in Keepers : entry'[j] = NoEntry /\ EntryKnows(entry[j])'
    BY <2>1, <2>a, EndsAlone
  <2>2. PayablesTypeOK'
    BY <2>1, <2>a, <2>e DEF PayablesInv, PayablesTypeOK, Recorded
  <2>3. inTurn' => paid = 0 /\ payments' = 0
    BY <2>1, <1>0 DEF PayablesInv, EntryKnows
  <2>4. PaidInvoiceStandsInTurn'
    BY <2>3 DEF PaidInvoiceStandsInTurn
  <2>5. QED
    BY <2>1, <2>2, <2>4, <2>e DEF PayablesInv
<1>6. ASSUME NEW k \in Keepers, NEW a \in Payments, BeginSettle(k, a) PROVE PayablesInv'
  <2> DEFINE t == [pc |-> "settle", amount |-> a]
  <2>0. a \in Int
    BY PayableBounds
  <2>1. ReadAs(k, t) /\ EntryShape(t) /\ EntryKnows(t)
    BY <1>6, <2>0, <1>0 DEF BeginSettle, EntryShape, EntryKnows
  <2>2. QED
    BY <2>1, ReadAsInv
<1>7. ASSUME NEW k \in Keepers, Settle(k) PROVE PayablesInv'
  <2> DEFINE a == entry[k].amount
  <2>1. /\ entry[k].pc = "settle" /\ entry[k] # NoEntry /\ Enters(k, NoEntry)
        /\ payments < MaxPayments /\ paid' = paid + a /\ payments' = payments + 1
        /\ agreed' = IF payments = 0 THEN Gross(expense) ELSE agreed
        /\ UNCHANGED <<expense, inTurn>>
    BY <1>7 DEF Settle, NoEntry
  <2>2. a \in Int /\ a > 0
    BY <2>1 DEF PayablesInv, EntryShape
  <2>3. Gross(expense) \in Nat
    BY <2>1, <1>0 DEF PayablesInv, EntryShape
  <2>e. /\ DOMAIN entry' = Keepers
        /\ \A j \in Keepers : entry'[j].pc \in {"none", "update", "delete", "settle"}
        /\ \A j \in Keepers : EntryShape(entry[j])'
        /\ inTurn' => \A j \in Keepers : entry'[j] = NoEntry /\ EntryKnows(entry[j])'
    <3>1. Recorded => Recorded'
      BY <2>1 DEF Recorded
    <3>2. QED
      BY <2>1, <3>1, EndsAlone
  <2>4. PayablesTypeOK'
    BY <2>1, <2>2, <2>3, <2>e, <1>0, PayableBounds DEF PayablesInv, PayablesTypeOK
  <2>5. ASSUME inTurn'
        PROVE  expense'.live /\ Gross(expense') = agreed' /\ paid' <= agreed' + payments'
    <3>1. expense.live /\ a <= Outstanding + 1
      BY <2>1, <2>5 DEF PayablesInv, EntryKnows, Slack
    <3>2. payments = 0 => paid = 0
      BY <1>0 DEF PayablesInv
    <3>3. payments > 0 => Gross(expense) = agreed /\ paid <= agreed + payments
      BY <2>1, <2>5, <1>0 DEF PayablesInv, PaidInvoiceStandsInTurn, Slack
    <3>4. Gross(expense) = agreed' /\ paid <= agreed' + payments
      BY <2>1, <3>1, <3>2, <3>3, <1>0
    <3>5. QED
      BY <2>1, <2>2, <3>1, <3>4, <1>0 DEF Outstanding
  <2>6. PaidInvoiceStandsInTurn'
    BY <2>1, <2>5, <1>0 DEF PaidInvoiceStandsInTurn, Slack
  <2>7. paid' > 0 /\ payments' > 0
    BY <2>1, <2>2, <1>0
  <2>8. QED
    BY <2>1, <2>4, <2>6, <2>7, <2>e DEF PayablesInv
<1>8. ASSUME NEW k \in Keepers, DropEntry(k) PROVE PayablesInv'
  <2>1. /\ entry[k] # NoEntry /\ Enters(k, NoEntry)
        /\ UNCHANGED <<expense, paid, payments, agreed, inTurn>>
    BY <1>8 DEF DropEntry
  <2>e. /\ DOMAIN entry' = Keepers
        /\ \A j \in Keepers : entry'[j].pc \in {"none", "update", "delete", "settle"}
        /\ \A j \in Keepers : EntryShape(entry[j])'
        /\ inTurn' => \A j \in Keepers : entry'[j] = NoEntry /\ EntryKnows(entry[j])'
    <3>1. Recorded => Recorded'
      BY <2>1 DEF Recorded
    <3>2. QED
      BY <2>1, <3>1, EndsAlone
  <2>2. PayablesTypeOK'
    BY <2>1, <2>e DEF PayablesInv, PayablesTypeOK
  <2>3. PaidInvoiceStandsInTurn'
    BY <2>1 DEF PayablesInv, PaidInvoiceStandsInTurn
  <2>4. QED
    BY <2>1, <2>2, <2>3, <2>e DEF PayablesInv
<1>9. CASE UNCHANGED pvars
  <2>1. PayablesTypeOK' /\ PaidInvoiceStandsInTurn'
    BY <1>9 DEF pvars, PayablesInv, PayablesTypeOK, PaidInvoiceStandsInTurn
  <2>2. \A k \in Keepers : EntryShape(entry[k])'
    BY <1>9 DEF pvars, PayablesInv, EntryShape, Recorded
  <2>3. inTurn' => \A k \in Keepers : EntryKnows(entry[k])'
    BY <1>9 DEF pvars, PayablesInv, EntryKnows, Outstanding
  <2>4. QED
    BY <1>9, <2>1, <2>2, <2>3 DEF pvars, PayablesInv
<1>10. QED
  BY <1>1, <1>2, <1>3, <1>4, <1>5, <1>6, <1>7, <1>8, <1>9 DEF PayablesNext

\* Expenses, payments and requests under way keep their shape, and taking turns
\* they agree (AdminCreateExpense to AdminSettleExpense).
THEOREM PayablesInvariant == PayablesSpec => []PayablesInv
<1>1. PayablesInit => PayablesInv
  BY PayablesInitInv
<1>2. PayablesInv /\ [PayablesNext]_pvars => PayablesInv'
  BY PayablesNextInv
<1>3. QED
  BY <1>1, <1>2, PTL DEF PayablesSpec

\* While requests take turns, an invoice that was paid in part is neither deleted
\* nor changed to another total, and not paid beyond it, whatever the amounts
\* (AdminUpdateExpense, AdminDeleteExpense, AdminSettleExpense).
THEOREM PaidInvoiceStandsHolds == PayablesSpec => []PaidInvoiceStandsInTurn
<1>1. PayablesInv => PaidInvoiceStandsInTurn
  BY DEF PayablesInv
<1>2. QED
  BY <1>1, PayablesInvariant, PTL

-----------------------------------------------------------------------------
(* The drawer of a till *)

\* A row of till_sessions.
Till == [by : Operators, named : BOOLEAN, float : Money, status : {"open", "closed"},
         counted : Money \cup {Uncounted}]

\* What any request under way has been given.
TellerShape(t) ==
  /\ t.pc \in {"none", "open", "sell", "close", "total"}
  /\ t.pc = "open" => t.by \in Operators /\ t.float \in Money
  /\ t.pc = "sell" => t.till \in DOMAIN tills /\ t.total \in Money /\ t.method \in Methods
  /\ t.pc = "close" => t.till \in DOMAIN tills /\ t.counted \in Money
  /\ t.pc = "total" => t.till \in DOMAIN tills

\* What a request under way has found out, while no other runs.
TellerKnows(t) ==
  /\ t.pc = "open" => \A s \in DOMAIN tills : ~OpenAs(s, t.by)
  /\ t.pc \in {"sell", "close"} => Open(t.till)
  /\ t.pc = "total" => ~Open(t.till)

\* No two open tills name one operator, and only a closed one has been counted.
DrawersStand ==
  /\ \A s, t \in DOMAIN tills : \A u \in Operators : OpenAs(s, u) /\ OpenAs(t, u) => s = t
  /\ \A t \in DOMAIN tills : shown[t] \subseteq {Variance(t)}
  /\ \A t \in 1 .. MaxTills : (t \notin DOMAIN tills \/ Open(t)) => shown[t] = {}

\* The tables keep their shape.
TillRows ==
  /\ tills \in Seq(Till) /\ Len(tills) <= MaxTills /\ sold \in 0 .. MaxSales
  /\ takings \in [1 .. MaxTills -> [Methods -> Nat]]
  /\ \A t \in DOMAIN tills : (tills[t].status = "closed") = (tills[t].counted # Uncounted)
  /\ DOMAIN shown = 1 .. MaxTills

\* Nothing more while requests overlap; in turn, nobody is given a second till and
\* no sale is about to be stored in a closed one.
TillsInv ==
  /\ TillRows
  /\ DOMAIN teller = Tellers
  /\ \A r \in Tellers : TellerShape(teller[r])
  /\ queued =>
       /\ \A q, r \in Tellers : ~Idle(q) /\ ~Idle(r) => q = r
       /\ \A r \in Tellers : TellerKnows(teller[r])
       /\ DrawersStand

\* A till's takings and answer are there once it is.
LEMMA TillIndices ==
  ASSUME TillRows
  PROVE  /\ DOMAIN tills = 1 .. Len(tills) /\ Len(tills) \in Nat
         /\ DOMAIN tills \subseteq 1 .. MaxTills
         /\ \A t \in DOMAIN tills : tills[t] \in Till
BY TillBounds DEF TillRows

\* While no two name one operator, what is found is an open till, and 0 means none.
LEMMA OpenForFinds ==
  ASSUME TillRows, DrawersStand, NEW u \in Operators
  PROVE  /\ OpenFor(u) # 0 => OpenFor(u) \in DOMAIN tills /\ Open(OpenFor(u))
         /\ OpenFor(u) = 0 => \A s \in DOMAIN tills : ~OpenAs(s, u)
<1> DEFINE own == {t \in DOMAIN tills : OpenAs(t, u)}
<1>1. CASE own = {}
  BY <1>1 DEF OpenFor
<1>2. ASSUME NEW s \in own PROVE own = {s} /\ OpenFor(u) = s /\ s # 0
  <2>1. own = {s}
    BY <1>2 DEF DrawersStand
  <2>2. s \in Nat /\ s # 0
    BY <1>2, TillIndices
  <2>3. OpenFor(u) = CHOOSE t \in own : \A o \in own : o <= t
    BY <1>2 DEF OpenFor
  <2>4. (CHOOSE t \in own : \A o \in own : o <= t) \in own
    BY <2>1, <2>2
  <2>5. QED
    BY <2>1, <2>2, <2>3, <2>4
<1>3. QED
  BY <1>1, <1>2 DEF OpenAs

\* At first there is no till.
LEMMA TillsInitInv == TillsInit => TillsInv
<1> SUFFICES ASSUME TillsInit PROVE TillsInv
  OBVIOUS
<1>1. \A r \in Tellers : teller[r] = NoTeller /\ teller[r].pc = "none"
  BY DEF TillsInit, NoTeller
<1>2. \A r \in Tellers : TellerShape(teller[r]) /\ TellerKnows(teller[r]) /\ Idle(r)
  BY <1>1 DEF TellerShape, TellerKnows, Idle
<1>3. tills = <<>> /\ DOMAIN tills = {}
  BY DEF TillsInit
<1>4. TillRows /\ DrawersStand
  BY <1>3, TillBounds DEF TillsInit, TillRows, DrawersStand
<1>5. QED
  BY <1>2, <1>4 DEF TillsInit, TillsInv

\* A request that is taken on.
LEMMA ServesInv ==
  ASSUME TillsInv, NEW r \in Tellers, NEW t, Serves(r, t), TellerShape(t),
         queued => TellerKnows(t)
  PROVE  TillsInv'
<1>1. /\ DOMAIN teller' = Tellers /\ teller'[r] = t
      /\ \A q \in Tellers \ {r} : teller'[q] = teller[q]
      /\ UNCHANGED <<tills, takings, sold, shown>>
      /\ queued' = (queued /\ \A q \in Tellers : Idle(q))
  BY DEF TillsInv, Serves, Tells
<1>2. TillRows'
  BY <1>1 DEF TillsInv, TillRows
<1>3. \A q \in Tellers : TellerShape(teller[q])'
  BY <1>1 DEF TillsInv, TellerShape
<1>4. ASSUME queued'
      PROVE  /\ \A p, q \in Tellers : ~Idle(p)' /\ ~Idle(q)' => p = q
             /\ \A q \in Tellers : TellerKnows(teller[q])'
             /\ DrawersStand'
  <2>1. queued /\ \A q \in Tellers \ {r} : teller'[q] = NoTeller
    BY <1>1, <1>4 DEF Idle
  <2>2. TellerKnows(t)'
    BY <1>1, <2>1 DEF TellerKnows, Open, OpenAs
  <2>3. \A q \in Tellers \ {r} : TellerKnows(teller[q])'
    BY <2>1 DEF TellerKnows, NoTeller
  <2>4. DrawersStand'
    BY <1>1, <2>1 DEF TillsInv, DrawersStand, Open, OpenAs, Variance, ExpectedCash
  <2>5. QED
    BY <1>1, <2>1, <2>2, <2>3, <2>4 DEF Idle
<1>5. QED
  BY <1>1, <1>2, <1>3, <1>4 DEF TillsInv

\* A step of a request under way: the tables keep their shape, and no till is lost.
LEMMA TellsInv ==
  ASSUME TillsInv, NEW r \in Tellers, NEW t, ~Idle(r), Tells(r, t), UNCHANGED queued,
         TillRows', DOMAIN tills \subseteq DOMAIN tills', TellerShape(t)',
         queued => TellerKnows(t)' /\ DrawersStand'
  PROVE  TillsInv'
<1>1. /\ DOMAIN teller' = Tellers /\ teller'[r] = t
      /\ \A q \in Tellers \ {r} : teller'[q] = teller[q]
  BY DEF TillsInv, Tells
<1>2. \A q \in Tellers : TellerShape(teller[q])'
  BY <1>1 DEF TillsInv, TellerShape
<1>3. ASSUME queued'
      PROVE  /\ \A p, q \in Tellers : ~Idle(p)' /\ ~Idle(q)' => p = q
             /\ \A q \in Tellers : TellerKnows(teller[q])'
             /\ DrawersStand'
  <2>1. \A q \in Tellers \ {r} : teller'[q] = NoTeller
    BY <1>1, <1>3 DEF TillsInv, Idle
  <2>2. \A q \in Tellers \ {r} : TellerKnows(teller[q])'
    BY <2>1 DEF TellerKnows, NoTeller
  <2>3. QED
    BY <1>1, <1>3, <2>1, <2>2 DEF Idle
<1>4. QED
  BY <1>1, <1>2, <1>3 DEF TillsInv

\* One step per action of the handlers.
LEMMA TillsNextInv == TillsInv /\ [TillsNext]_tvars => TillsInv'
<1> SUFFICES ASSUME TillsInv, [TillsNext]_tvars PROVE TillsInv'
  OBVIOUS
<1>0. /\ TillRows /\ DOMAIN tills = 1 .. Len(tills) /\ Len(tills) \in Nat
      /\ DOMAIN tills \subseteq 1 .. MaxTills
      /\ \A t \in DOMAIN tills : tills[t] \in Till
      /\ TellerShape(NoTeller)' /\ TellerKnows(NoTeller)' /\ TellerKnows(NoTeller)
      /\ queued => DrawersStand
  BY TillIndices DEF TillsInv, TellerShape, TellerKnows, NoTeller
<1>1. ASSUME NEW r \in Tellers, NEW u \in Operators, NEW x \in Money, BeginOpenTill(r, u, x)
      PROVE  TillsInv'
  <2> DEFINE t == [pc |-> "open", by |-> u, float |-> x]
  <2>1. Serves(r, t) /\ OpenFor(u) = 0 /\ TellerShape(t)
    BY <1>1 DEF BeginOpenTill, TellerShape
  <2>2. queued => TellerKnows(t)
    BY <2>1, <1>0, OpenForFinds DEF TellerKnows
  <2>3. QED
    BY <2>1, <2>2, ServesInv
<1>2. ASSUME NEW r \in Tellers, NEW u \in Operators, NEW x \in Money,
             NEW s \in DOMAIN tills, NEW m \in Methods, BeginSale(r, u, s, x, m)
      PROVE  TillsInv'
  <2> DEFINE t == [pc |-> "sell", till |-> s, total |-> x, method |-> m]
  <2>1. Serves(r, t) /\ Sells(u, s) /\ TellerShape(t)
    BY <1>2 DEF BeginSale, TellerShape
  <2>2. queued => TellerKnows(t)
    BY <2>1, <1>0, OpenForFinds DEF TellerKnows, Sells
  <2>3. QED
    BY <2>1, <2>2, ServesInv
<1>3. ASSUME NEW r \in Tellers, NEW s \in DOMAIN tills, NEW x \in Money, BeginCloseTill(r, s, x)
      PROVE  TillsInv'
  <2> DEFINE t == [pc |-> "close", till |-> s, counted |-> x]
  <2>1. Serves(r, t) /\ TellerShape(t) /\ TellerKnows(t)
    BY <1>3 DEF BeginCloseTill, TellerShape, TellerKnows
  <2>2. QED
    BY <2>1, ServesInv
<1>4. ASSUME NEW r \in Tellers, OpenTill(r) PROVE TillsInv'
  <2>0. PICK named \in BOOLEAN :
          tills' = Append(tills, [by |-> teller[r].by, named |-> named,
                                  float |-> teller[r].float, status |-> "open",
                                  counted |-> Uncounted])
    BY <1>4 DEF OpenTill
  <2> DEFINE t == teller[r]
             new == [by |-> t.by, named |-> named, float |-> t.float, status |-> "open",
                     counted |-> Uncounted]
             n == Len(tills) + 1
  <2>1. /\ t.pc = "open" /\ ~Idle(r) /\ Len(tills) < MaxTills /\ tills' = Append(tills, new)
        /\ Tells(r, NoTeller) /\ UNCHANGED <<takings, sold, shown, queued>>
    BY <1>4, <2>0 DEF OpenTill, Idle, NoTeller
  <2>2. new \in Till
    BY <2>1 DEF TillsInv, TellerShape, Till
  <2>3. /\ DOMAIN tills' = 1 .. n /\ Len(tills') = n /\ tills'[n] = new
        /\ \A s \in DOMAIN tills : tills'[s] = tills[s]
        /\ tills' \in Seq(Till) /\ DOMAIN tills' = DOMAIN tills \cup {n}
        /\ n \notin DOMAIN tills
    BY <2>1, <2>2, <1>0 DEF TillRows
  <2>4. TillRows'
    BY <2>1, <2>2, <2>3, <1>0, TillBounds DEF TillRows
  <2>5. ASSUME queued PROVE DrawersStand'
    <3>1. \A s \in DOMAIN tills : ~OpenAs(s, t.by)
      BY <2>1, <2>5 DEF TillsInv, TellerKnows
    <3>2. \A s \in DOMAIN tills :
            /\ Open(s)' = Open(s) /\ Variance(s)' = Variance(s)
            /\ \A u \in Operators : OpenAs(s, u)' = OpenAs(s, u)
      BY <2>1, <2>3 DEF Open, OpenAs, Variance, ExpectedCash
    <3>3. shown[n] = {} /\ n \in 1 .. MaxTills
      BY <2>1, <2>3, <2>5, <1>0, TillBounds DEF DrawersStand
    <3>d. PICK k, by : k = n /\ by = t.by
      OBVIOUS
    <3>e. \A u \in Operators : OpenAs(k, u)' => u = by
      <4>1. tills'[k].by = by
        BY <2>3, <3>d
      <4>2. QED
        BY <4>1 DEF OpenAs
    <3>4. \A s, q \in DOMAIN tills' : \A u \in Operators :
            OpenAs(s, u)' /\ OpenAs(q, u)' => s = q
      <4>1. \A s \in DOMAIN tills : ~OpenAs(s, by)'
        BY <3>1, <3>2, <3>d, <2>1, <2>3 DEF OpenAs, Open
      <4>2. \A s, q \in DOMAIN tills : \A u \in Operators :
              OpenAs(s, u)' /\ OpenAs(q, u)' => s = q
        BY <3>2, <2>5, <1>0 DEF DrawersStand
      <4>3. \A s \in DOMAIN tills : \A u \in Operators :
              ~(OpenAs(s, u)' /\ OpenAs(k, u)')
        BY <3>e, <4>1
      <4>4. \A s \in DOMAIN tills' : s = k \/ s \in DOMAIN tills
        BY <2>3, <3>d
      <4>5. QED
        BY <4>2, <4>3, <4>4
    <3>5. QED
      BY <2>1, <2>3, <2>5, <1>0, <3>2, <3>3, <3>4 DEF DrawersStand
  <2>6. QED
    BY <2>1, <2>3, <2>4, <2>5, <1>0, TellsInv
<1>5. ASSUME NEW r \in Tellers, CommitSale(r) PROVE TillsInv'
  <2> DEFINE t == teller[r]
  <2>1. /\ t.pc = "sell" /\ ~Idle(r) /\ sold < MaxSales /\ sold' = sold + 1
        /\ takings' = [takings EXCEPT ![t.till][t.method] = @ + t.total]
        /\ Tells(r, NoTeller) /\ UNCHANGED <<tills, shown, queued>>
    BY <1>5 DEF CommitSale, Idle, NoTeller
  <2>2. t.till \in DOMAIN tills /\ t.total \in Nat /\ t.method \in Methods
    BY <2>1, TillBounds DEF TillsInv, TellerShape
  <2>3. TillRows'
    <3>1. takings' \in [1 .. MaxTills -> [Methods -> Nat]]
      BY <2>1, <2>2, <1>0 DEF TillRows
    <3>2. QED
      BY <2>1, <3>1, <1>0, TillBounds DEF TillRows
  <2>4. ASSUME queued PROVE DrawersStand'
    <3>1. Open(t.till) /\ shown[t.till] = {}
      BY <2>1, <2>2, <2>4, <1>0 DEF TillsInv, TellerKnows, DrawersStand
    <3>2. \A s \in DOMAIN tills : s # t.till => takings'[s] = takings[s]
      BY <2>1, <1>0 DEF TillRows
    <3>3. \A s \in DOMAIN tills : s # t.till => Variance(s)' = Variance(s)
      BY <2>1, <3>2 DEF Variance, ExpectedCash
    <3>4. QED
      BY <2>1, <2>4, <1>0, <3>1, <3>3 DEF DrawersStand, Open, OpenAs
  <2>5. QED
    BY <2>1, <2>3, <2>4, <1>0, TellsInv
<1>6. ASSUME NEW r \in Tellers, CloseTill(r) PROVE TillsInv'
  <2>0. PICK d, c : d = teller[r].till /\ c = teller[r].counted
    OBVIOUS
  <2> DEFINE after == [pc |-> "total", till |-> d]
             row == [tills[d] EXCEPT !.status = "closed", !.counted = c]
  <2>1. /\ teller[r].pc = "close" /\ ~Idle(r)
        /\ tills' = [tills EXCEPT ![d].status = "closed", ![d].counted = c]
        /\ Tells(r, after) /\ UNCHANGED <<takings, sold, shown, queued>>
    BY <1>6, <2>0 DEF CloseTill, Idle, NoTeller
  <2>2. d \in DOMAIN tills /\ c \in Money /\ c # Uncounted
    BY <2>0, <2>1, TillBounds DEF TillsInv, TellerShape, Uncounted
  <2>3. row \in Till /\ row.status = "closed" /\ row.counted = c
    BY <2>2, <1>0 DEF Till
  <2>4. tills' = [tills EXCEPT ![d] = row]
    BY <2>1, <2>2, <1>0 DEF Till, TillRows
  <2> HIDE DEF row
  <2>5. /\ DOMAIN tills' = DOMAIN tills /\ Len(tills') = Len(tills)
        /\ \A s \in DOMAIN tills : s # d => tills'[s] = tills[s]
        /\ tills'[d].status = "closed" /\ tills'[d].counted = c
        /\ tills' \in Seq(Till)
    BY <2>2, <2>3, <2>4, <1>0 DEF TillRows
  <2>6. TillRows'
    BY <2>1, <2>2, <2>5, <1>0 DEF TillRows
  <2>7. ~Open(d)'
    BY <2>5 DEF Open, OpenAs
  <2>8. ASSUME queued PROVE DrawersStand'
    <3>1. Open(d) /\ shown[d] = {}
      BY <2>0, <2>1, <2>2, <2>8, <1>0 DEF TillsInv, TellerKnows, DrawersStand
    <3>2. \A s \in DOMAIN tills : s # d =>
            /\ Open(s)' = Open(s) /\ Variance(s)' = Variance(s)
            /\ \A u \in Operators : OpenAs(s, u)' = OpenAs(s, u)
      BY <2>1, <2>5 DEF Open, OpenAs, Variance, ExpectedCash
    <3>e. \A u \in Operators : ~OpenAs(d, u)'
      BY <2>7 DEF OpenAs
    <3>3. \A s, q \in DOMAIN tills' : \A u \in Operators :
            OpenAs(s, u)' /\ OpenAs(q, u)' => s = q
      BY <2>5, <3>e, <3>2, <2>8, <1>0 DEF DrawersStand
    <3>4. \A s \in 1 .. MaxTills : (s \notin DOMAIN tills' \/ Open(s)') => shown'[s] = {}
      BY <2>1, <2>5, <2>7, <3>2, <2>8, <1>0 DEF DrawersStand
    <3>5. \A s \in DOMAIN tills' : shown'[s] \subseteq {Variance(s)'}
      BY <2>1, <2>5, <3>1, <3>2, <2>8, <1>0 DEF DrawersStand
    <3>6. QED
      BY <3>3, <3>4, <3>5 DEF DrawersStand
  <2>9. TellerShape(after)' /\ TellerKnows(after)'
    BY <2>2, <2>5, <2>7 DEF TellerShape, TellerKnows
  <2>10. QED
    BY <2>1, <2>5, <2>6, <2>8, <2>9, <1>0, TellsInv
<1>7. ASSUME NEW r \in Tellers, TotalTill(r) PROVE TillsInv'
  <2> DEFINE t == teller[r]
  <2>1. /\ t.pc = "total" /\ ~Idle(r)
        /\ shown' = [shown EXCEPT ![t.till] = @ \cup {Variance(t.till)}]
        /\ Tells(r, NoTeller) /\ UNCHANGED <<tills, takings, sold, queued>>
    BY <1>7 DEF TotalTill, Idle, NoTeller
  <2>2. t.till \in DOMAIN tills
    BY <2>1 DEF TillsInv, TellerShape
  <2>3. TillRows'
    BY <2>1, <1>0 DEF TillRows
  <2>4. ASSUME queued PROVE DrawersStand'
    <3>1. ~Open(t.till)
      BY <2>1, <2>4 DEF TillsInv, TellerKnows
    <3>2. \A s \in DOMAIN tills : Variance(s)' = Variance(s)
      BY <2>1 DEF Variance, ExpectedCash
    <3>3. \A s \in 1 .. MaxTills : shown'[s] =
            IF s = t.till THEN shown[s] \cup {Variance(s)} ELSE shown[s]
      BY <2>1, <1>0 DEF TillRows
    <3>4. QED
      BY <2>1, <2>2, <2>4, <1>0, <3>1, <3>2, <3>3 DEF DrawersStand, Open, OpenAs
  <2>5. QED
    BY <2>1, <2>3, <2>4, <1>0, TellsInv
<1>8. ASSUME NEW r \in Tellers, DropTeller(r) PROVE TillsInv'
  <2>1. ~Idle(r) /\ Tells(r, NoTeller) /\ UNCHANGED <<tills, takings, sold, shown, queued>>
    BY <1>8 DEF DropTeller
  <2>2. TillRows' /\ (queued => DrawersStand')
    BY <2>1, <1>0 DEF TillRows, DrawersStand, Open, OpenAs, Variance, ExpectedCash
  <2>3. QED
    BY <2>1, <2>2, <1>0, TellsInv
<1>9. CASE UNCHANGED tvars
  <2>1. TillRows' /\ (queued => DrawersStand')
    BY <1>9, <1>0 DEF tvars, TillRows, DrawersStand, Open, OpenAs, Variance, ExpectedCash
  <2>2. \A r \in Tellers : TellerShape(teller[r])' /\ (queued => TellerKnows(teller[r])')
    BY <1>9 DEF tvars, TillsInv, TellerShape, TellerKnows, Open, OpenAs
  <2>3. QED
    BY <1>9, <2>1, <2>2 DEF tvars, TillsInv, Idle
<1>10. QED
  BY <1>1, <1>2, <1>3, <1>4, <1>5, <1>6, <1>7, <1>8, <1>9 DEF TillsNext

\* Tills, takings and requests under way keep their shape, and taking turns they
\* agree (AdminOpenTill, AdminCreateCounterSale, AdminCloseTill).
THEOREM TillsInvariant == TillsSpec => []TillsInv
<1>1. TillsInit => TillsInv
  BY TillsInitInv
<1>2. TillsInv /\ [TillsNext]_tvars => TillsInv'
  BY TillsNextInv
<1>3. QED
  BY <1>1, <1>2, PTL DEF TillsSpec

\* While requests take turns, no two open tills name one operator, and the variance
\* that closing a till is answered with is that of its sales ever after, for any
\* number of tills, sales and operators (AdminOpenTill, AdminCloseTill).
THEOREM DrawerReconcilesHolds == TillsSpec => []DrawerReconcilesInTurn
<1>1. TillsInv => DrawerReconcilesInTurn
  BY DEF TillsInv, DrawersStand, DrawerReconcilesInTurn
<1>2. QED
  BY <1>1, TillsInvariant, PTL

-----------------------------------------------------------------------------
(* A deal is won as approved *)

\* A row of opportunities, with the lists whose line items are stored.
Deal == [stage : Phases, value : Values, lines : SUBSET Lists, live : BOOLEAN]

\* What any request under way has been given.
EditShape(t) ==
  /\ t.pc \in {"none", "mark", "write", "clear", "add"}
  /\ t.pc \in {"write", "clear", "add"} => t.of \in DOMAIN deals /\ t.change \in Changes
  /\ t.pc = "write" => t.approval \in Nat \cup {-1}
  /\ t.pc \in {"clear", "add"} => t.change.lines \in Lists

\* What the gate was asked about is what the request is about to write.
EditIsCovered(t) ==
  t.pc = "write" =>
    (Closes(t.of, t.change) /\ Gated(WorthAfter(t.of, t.change))
       => t.approval >= WorthAfter(t.of, t.change))

\* The tables keep their shape.
DealRows ==
  /\ deals \in Seq(Deal) /\ Len(deals) <= MaxDeals
  /\ granted \in [1 .. MaxDeals -> SUBSET Values]

\* While requests take turns, the one under way has an approval for what it writes.
DealsInv ==
  /\ DealRows
  /\ DOMAIN edit = Sellers
  /\ \A s \in Sellers : EditShape(edit[s])
  /\ oneAtATime =>
       /\ \A q, s \in Sellers : edit[q] # NoEdit /\ edit[s] # NoEdit => q = s
       /\ \A s \in Sellers : EditIsCovered(edit[s])

\* Rows are counted from one upwards.
LEMMA DealIndices ==
  ASSUME DealRows
  PROVE  /\ Len(deals) \in Nat /\ DOMAIN deals = 1 .. Len(deals)
         /\ \A i \in DOMAIN deals : deals[i] \in Deal /\ i \in 1 .. MaxDeals
BY DealBounds DEF DealRows

\* A free slot knows nothing.
LEMMA NoEditKnows == EditShape(NoEdit) /\ EditShape(NoEdit)' /\ EditIsCovered(NoEdit)'
BY DEF EditShape, EditIsCovered, NoEdit

\* At first there is no deal.
LEMMA DealsInitInv == DealsInit => DealsInv
<1> SUFFICES ASSUME DealsInit PROVE DealsInv
  OBVIOUS
<1>1. DOMAIN edit = Sellers /\ \A s \in Sellers : edit[s] = NoEdit
  BY DEF DealsInit
<1>2. DealRows
  BY DealBounds DEF DealsInit, DealRows
<1>3. EditIsCovered(NoEdit)
  BY DEF EditIsCovered, NoEdit
<1>4. QED
  BY <1>1, <1>2, <1>3, NoEditKnows DEF DealsInv

\* A row is added, of a deal that did not have to be approved.
LEMMA NewDealKeeps ==
  ASSUME DealRows, NEW stage \in Phases, NEW value \in Values, NEW lines \in SUBSET Lists,
         NewDeal(stage, value, lines), UNCHANGED granted
  PROVE  /\ DealRows' /\ DOMAIN deals' = DOMAIN deals \cup {Len(deals) + 1}
         /\ \A i \in DOMAIN deals : deals'[i] = deals[i]
         /\ deals'[Len(deals) + 1].stage = stage /\ deals'[Len(deals) + 1].value = value
<1> DEFINE new == [stage |-> stage, value |-> value, lines |-> lines, live |-> TRUE]
<1>1. new \in Deal /\ new.stage = stage /\ new.value = value
  BY DEF Deal
<1>2. deals' = Append(deals, new)
  BY DEF NewDeal
<1> HIDE DEF new
<1>3. Len(deals) < MaxDeals /\ MaxDeals \in Nat
  BY DealBounds DEF NewDeal
<1>4. QED
  BY <1>1, <1>2, <1>3 DEF DealRows

\* Locals keep their shape when no deal is lost.
LEMMA ShapeStays ==
  ASSUME DOMAIN deals \subseteq DOMAIN deals', NEW t, EditShape(t)
  PROVE  EditShape(t)'
BY DEF EditShape

\* The locals of one request change.
LEMMA HoldsInv ==
  ASSUME DealsInv, NEW s \in Sellers, NEW t, Holds(s, t), DealRows',
         DOMAIN deals \subseteq DOMAIN deals', EditShape(t)',
         oneAtATime' => /\ \A q \in Sellers \ {s} : edit[q] = NoEdit
                        /\ EditIsCovered(t)'
  PROVE  DealsInv'
<1>1. DOMAIN edit' = Sellers /\ edit'[s] = t /\ \A q \in Sellers \ {s} : edit'[q] = edit[q]
  BY DEF DealsInv, Holds
<1>2. \A q \in Sellers : EditShape(edit[q])'
  BY <1>1, ShapeStays DEF DealsInv
<1>3. ASSUME oneAtATime'
      PROVE  /\ \A p, q \in Sellers : edit'[p] # NoEdit /\ edit'[q] # NoEdit => p = q
             /\ \A q \in Sellers : EditIsCovered(edit[q])'
  <2>1. \A q \in Sellers \ {s} : edit'[q] = NoEdit
    BY <1>1, <1>3
  <2>2. \A q \in Sellers \ {s} : EditIsCovered(edit[q])'
    BY <2>1 DEF EditIsCovered, NoEdit
  <2>3. QED
    BY <1>1, <1>3, <2>1, <2>2
<1>4. QED
  BY <1>1, <1>2, <1>3 DEF DealsInv

\* A request that goes on is the only one at work, if any two have never been.
LEMMA OnlyOne ==
  ASSUME DealsInv, oneAtATime, NEW s \in Sellers, edit[s] # NoEdit
  PROVE  \A q \in Sellers \ {s} : edit[q] = NoEdit
BY DEF DealsInv

\* One step per action of the handlers.
LEMMA DealsNextInv == DealsInv /\ [DealsNext]_dvars => DealsInv'
<1> SUFFICES ASSUME DealsInv, [DealsNext]_dvars PROVE DealsInv'
  OBVIOUS
<1>0. DealRows /\ DOMAIN edit = Sellers /\ \A s \in Sellers : EditShape(edit[s])
  BY DEF DealsInv
<1>1. ASSUME NEW p \in Phases, NEW v \in Values, NEW l \in SUBSET Lists, CreateDeal(p, v, l)
      PROVE  DealsInv'
  <2>1. NewDeal(p, v, l) /\ UNCHANGED <<quote, granted, edit, oneAtATime>>
    BY <1>1 DEF CreateDeal
  <2>2. /\ DealRows' /\ DOMAIN deals \subseteq DOMAIN deals'
        /\ \A i \in DOMAIN deals : deals'[i] = deals[i]
    BY <1>0, <2>1, NewDealKeeps
  <2>3. \A s \in Sellers : EditShape(edit[s])'
    BY <1>0, <2>1, <2>2, ShapeStays
  <2>4. \A s \in Sellers : oneAtATime' => EditIsCovered(edit[s])'
    BY <1>0, <2>1, <2>2 DEF DealsInv, EditShape, EditIsCovered, Closes, WorthAfter
  <2>5. QED
    BY <2>1, <2>2, <2>3, <2>4 DEF DealsInv
<1>2. ASSUME NEW i \in DOMAIN deals, DeleteDeal(i) PROVE DealsInv'
  <2> DEFINE new == [deals[i] EXCEPT !.live = FALSE]
  <2>1. new \in Deal
    BY <1>0, DealIndices DEF Deal
  <2>2. deals' = [deals EXCEPT ![i] = new]
        /\ oneAtATime' = (oneAtATime /\ NobodyEdits) /\ UNCHANGED <<granted, edit>>
    BY <1>2, <1>0, DealIndices DEF DeleteDeal, Deal
  <2> HIDE DEF new
  <2>3. DealRows' /\ DOMAIN deals' = DOMAIN deals
    BY <1>0, <2>1, <2>2 DEF DealRows
  <2>4. \A s \in Sellers : EditShape(edit[s])'
    BY <1>0, <2>2, <2>3, ShapeStays
  <2>5. oneAtATime' => \A s \in Sellers : edit'[s] = NoEdit /\ EditIsCovered(edit[s])'
    <3>1. oneAtATime' => \A s \in Sellers : edit'[s] = NoEdit
      BY <2>2 DEF NobodyEdits
    <3>2. QED
      BY <3>1, NoEditKnows
  <2>6. QED
    BY <1>0, <2>2, <2>3, <2>4, <2>5 DEF DealsInv
<1>3. ASSUME NEW i \in DOMAIN deals, NEW a \in Values, Grant(i, a) PROVE DealsInv'
  <2>1. granted' = [granted EXCEPT ![i] = @ \cup {a}] /\ UNCHANGED <<deals, edit, oneAtATime>>
    BY <1>3 DEF Grant
  <2>2. DealRows'
    BY <1>0, <2>1 DEF DealRows
  <2>3. QED
    BY <2>1, <2>2 DEF DealsInv, EditShape, EditIsCovered, Closes, WorthAfter
<1>4. ASSUME NEW i \in DOMAIN deals, NEW s \in Sellers, NEW c \in Changes,
             NEW a \in granted[i] \cup {-1}, BeginEdit(s, i, c, a)
      PROVE  DealsInv'
  <2> DEFINE t == [pc |-> "write", of |-> i, change |-> c, approval |-> a]
  <2>1. /\ Admits(i, c, a) /\ Holds(s, t) /\ granted' = [granted EXCEPT ![i] = @ \ {a}]
        /\ oneAtATime' = (oneAtATime /\ NobodyEdits) /\ UNCHANGED deals
    BY <1>4 DEF BeginEdit
  <2>2. DealRows'
    BY <1>0, <2>1 DEF DealRows
  <2>3. a \in Nat \cup {-1}
    BY <1>0, DealIndices, DealBounds DEF DealRows
  <2>4. EditShape(t)'
    BY <2>1, <2>3 DEF EditShape
  <2>5. EditIsCovered(t)'
    BY <2>1 DEF EditIsCovered, Admits, Closes, WorthAfter, Gated
  <2>6. QED
    BY <1>0, <2>1, <2>2, <2>4, <2>5, HoldsInv DEF NobodyEdits
<1>5. ASSUME NEW s \in Sellers, ConvertQuote(s) PROVE DealsInv'
  <2> DEFINE t == [pc |-> "mark"]
  <2>1. /\ NewDeal("open", 0, {}) /\ Holds(s, t) /\ UNCHANGED granted
        /\ oneAtATime' = (oneAtATime /\ NobodyEdits)
    BY <1>5 DEF ConvertQuote
  <2>2. DealRows' /\ DOMAIN deals \subseteq DOMAIN deals'
    BY <1>0, <2>1, NewDealKeeps, DealBounds DEF Phases
  <2>3. EditShape(t)' /\ EditIsCovered(t)'
    BY DEF EditShape, EditIsCovered
  <2>4. QED
    BY <2>1, <2>2, <2>3, HoldsInv DEF NobodyEdits
<1>6. ASSUME NEW s \in Sellers, MarkConverted(s) \/ DropEdit(s) PROVE DealsInv'
  <2>1. edit[s] # NoEdit /\ Holds(s, NoEdit) /\ UNCHANGED <<deals, granted, oneAtATime>>
    BY <1>6 DEF MarkConverted, DropEdit, NoEdit
  <2>2. DealRows'
    BY <1>0, <2>1 DEF DealRows
  <2>3. QED
    BY <2>1, <2>2, OnlyOne, NoEditKnows, HoldsInv
<1>7. ASSUME NEW s \in Sellers, WriteDeal(s) \/ ClearLines(s) \/ AddLines(s) PROVE DealsInv'
  <2>0. PICK cleared, added :
          /\ cleared = [edit[s] EXCEPT !.pc = "clear"]
          /\ added = [edit[s] EXCEPT !.pc = "add"]
    OBVIOUS
  <2>1. PICK t :
          /\ Holds(s, t)
          /\ t = NoEdit \/ (t \in {cleared, added} /\ edit[s].change.lines \in Lists)
    <3>1. CASE WriteDeal(s)
      <4>1. Holds(s, NoEdit) \/ (Holds(s, cleared) /\ edit[s].change.lines # Same)
        BY <2>0, <3>1 DEF WriteDeal
      <4>2. edit[s].change.lines \in Lists \cup {Same}
        BY <1>0, <3>1 DEF WriteDeal, EditShape, Changes
      <4>3. QED
        BY <4>1, <4>2
    <3>2. CASE ClearLines(s)
      <4>1. Holds(s, added) /\ edit[s].change.lines \in Lists
        BY <1>0, <2>0, <3>2 DEF ClearLines, EditShape
      <4>2. QED
        BY <4>1
    <3>3. CASE AddLines(s)
      BY <3>3 DEF AddLines
    <3>4. QED
      BY <1>7, <3>1, <3>2, <3>3
  <2>2. PICK i, c : i = edit[s].of /\ c = edit[s].change
    OBVIOUS
  <2>3. /\ edit[s].pc \in {"write", "clear", "add"} /\ edit[s] # NoEdit
        /\ UNCHANGED <<granted, oneAtATime>>
    BY <1>7 DEF WriteDeal, ClearLines, AddLines, NoEdit
  <2>4. i \in DOMAIN deals /\ c \in Changes
    BY <1>0, <2>2, <2>3 DEF EditShape
  <2>5. PICK new \in Deal : deals' = deals \/ deals' = [deals EXCEPT ![i] = new]
    <3>0. deals[i] \in Deal
      BY <1>0, <2>4, DealIndices
    <3>1. CASE WriteDeal(s)
      <4>1. PICK p, v : /\ p = IF c.stage = Same THEN deals[i].stage ELSE c.stage
                        /\ v = IF c.value = Same THEN deals[i].value ELSE c.value
        OBVIOUS
      <4>2. p \in Phases /\ v \in Values
        BY <2>4, <3>0, <4>1 DEF Changes, Deal
      <4>3. deals' = deals \/ deals' = [deals EXCEPT ![i].stage = p, ![i].value = v]
        BY <3>1, <2>2, <4>1 DEF WriteDeal
      <4> DEFINE d == [deals[i] EXCEPT !.stage = p, !.value = v]
      <4>4. d \in Deal
        BY <3>0, <4>2 DEF Deal
      <4>5. [deals EXCEPT ![i].stage = p, ![i].value = v] = [deals EXCEPT ![i] = d]
        BY <1>0, <2>4, <3>0 DEF DealRows, Deal
      <4> HIDE DEF d
      <4>6. QED
        BY <4>3, <4>4, <4>5
    <3>2. CASE ClearLines(s)
      <4> DEFINE d == [deals[i] EXCEPT !.lines = {}]
      <4>1. d \in Deal
        BY <3>0 DEF Deal
      <4>2. deals' = deals \/ deals' = [deals EXCEPT ![i] = d]
        BY <2>2, <3>2 DEF ClearLines
      <4> HIDE DEF d
      <4>3. QED
        BY <4>1, <4>2
    <3>3. CASE AddLines(s)
      <4>1. CASE deals' = deals
        BY <3>0, <4>1
      <4>2. CASE deals' = [deals EXCEPT ![i].lines = @ \cup {edit[s].change.lines}]
        <5>1. PICK d : d = [deals[i] EXCEPT !.lines = @ \cup {c.lines}]
          OBVIOUS
        <5>2. deals' = [deals EXCEPT ![i] = d]
          BY <2>2, <4>2, <5>1
        <5>3. c.lines \in Lists
          BY <1>0, <2>2, <3>3 DEF AddLines, EditShape
        <5>4. QED
          BY <3>0, <5>1, <5>2, <5>3 DEF Deal
      <4>3. QED
        BY <2>2, <3>3, <4>1, <4>2 DEF AddLines
    <3>4. QED
      BY <1>7, <3>1, <3>2, <3>3
  <2>6. DealRows' /\ DOMAIN deals' = DOMAIN deals
    BY <1>0, <2>3, <2>4, <2>5 DEF DealRows
  <2>7. EditShape(t)' /\ EditIsCovered(t)'
    <3>1. CASE t = NoEdit
      BY <3>1, NoEditKnows
    <3>2. CASE t \in {cleared, added} /\ edit[s].change.lines \in Lists
      <4>1. t.pc \in {"clear", "add"} /\ t.of = i /\ t.change = c
        <5>1. cleared.pc = "clear" /\ cleared.of = i /\ cleared.change = c
          BY <2>0, <2>2, <2>3
        <5>2. added.pc = "add" /\ added.of = i /\ added.change = c
          BY <2>0, <2>2, <2>3
        <5>3. QED
          BY <3>2, <5>1, <5>2
      <4>2. QED
        BY <2>2, <2>4, <2>6, <3>2, <4>1 DEF EditShape, EditIsCovered
    <3>3. QED
      BY <2>1, <3>1, <3>2
  <2>8. QED
    BY <2>1, <2>3, <2>6, <2>7, OnlyOne, HoldsInv
<1>8. CASE UNCHANGED dvars
  BY <1>8 DEF dvars, DealsInv, DealRows, EditShape, EditIsCovered, Closes, WorthAfter
<1>9. QED
  <2>1. \A l \in Lists : {l} \in SUBSET Lists
    OBVIOUS
  <2>2. {} \in SUBSET Lists
    OBVIOUS
  <2>3. QED
    BY <1>1, <1>2, <1>3, <1>4, <1>5, <1>6, <1>7, <1>8, <2>1, <2>2 DEF DealsNext

\* Deals and requests under way keep their shape, and taking turns no request
\* writes more than the gate let it (AdminUpdateOpportunity).
THEOREM DealsInvariant == DealsSpec => []DealsInv
<1>1. DealsInit => DealsInv
  BY DealsInitInv
<1>2. DealsInv /\ [DealsNext]_dvars => DealsInv'
  BY DealsNextInv
<1>3. QED
  BY <1>1, <1>2, PTL DEF DealsSpec

\* A deal that this step makes a won one, at a value that has to be approved.
WinsGated(i) ==
  /\ deals'[i].stage = "won" /\ Gated(deals'[i].value)
  /\ i \in DOMAIN deals => deals[i].stage # "won"

\* Only a gated edit can do that: a new deal may not, and nothing else sets a stage.
LEMMA NewDealWinsUngated ==
  ASSUME DealsInv, NEW stage \in Phases, NEW value \in Values, NEW lines \in SUBSET Lists,
         NewDeal(stage, value, lines), UNCHANGED granted, ~(stage = "won" /\ Gated(value)),
         NEW i \in DOMAIN deals'
  PROVE  ~WinsGated(i)
BY NewDealKeeps DEF DealsInv, WinsGated

\* An edit that wins a deal writes what its approval covers.
LEMMA EditWinsCovered ==
  ASSUME DealsInv, oneAtATime, NEW s \in Sellers, WriteDeal(s), NEW i \in DOMAIN deals',
         WinsGated(i)
  PROVE  edit[s].pc = "write" /\ edit[s].of = i /\ edit[s].approval >= deals'[i].value
<1>1. PICK c, k : c = edit[s].change /\ k = edit[s].of
  OBVIOUS
<1>2. /\ edit[s].pc = "write" /\ EditShape(edit[s]) /\ EditIsCovered(edit[s]) /\ DealRows
  BY DEF DealsInv, WriteDeal
<1>3. k \in DOMAIN deals /\ c \in Changes
  BY <1>1, <1>2 DEF EditShape
<1>4. PICK p, v : /\ p = IF c.stage = Same THEN deals[k].stage ELSE c.stage
                  /\ v = IF c.value = Same THEN deals[k].value ELSE c.value
  OBVIOUS
<1>5. deals' = deals \/ deals' = [deals EXCEPT ![k].stage = p, ![k].value = v]
  BY <1>1, <1>4 DEF WriteDeal
<1>6. deals' # deals
  BY DEF WinsGated
<1> DEFINE d == [deals[k] EXCEPT !.stage = p, !.value = v]
<1>7. d.stage = p /\ d.value = v
  BY <1>2, <1>3, DealIndices DEF Deal
<1>8. deals' = [deals EXCEPT ![k] = d]
  BY <1>2, <1>3, <1>5, <1>6, DealIndices DEF Deal, DealRows
<1> HIDE DEF d
<1>9. DOMAIN deals' = DOMAIN deals /\ deals'[k] = d /\ \A j \in DOMAIN deals : j # k => deals'[j] = deals[j]
  BY <1>2, <1>3, <1>8 DEF DealRows
<1>10. i = k /\ p = "won" /\ deals[k].stage # "won" /\ Gated(v)
  BY <1>7, <1>9 DEF WinsGated
<1>11. Closes(k, c) /\ v = WorthAfter(k, c)
  BY <1>4, <1>10 DEF Closes, WorthAfter
<1>12. edit[s].approval >= v
  BY <1>1, <1>2, <1>10, <1>11 DEF EditIsCovered
<1>13. QED
  BY <1>1, <1>2, <1>7, <1>9, <1>10, <1>12

\* One step per action of the handlers.
LEMMA OnlyEditsWin ==
  ASSUME DealsInv, [DealsNext]_dvars, oneAtATime', NEW i \in DOMAIN deals', WinsGated(i)
  PROVE  \E s \in Sellers :
           edit[s].pc = "write" /\ edit[s].of = i /\ edit[s].approval >= deals'[i].value
<1>0. DealRows /\ deals' # deals
  BY DEF DealsInv, WinsGated
<1>1. ASSUME NEW p \in Phases, NEW v \in Values, NEW l \in SUBSET Lists, CreateDeal(p, v, l)
      PROVE  FALSE
  BY <1>1, NewDealWinsUngated DEF CreateDeal
<1>2. ASSUME NEW s \in Sellers, ConvertQuote(s) PROVE FALSE
  BY <1>2, NewDealWinsUngated, DealBounds DEF ConvertQuote, Phases
<1>3. ASSUME NEW s \in Sellers, WriteDeal(s)
      PROVE  edit[s].pc = "write" /\ edit[s].of = i /\ edit[s].approval >= deals'[i].value
  <2>1. oneAtATime
    BY <1>3 DEF WriteDeal
  <2>2. QED
    BY <1>3, <2>1, EditWinsCovered
<1>4. ASSUME NEW k \in DOMAIN deals, DeleteDeal(k) PROVE FALSE
  <2>1. deals' = [deals EXCEPT ![k].live = FALSE] /\ deals[k] \in Deal
    BY <1>0, <1>4, DealIndices DEF DeleteDeal
  <2>2. i \in DOMAIN deals /\ deals'[i].stage = deals[i].stage
    BY <1>0, <2>1 DEF Deal, DealRows
  <2>3. QED
    BY <2>2 DEF WinsGated
<1>5. ASSUME NEW s \in Sellers, ClearLines(s) \/ AddLines(s) PROVE FALSE
  <2>1. PICK k, l : k = edit[s].of /\ deals' = [deals EXCEPT ![k].lines = l]
    <3>1. CASE ClearLines(s)
      BY <1>0, <3>1 DEF ClearLines
    <3>2. CASE AddLines(s)
      <4>1. PICK l : l = deals[edit[s].of].lines \cup {edit[s].change.lines}
        OBVIOUS
      <4>2. deals' = [deals EXCEPT ![edit[s].of].lines = l]
        BY <1>0, <3>2, <4>1 DEF AddLines
      <4>3. QED
        BY <4>2
    <3>3. QED
      BY <1>5, <3>1, <3>2
  <2>2. i \in DOMAIN deals /\ deals'[i].stage = deals[i].stage
    BY <1>0, <2>1, DealIndices DEF Deal, DealRows
  <2>3. QED
    BY <2>2 DEF WinsGated
<1>6. ASSUME NEW k \in DOMAIN deals, NEW a \in Values, Grant(k, a) PROVE FALSE
  BY <1>0, <1>6 DEF Grant
<1>7. ASSUME NEW k \in DOMAIN deals, NEW s \in Sellers, NEW c \in Changes,
             NEW a \in granted[k] \cup {-1}, BeginEdit(s, k, c, a)
      PROVE  FALSE
  BY <1>0, <1>7 DEF BeginEdit
<1>8. ASSUME NEW s \in Sellers, MarkConverted(s) \/ DropEdit(s) PROVE FALSE
  BY <1>0, <1>8 DEF MarkConverted, DropEdit
<1>9. CASE UNCHANGED dvars
  BY <1>0, <1>9 DEF dvars
<1>10. QED
  <2>1. \A l \in Lists : {l} \in SUBSET Lists
    OBVIOUS
  <2>2. {} \in SUBSET Lists
    OBVIOUS
  <2>3. QED
    BY <1>1, <1>2, <1>3, <1>4, <1>5, <1>6, <1>7, <1>8, <1>9, <2>1, <2>2 DEF DealsNext

\* While requests take turns, a deal is won at a value that needs no approval or
\* that its request had one for, whatever values, line items and other requests
\* there are (AdminUpdateOpportunity, AdminCreateOpportunity).
THEOREM WonAsApprovedHolds == DealsSpec => WonAsApprovedInTurn
<1>1. DealsInv /\ [DealsNext]_dvars =>
        [\A i \in DOMAIN deals' :
           oneAtATime' /\ deals'[i].stage = "won" /\ Gated(deals'[i].value)
           /\ (i \in DOMAIN deals => deals[i].stage # "won")
             => \E s \in Sellers :
                  /\ edit[s].pc = "write" /\ edit[s].of = i
                  /\ edit[s].approval >= deals'[i].value]_dvars
  BY OnlyEditsWin DEF WinsGated
<1>2. QED
  BY <1>1, DealsInvariant, PTL DEF DealsSpec, WonAsApprovedInTurn

-----------------------------------------------------------------------------
(* The evidence of a signed contract *)

\* A sequence, of whatever there is in it.
IsSequence(s) == s \in Seq({s[i] : i \in DOMAIN s})

\* The columns of the contract, and the locals of a handler that stores a file.
ContractFields == {"status", "live", "key", "hash", "version"}
StoringFields == {"pc", "file", "original", "again", "of", "row", "at"}

\* The steps of storing a version, and of a handler.
Saving == {"newest", "save", "version", "point", "record", "mark"}
Handling == Saving \cup {"status", "forget", "image"}

\* The tables keep their shape, and what is pointed at is stored.
ContractRows ==
  /\ contract # NoContract =>
       /\ DOMAIN contract = ContractFields
       /\ contract.key = 0 \/ contract.key \in DOMAIN bytes
  /\ serving \in BOOLEAN
  /\ IsSequence(bytes) /\ IsSequence(versions) /\ IsSequence(evidence)
  /\ \A i \in DOMAIN versions : versions[i].key \in DOMAIN bytes

\* The stored bytes a signature was put on, and the stamp.
Stamps(original, file) ==
  /\ original # Missing
  /\ file = [original EXCEPT !.stamps = @ + 1]
  /\ \/ \E v \in DOMAIN versions : bytes[versions[v].key] = original
     \/ skipped /\ Legacy \in DOMAIN bytes /\ bytes[Legacy] = original

\* There is a version of the file a contract points at.
Filed(c) == \E i \in DOMAIN versions : versions[i].key = c.key

\* What a handler or a boot under way has found out, and has stored.
DeskKnows(t) ==
  /\ t.pc \in {"free"} \cup Booting \cup Handling
  /\ t.pc = "free" => t = Free
  /\ t.pc # "free" => contract # NoContract
  /\ t.pc \in Handling => serving
  /\ t.pc \in Booting =>
       /\ t.key \in DOMAIN bytes /\ (~serving => t.key = contract.key)
       /\ t.key = contract.key \/ Filed(contract)
  /\ t.pc = "adopt" => \E i \in DOMAIN versions : versions[i].key = t.key
  /\ t.pc = "status" => (t.status = "signed" => born \/ evidence # <<>>)
  /\ t.pc \in Saving =>
       /\ DOMAIN t = StoringFields
       /\ Signing(t) => Stamps(t.original, t.file)
  /\ t.pc \in {"newest", "record"} => Signing(t)
  /\ t.pc = "version" =>
       t.row.key \in DOMAIN bytes /\ bytes[t.row.key] = t.file /\ t.row.hash = t.file
  /\ t.pc \in {"point", "record", "mark"} =>
       t.at \in DOMAIN versions /\ versions[t.at] = t.row /\ t.row.hash = t.file
  /\ t.pc = "mark" => evidence # <<>>

\* Before the first boot is through, nothing but boots touches the contract.
BootsFirst ==
  ~serving =>
    /\ contract # NoContract =>
         contract.live /\ contract.key \in {0, Legacy} /\ contract.version = 0
    /\ \A i \in DOMAIN versions : contract # NoContract /\ versions[i].key = contract.key

\* The rows, and what has to be true of them.
ContractStands ==
  /\ ContractRows /\ BootsFirst
  /\ contract = NoContract => versions = <<>> /\ born = FALSE
  /\ \A i \in DOMAIN evidence : evidence[i].signed \in DOMAIN versions
  /\ EvidenceStands

\* The rows stand, and every handler or boot knows what it has stored.
ContractsInv ==
  /\ ContractStands
  /\ DOMAIN desk = Desks
  /\ \A d \in Desks : DeskKnows(desk[d])

\* A sequence one longer.
LEMMA Appended ==
  ASSUME NEW s, IsSequence(s), NEW x, NEW t, t = Append(s, x)
  PROVE  /\ IsSequence(t) /\ Len(s) \in Nat /\ DOMAIN s = 1 .. Len(s)
         /\ DOMAIN t = DOMAIN s \cup {Len(s) + 1} /\ Len(t) = Len(s) + 1
         /\ t[Len(s) + 1] = x /\ t # <<>>
         /\ \A i \in DOMAIN s : t[i] = s[i]
<1> DEFINE R == {s[i] : i \in DOMAIN s}
           Q == {t[i] : i \in DOMAIN t}
<1>1. s \in Seq(R)
  BY DEF IsSequence
<1> HIDE DEF R
<1>2. s \in Seq(R \cup {x})
  BY <1>1
<1>3. t \in Seq(R \cup {x})
  BY <1>2
<1>4. /\ Len(s) \in Nat /\ DOMAIN s = 1 .. Len(s)
      /\ DOMAIN t = DOMAIN s \cup {Len(s) + 1} /\ Len(t) = Len(s) + 1
      /\ t[Len(s) + 1] = x
      /\ \A i \in DOMAIN s : t[i] = s[i]
  BY <1>1, <1>2, <1>3
<1>5. Len(t) \in Nat /\ DOMAIN t = 1 .. Len(t) /\ \A i \in 1 .. Len(t) : t[i] \in Q
  BY <1>3
<1>6. t \in [1 .. Len(t) -> R \cup {x}]
  BY <1>3, LenProperties
<1> HIDE DEF Q
<1>7. t \in Seq(Q)
  <2>1. t \in [1 .. Len(t) -> Q]
    BY <1>5, <1>6
  <2>2. QED
    BY <1>5, <2>1, SeqDef
<1>8. t # <<>>
  BY <1>4
<1>9. QED
  BY <1>4, <1>7, <1>8 DEF IsSequence, Q

\* The empty sequence has no elements, and every other has a last one.
LEMMA SomethingThere ==
  ASSUME NEW s, IsSequence(s)
  PROVE  /\ Len(s) \in Nat /\ DOMAIN s = 1 .. Len(s)
         /\ s # <<>> <=> DOMAIN s # {}
         /\ s # <<>> => Len(s) \in DOMAIN s
<1>1. s \in Seq({s[i] : i \in DOMAIN s})
  BY DEF IsSequence
<1> DEFINE R == {s[i] : i \in DOMAIN s}
<1> HIDE DEF R
<1>2. s \in Seq(R)
  BY <1>1 DEF R
<1>3. QED
  BY <1>2

\* Stored bytes, versions and records are only ever added to, no deed of the
\* contract is undone, no replica that serves stops serving, and none that skipped
\* a file is taken not to have.
Adds(new, old) ==
  DOMAIN old \subseteq DOMAIN new /\ \A i \in DOMAIN old : new[i] = old[i]

\* Nothing stored is ever taken back, and the contract moves to a file with a version.
Accrues ==
  /\ Adds(bytes', bytes) /\ Adds(versions', versions) /\ Adds(evidence', evidence)
  /\ evidence # <<>> => evidence' # <<>>
  /\ serving => serving'
  /\ contract # NoContract =>
       /\ contract' # NoContract /\ born' = born
       /\ contract'.key = contract.key \/ Filed(contract)'
  /\ (~serving' /\ contract # NoContract) => contract'.key = contract.key
  /\ skipped => skipped'

\* So what a handler has found stays so ...
LEMMA KnownStays ==
  ASSUME ContractRows, Accrues, NEW t, DeskKnows(t)
  PROVE  DeskKnows(t)'
<1>1. \A o, f : Stamps(o, f) => Stamps(o, f)'
  BY DEF Stamps, Accrues, Adds, ContractRows
<1>2. t.pc \in Saving => DOMAIN t = StoringFields /\ (Signing(t) => Stamps(t.original, t.file)')
  BY <1>1 DEF DeskKnows
<1>3. t.pc # "free" => contract # NoContract /\ contract' # NoContract
  BY DEF DeskKnows, Accrues
<1>4. t.pc \in Booting => t.key \in DOMAIN bytes' /\ (~serving' => t.key = contract'.key)
  BY <1>3 DEF DeskKnows, Accrues, Adds, Booting
<1>a. t.pc \in Booting => t.key = contract'.key \/ Filed(contract)'
  <2>1. Filed(contract) /\ contract'.key = contract.key => Filed(contract)'
    BY DEF Filed, Accrues, Adds
  <2>2. QED
    BY <1>3, <2>1 DEF DeskKnows, Accrues, Booting
<1>5. t.pc = "adopt" => \E i \in DOMAIN versions' : versions'[i].key = t.key
  BY DEF DeskKnows, Accrues, Adds
<1>6. t.pc = "version" => t.row.key \in DOMAIN bytes' /\ bytes'[t.row.key] = t.file
  BY DEF DeskKnows, Accrues, Adds
<1>7. t.pc \in {"point", "record", "mark"} => t.at \in DOMAIN versions' /\ versions'[t.at] = t.row
  BY DEF DeskKnows, Accrues, Adds
<1>8. t.pc \in Handling => serving'
  BY DEF DeskKnows, Accrues
<1>9. /\ t.pc = "status" => (t.status = "signed" => born' \/ evidence' # <<>>)
      /\ t.pc = "mark" => evidence' # <<>>
  BY <1>3 DEF DeskKnows, Accrues
<1>10. QED
  BY <1>2, <1>3, <1>4, <1>a, <1>5, <1>6, <1>7, <1>8, <1>9 DEF DeskKnows

\* ... at its own desk, which changes, ...
LEMMA SitsInv ==
  ASSUME ContractsInv, NEW d \in Desks, NEW t, Sits(d, t), Accrues, DeskKnows(t)',
         ContractStands'
  PROVE  ContractsInv'
<1>1. DOMAIN desk' = Desks /\ desk'[d] = t /\ \A x \in Desks \ {d} : desk'[x] = desk[x]
  BY DEF ContractsInv, Sits
<1>2. \A x \in Desks \ {d} : DeskKnows(desk[x])'
  BY <1>1, KnownStays DEF ContractsInv, ContractStands
<1>3. QED
  BY <1>1, <1>2 DEF ContractsInv

\* ... and where no desk changes.
LEMMA DesksStayInv ==
  ASSUME ContractsInv, UNCHANGED desk, Accrues, ContractStands'
  PROVE  ContractsInv'
<1>1. \A x \in Desks : DeskKnows(desk[x])'
  BY KnownStays DEF ContractsInv, ContractStands
<1>2. QED
  BY <1>1 DEF ContractsInv

\* A free desk knows nothing.
LEMMA FreeKnows == DeskKnows(Free) /\ DeskKnows(Free)'
BY DEF DeskKnows, Free, Booting, Saving, Handling

\* Where there is a record, something is stored.
LEMMA FirstThere ==
  ASSUME ContractStands, NEW i \in DOMAIN evidence
  PROVE  Legacy \in DOMAIN bytes
<1>1. PICK k \in DOMAIN bytes : k = versions[evidence[i].signed].key
  BY DEF ContractStands, ContractRows
<1>2. IsSequence(bytes)
  BY DEF ContractStands, ContractRows
<1>3. QED
  BY <1>1, <1>2, SomethingThere DEF Legacy

\* Records and versions that only grow stay evidence.
LEMMA EvidenceKept ==
  ASSUME ContractStands, Accrues, UNCHANGED evidence
  PROVE  EvidenceSurvives' /\ \A i \in DOMAIN evidence : evidence[i].signed \in DOMAIN versions'
<1>1. \A i \in DOMAIN evidence : evidence[i].signed \in DOMAIN versions'
  BY DEF ContractStands, Accrues, Adds
<1>2. \A i \in DOMAIN evidence :
        versions'[evidence[i].signed].hash = evidence[i].signedHash
  BY DEF ContractStands, Accrues, Adds, EvidenceStands, EvidenceSurvives
<1>3. \A i \in DOMAIN evidence :
        \/ \E v \in DOMAIN versions' : bytes'[versions'[v].key] = evidence[i].originalHash
        \/ skipped' /\ bytes'[Legacy] = evidence[i].originalHash
  <2> SUFFICES ASSUME NEW i \in DOMAIN evidence
               PROVE  \/ \E v \in DOMAIN versions' :
                           bytes'[versions'[v].key] = evidence[i].originalHash
                      \/ skipped' /\ bytes'[Legacy] = evidence[i].originalHash
    OBVIOUS
  <2>1. CASE \E v \in DOMAIN versions : bytes[versions[v].key] = evidence[i].originalHash
    <3>1. PICK v \in DOMAIN versions : bytes[versions[v].key] = evidence[i].originalHash
      BY <2>1
    <3>2. /\ v \in DOMAIN versions' /\ versions'[v] = versions[v]
          /\ bytes'[versions[v].key] = bytes[versions[v].key]
      BY DEF ContractStands, ContractRows, Accrues, Adds
    <3>3. QED
      BY <3>1, <3>2
  <2>2. CASE skipped /\ bytes[Legacy] = evidence[i].originalHash
    <3>1. Legacy \in DOMAIN bytes
      BY FirstThere
    <3>2. QED
      BY <2>2, <3>1 DEF Accrues, Adds
  <2>3. QED
    BY <2>1, <2>2 DEF ContractStands, EvidenceStands, EvidenceSurvives
<1>4. QED
  BY <1>1, <1>2, <1>3 DEF ContractStands, EvidenceStands, EvidenceSurvives

\* A step that only notes something at a desk.
LEMMA DeskNotes ==
  ASSUME ContractsInv, NEW d \in Desks, NEW t, Sits(d, t), DeskKnows(t),
         UNCHANGED <<contract, bytes, versions, evidence, serving, born, skipped>>
  PROVE  ContractsInv'
<1>1. Accrues /\ ContractStands'
  BY DEF ContractsInv, ContractStands, ContractRows, BootsFirst, EvidenceStands, VersionsStand,
         EvidenceSurvives, SignedIsBackedOnceMade, Accrues, Adds
<1>2. DeskKnows(t)'
  BY <1>1, KnownStays DEF ContractsInv, ContractStands
<1>3. QED
  BY <1>1, <1>2, SitsInv

\* The file the contract points at has a version, as it has had since the first boot,
\* or is one that a boot skipped.
Versioned(c) ==
  \/ c.key = 0
  \/ Filed(c)
  \/ skipped /\ c.key = Legacy /\ c.version = 0

\* Once a replica serves, the contract's file has a version, unless it was skipped.
LEMMA ServingVersioned ==
  ASSUME ContractStands, serving, contract # NoContract
  PROVE  Versioned(contract)
BY DEF ContractStands, EvidenceStands, VersionsStand, Versioned, Filed

\* The contracts row is written, or found to be gone.
LEMMA WriteKeeps ==
  ASSUME ContractStands, contract # NoContract, NEW new, DOMAIN new = ContractFields,
         Write(new), serving' = TRUE, Versioned(contract), Versioned(new),
         new.status = "signed" /\ ~born => evidence # <<>>,
         new.key = contract.key \/ Filed(new),
         UNCHANGED <<bytes, versions, evidence, born, skipped>>
  PROVE  ContractStands' /\ Accrues
<1>1. contract' = contract \/ contract' = new
  BY DEF Write
<1>2. new # NoContract
  BY DEF ContractFields, NoContract
<1>3. Accrues
  BY <1>1, <1>2 DEF Accrues, Adds, Filed
<1>4. ContractRows'
  BY <1>1, <1>2 DEF ContractStands, ContractRows, Filed
<1>5. VersionsStand'
  BY <1>1 DEF ContractStands, EvidenceStands, VersionsStand, Versioned, Filed
<1>6. SignedIsBackedOnceMade'
  BY <1>1 DEF ContractStands, EvidenceStands, SignedIsBackedOnceMade
<1>7. QED
  BY <1>1, <1>2, <1>3, <1>4, <1>5, <1>6, EvidenceKept
     DEF ContractStands, BootsFirst, EvidenceStands

\* A boot that is through, and leaves the contract as it is.
LEMMA ServeKeeps ==
  ASSUME ContractStands, serving' = TRUE, contract # NoContract => Versioned(contract)',
         skipped => skipped', UNCHANGED <<contract, bytes, versions, evidence, born>>
  PROVE  ContractStands' /\ Accrues
<1>1. Accrues
  BY DEF Accrues, Adds
<1>2. ContractRows' /\ VersionsStand' /\ SignedIsBackedOnceMade'
  BY DEF ContractStands, ContractRows, EvidenceStands, VersionsStand, Versioned, Filed,
         SignedIsBackedOnceMade
<1>3. QED
  BY <1>1, <1>2, EvidenceKept DEF ContractStands, BootsFirst, EvidenceStands

\* A version of a stored file.
LEMMA VersionKeeps ==
  ASSUME ContractStands, contract # NoContract, NEW row, versions' = Append(versions, row),
         row.key \in DOMAIN bytes, row.hash \in {bytes[row.key], Missing},
         ~serving => row.key = contract.key,
         UNCHANGED <<contract, bytes, evidence, serving, born, skipped>>
  PROVE  ContractStands' /\ Accrues
<1>1. /\ IsSequence(versions') /\ Len(versions) \in Nat
      /\ DOMAIN versions' = DOMAIN versions \cup {Len(versions) + 1}
      /\ versions'[Len(versions) + 1] = row
      /\ \A i \in DOMAIN versions : versions'[i] = versions[i]
  <2>1. IsSequence(versions)
    BY DEF ContractStands, ContractRows
  <2>2. QED
    BY <2>1, Appended DEF IsSequence
<1>2. Accrues
  BY <1>1 DEF Accrues, Adds
<1>3. ContractRows'
  BY <1>1 DEF ContractStands, ContractRows
<1>4. BootsFirst'
  BY <1>1 DEF ContractStands, BootsFirst
<1>5. VersionsStand'
  BY <1>1 DEF ContractStands, EvidenceStands, VersionsStand
<1>6. QED
  BY <1>2, <1>3, <1>4, <1>5, EvidenceKept
     DEF ContractStands, EvidenceStands, SignedIsBackedOnceMade

\* At first there is at most a contract that was made before versions were.
LEMMA ContractsInitInv == ContractsInit => ContractsInv
<1> SUFFICES ASSUME ContractsInit PROVE ContractsInv
  OBVIOUS
<1>1. \A d \in Desks : desk[d] = Free /\ DOMAIN desk = Desks
  BY DEF ContractsInit
<1>2. /\ versions = <<>> /\ evidence = <<>> /\ serving = FALSE /\ born = FALSE
      /\ DOMAIN versions = {} /\ DOMAIN evidence = {}
  BY DEF ContractsInit
<1>3. contract # NoContract =>
        /\ DOMAIN contract = ContractFields /\ contract.live
        /\ contract.key \in {0, Legacy} /\ contract.version = 0
        /\ contract.key = 0 \/ contract.key \in DOMAIN bytes
        /\ contract.status # "signed"
  BY DEF ContractsInit, ContractFields, Legacy
<1>4. IsSequence(<<>>) /\ \A f : IsSequence(<<f>>)
  BY DEF IsSequence
<1>5. IsSequence(bytes) /\ IsSequence(versions) /\ IsSequence(evidence)
  BY <1>4 DEF ContractsInit
<1>6. ContractStands
  <2>1. ContractRows /\ BootsFirst
    BY <1>2, <1>3, <1>5 DEF ContractRows, BootsFirst
  <2>2. EvidenceStands
    BY <1>2, <1>3 DEF EvidenceStands, VersionsStand, EvidenceSurvives, SignedIsBackedOnceMade
  <2>3. QED
    BY <1>2, <2>1, <2>2 DEF ContractStands
<1>7. DOMAIN desk = Desks
  BY DEF ContractsInit
<1>8. QED
  BY <1>1, <1>6, <1>7, FreeKnows DEF ContractsInv

\* One step per action of the handlers, of a boot and of its failures.
LEMMA ContractsNextInv == ContractsInv /\ [ContractsNext]_cvars => ContractsInv'
<1> SUFFICES ASSUME ContractsInv, [ContractsNext]_cvars PROVE ContractsInv'
  OBVIOUS
<1>0. ContractStands /\ \A d \in Desks : DeskKnows(desk[d])
  BY DEF ContractsInv
<1>a. IsSequence(bytes) /\ IsSequence(versions) /\ IsSequence(evidence)
  BY <1>0 DEF ContractStands, ContractRows
<1>1. ASSUME NEW d \in Desks, BeginBackfill(d) PROVE ContractsInv'
  <2> DEFINE t == [pc |-> "count", key |-> contract.key]
  <2>1. CASE IsLive /\ contract.key # 0
    <3>1. Sits(d, t) /\ UNCHANGED <<contract, bytes, versions, evidence, serving, born, skipped>>
      BY <1>1, <2>1 DEF BeginBackfill
    <3>2. DeskKnows(t)
      BY <1>0, <2>1 DEF DeskKnows, Booting, Saving, Handling, IsLive, ContractStands, ContractRows
    <3>3. QED
      BY <3>1, <3>2, DeskNotes
  <2>2. CASE ~(IsLive /\ contract.key # 0)
    <3>1. serving' = TRUE /\ UNCHANGED <<contract, bytes, versions, evidence, born, skipped, desk>>
      BY <1>1, <2>2 DEF BeginBackfill
    <3>2. contract # NoContract => Versioned(contract)'
      BY <1>0, <2>2, <3>1, ServingVersioned DEF IsLive, Versioned, Filed, ContractStands, BootsFirst
    <3>3. QED
      BY <1>0, <3>1, <3>2, ServeKeeps, DesksStayInv
  <2>3. QED
    BY <2>1, <2>2
<1>2. ASSUME NEW d \in Desks, CountVersions(d) PROVE ContractsInv'
  <2>1. /\ DeskKnows(desk[d]) /\ desk[d].pc = "count" /\ contract # NoContract
        /\ ~serving => desk[d].key = contract.key
    BY <1>0, <1>2 DEF CountVersions, DeskKnows, Booting
  <2>2. CASE versions = <<>>
    <3>1. PICK t : t = [desk[d] EXCEPT !.pc = "legacy"]
      OBVIOUS
    <3>2. Sits(d, t) /\ UNCHANGED <<contract, bytes, versions, evidence, serving, born, skipped>>
      BY <1>2, <2>2, <3>1 DEF CountVersions, history
    <3>3. t.pc = "legacy" /\ t.key = desk[d].key
      BY <2>1, <3>1
    <3>4. DeskKnows(t)
      BY <2>1, <3>3 DEF DeskKnows, Booting, Saving, Handling
    <3>5. QED
      BY <3>2, <3>4, DeskNotes
  <2>3. CASE versions # <<>>
    <3>1. Sits(d, Free) /\ serving' = TRUE
          /\ UNCHANGED <<contract, bytes, versions, evidence, born, skipped>>
      BY <1>2, <2>3 DEF CountVersions, history
    <3>2. 1 \in DOMAIN versions
      BY <1>a, <2>3, SomethingThere
    <3>3. Versioned(contract)'
      BY <1>0, <2>1, <3>1, <3>2, ServingVersioned DEF ContractStands, BootsFirst, Versioned, Filed
    <3>4. QED
      BY <1>0, <3>1, <3>3, ServeKeeps, SitsInv, FreeKnows
  <2>4. QED
    BY <2>2, <2>3
<1>3. ASSUME NEW d \in Desks, RecordLegacy(d) PROVE ContractsInv'
  <2>1. PICK k : k = desk[d].key
    OBVIOUS
  <2>2. PICK h \in {bytes[k], Missing} :
          /\ versions' = Append(versions, [number |-> 1, key |-> k, hash |-> h])
          /\ Sits(d, [pc |-> "adopt", key |-> k, hash |-> h])
    BY <1>3, <2>1 DEF RecordLegacy
  <2> DEFINE row == [number |-> 1, key |-> k, hash |-> h]
             t == [pc |-> "adopt", key |-> k, hash |-> h]
  <2>3. /\ desk[d].pc = "legacy" /\ versions' = Append(versions, row) /\ Sits(d, t)
        /\ UNCHANGED <<contract, bytes, evidence, serving, born, skipped>>
    BY <1>3, <2>2 DEF RecordLegacy, history
  <2>4. /\ contract # NoContract /\ k \in DOMAIN bytes /\ (~serving => k = contract.key)
        /\ t.pc = "adopt" /\ t.key = k
    BY <1>0, <2>1, <2>3 DEF DeskKnows, Booting
  <2>5. row.key = k /\ row.hash \in {bytes[k], Missing}
    OBVIOUS
  <2> HIDE DEF row, t
  <2>6. ContractStands' /\ Accrues
    BY <1>0, <2>3, <2>4, <2>5, VersionKeeps
  <2>7. \E i \in DOMAIN versions' : versions'[i].key = k
    <3>1. Len(versions) + 1 \in DOMAIN versions' /\ versions'[Len(versions) + 1] = row
      BY <1>a, <2>3, Appended
    <3>2. QED
      BY <2>5, <3>1
  <2>a. /\ k \in DOMAIN bytes' /\ (~serving' => k = contract'.key)
        /\ contract' # NoContract
    BY <2>3, <2>4
  <2>b. k = contract'.key \/ Filed(contract)'
    <3>1. k = contract.key \/ Filed(contract)
      BY <1>0, <2>1, <2>3 DEF DeskKnows, Booting
    <3>2. QED
      BY <2>3, <2>6, <3>1 DEF Filed, Accrues, Adds
  <2>8. DeskKnows(t)'
    BY <2>4, <2>7, <2>a, <2>b DEF DeskKnows, Booting, Saving, Handling
  <2>9. QED
    BY <2>3, <2>6, <2>8, SitsInv
<1>4. ASSUME NEW d \in Desks, AdoptLegacy(d) PROVE ContractsInv'
  <2> DEFINE new == [contract EXCEPT !.hash = desk[d].hash, !.version = 1]
  <2>1. /\ desk[d].pc = "adopt" /\ Write(new) /\ Sits(d, Free) /\ serving' = TRUE
        /\ UNCHANGED <<bytes, versions, evidence, born, skipped>>
    BY <1>4 DEF AdoptLegacy, history
  <2>2. /\ contract # NoContract /\ DOMAIN contract = ContractFields
        /\ ~serving => desk[d].key = contract.key
        /\ \E i \in DOMAIN versions : versions[i].key = desk[d].key
    BY <1>0, <2>1 DEF DeskKnows, Booting, ContractStands, ContractRows
  <2>3. Versioned(contract)
    BY <1>0, <2>1, <2>2 DEF DeskKnows, Booting, Versioned, Filed
  <2>4. /\ DOMAIN new = ContractFields /\ new.key = contract.key
        /\ new.status = contract.status
    BY <2>2 DEF ContractFields
  <2>5. new.status = "signed" /\ ~born => evidence # <<>>
    BY <1>0, <2>2, <2>4 DEF ContractStands, EvidenceStands, SignedIsBackedOnceMade
  <2> HIDE DEF new
  <2>6. Versioned(new)
    <3>1. Filed(contract)
      BY <1>0, <2>1, <2>2 DEF DeskKnows, Booting, Filed
    <3>2. QED
      BY <2>4, <3>1 DEF Versioned, Filed
  <2>7. QED
    BY <1>0, <2>1, <2>2, <2>3, <2>4, <2>5, <2>6, WriteKeeps, SitsInv, FreeKnows
<1>5. ASSUME NEW d \in Desks, NEW s \in Statuses, BeginUpdate(d, s) PROVE ContractsInv'
  <2> DEFINE t == [pc |-> "status", status |-> s]
  <2>1. /\ IsLive /\ MayBecome(s) /\ serving /\ Sits(d, t)
        /\ UNCHANGED <<contract, bytes, versions, evidence, serving, born, skipped>>
    BY <1>5 DEF BeginUpdate, StartAt
  <2>2. s = "signed" => born \/ evidence # <<>>
    BY <1>0, <2>1 DEF MayBecome, IsLive, ContractStands, EvidenceStands, SignedIsBackedOnceMade
  <2>3. DeskKnows(t)
    BY <2>1, <2>2 DEF DeskKnows, Booting, Saving, Handling, IsLive
  <2>4. QED
    BY <2>1, <2>3, DeskNotes
<1>6. ASSUME NEW d \in Desks, WriteStatus(d) PROVE ContractsInv'
  <2>1. PICK s : s = desk[d].status
    OBVIOUS
  <2> DEFINE new == [contract EXCEPT !.status = s]
  <2>2. /\ desk[d].pc = "status" /\ Write(new) /\ Sits(d, Free)
        /\ UNCHANGED <<bytes, versions, evidence, serving, born, skipped>>
    BY <1>6, <2>1 DEF WriteStatus, history
  <2>3. /\ contract # NoContract /\ serving
        /\ s = "signed" => born \/ evidence # <<>>
    BY <1>0, <2>1, <2>2 DEF DeskKnows, Handling
  <2>4. /\ DOMAIN new = ContractFields /\ new.key = contract.key /\ new.status = s
        /\ new.version = contract.version
    BY <1>0, <2>3 DEF ContractStands, ContractRows, ContractFields
  <2>5. Versioned(contract)
    BY <1>0, <2>3, ServingVersioned
  <2> HIDE DEF new
  <2>6. Versioned(new)
    BY <2>4, <2>5 DEF Versioned, Filed
  <2>a. serving' = TRUE
    BY <2>2, <2>3, <1>0 DEF ContractStands, ContractRows
  <2>7. QED
    BY <1>0, <2>2, <2>3, <2>4, <2>5, <2>6, <2>a, WriteKeeps, SitsInv, FreeKnows
<1>7. ASSUME NEW d \in Desks, NEW doc \in Docs, BeginUpload(d, doc) PROVE ContractsInv'
  <2>1. PICK t : t = Storing(File(doc, 0), Missing, FALSE)
    OBVIOUS
  <2>2. /\ IsLive /\ serving /\ Sits(d, t)
        /\ UNCHANGED <<contract, bytes, versions, evidence, serving, born, skipped>>
    BY <1>7, <2>1 DEF BeginUpload, StartAt
  <2>3. t.pc = "save" /\ DOMAIN t = StoringFields /\ ~Signing(t)
    BY <2>1 DEF Storing, StoringFields, Signing
  <2>4. DeskKnows(t)
    BY <2>2, <2>3 DEF DeskKnows, Booting, Saving, Handling, IsLive
  <2>5. QED
    BY <2>2, <2>4, DeskNotes
<1>8. ASSUME NEW d \in Desks, NEW again \in BOOLEAN, BeginSign(d, again) PROVE ContractsInv'
  <2>0. PICK f : f = bytes[contract.key]
    OBVIOUS
  <2>1. PICK t : t = [Storing([f EXCEPT !.stamps = @ + 1], f, again) EXCEPT !.pc = "newest"]
    OBVIOUS
  <2>2. /\ IsLive /\ contract.key # 0 /\ f # Missing /\ serving /\ Sits(d, t)
        /\ UNCHANGED <<contract, bytes, versions, evidence, serving, born, skipped>>
    BY <1>8, <2>0, <2>1 DEF BeginSign, StartAt, Signable
  <2>3. /\ t.pc = "newest" /\ DOMAIN t = StoringFields /\ t.original = f
        /\ t.file = [f EXCEPT !.stamps = @ + 1]
    BY <2>1 DEF Storing, StoringFields
  <2>4. Stamps(t.original, t.file)
    BY <1>0, <2>0, <2>2, <2>3
       DEF Stamps, IsLive, ContractStands, ContractRows, EvidenceStands, VersionsStand
  <2>5. DeskKnows(t)
    BY <2>2, <2>3, <2>4 DEF DeskKnows, Booting, Saving, Handling, IsLive, Signing
  <2>6. QED
    BY <2>2, <2>5, DeskNotes
<1>9. ASSUME NEW d \in Desks, FindNewest(d) PROVE ContractsInv'
  <2>0. PICK i \in 0 .. Len(versions) : Sits(d, [desk[d] EXCEPT !.pc = "save", !.of = i])
    BY <1>9, Zenon DEF FindNewest
  <2>1. PICK t : t = [desk[d] EXCEPT !.pc = "save", !.of = i] /\ Sits(d, t)
    BY <2>0
  <2>2. /\ desk[d].pc = "newest"
        /\ UNCHANGED <<contract, bytes, versions, evidence, serving, born, skipped>>
    BY <1>9 DEF FindNewest, history
  <2>3. /\ contract # NoContract /\ serving /\ DOMAIN desk[d] = StoringFields
        /\ Stamps(desk[d].original, desk[d].file)
    BY <1>0, <2>2 DEF DeskKnows, Saving, Handling
  <2>4. /\ t.pc = "save" /\ DOMAIN t = StoringFields
        /\ t.original = desk[d].original /\ t.file = desk[d].file
    BY <2>1, <2>3 DEF StoringFields
  <2>5. DeskKnows(t)
    BY <2>3, <2>4 DEF DeskKnows, Booting, Saving, Handling
  <2>6. QED
    BY <2>1, <2>2, <2>5, DeskNotes
<1>10. ASSUME NEW d \in Desks, SaveFile(d) PROVE ContractsInv'
  <2>0. PICK n : Sits(d, [desk[d] EXCEPT !.pc = "version", !.row =
                            [number |-> n, key |-> Len(bytes'), hash |-> desk[d].file]])
    BY <1>10, Zenon DEF SaveFile
  <2>1. PICK t, row, file :
          /\ file = desk[d].file
          /\ row = [number |-> n, key |-> Len(bytes'), hash |-> file]
          /\ t = [desk[d] EXCEPT !.pc = "version", !.row = row] /\ Sits(d, t)
    BY <2>0, Zenon
  <2>2. /\ desk[d].pc = "save" /\ bytes' = Append(bytes, file)
        /\ UNCHANGED <<contract, versions, evidence, serving, born, skipped>>
    BY <1>10, <2>1 DEF SaveFile, history
  <2>3. /\ contract # NoContract /\ serving /\ DOMAIN desk[d] = StoringFields
        /\ Signing(desk[d]) => Stamps(desk[d].original, file)
    BY <1>0, <2>1, <2>2 DEF DeskKnows, Saving, Handling
  <2>4. /\ IsSequence(bytes') /\ Len(bytes) \in Nat
        /\ DOMAIN bytes' = DOMAIN bytes \cup {Len(bytes) + 1}
        /\ Len(bytes') = Len(bytes) + 1 /\ bytes'[Len(bytes) + 1] = file
        /\ \A i \in DOMAIN bytes : bytes'[i] = bytes[i]
    <3>1. PICK b : b = bytes'
      OBVIOUS
    <3>2. IsSequence(b)
      BY <1>a, <2>2, <3>1, Appended
    <3>3. Len(bytes) \in Nat /\ b # <<>> /\ b[Len(bytes) + 1] = file
      BY <1>a, <2>2, <3>1, Appended
    <3>4. DOMAIN b = DOMAIN bytes \cup {Len(bytes) + 1} /\ Len(b) = Len(bytes) + 1
      BY <1>a, <2>2, <3>1, Appended
    <3>5. \A i \in DOMAIN bytes : b[i] = bytes[i]
      BY <1>a, <2>2, <3>1, Appended
    <3>6. QED
      BY <3>1, <3>2, <3>3, <3>4, <3>5 DEF IsSequence
  <2>5. Accrues
    BY <2>2, <2>4 DEF Accrues, Adds
  <2>6. ContractRows' /\ BootsFirst' /\ VersionsStand' /\ SignedIsBackedOnceMade'
    BY <1>0, <2>2, <2>4 DEF ContractStands, ContractRows, BootsFirst, EvidenceStands,
       VersionsStand, SignedIsBackedOnceMade
  <2>7. ContractStands'
    BY <1>0, <2>2, <2>5, <2>6, EvidenceKept DEF ContractStands, EvidenceStands
  <2>8. /\ t.pc = "version" /\ DOMAIN t = StoringFields /\ t.row = row
        /\ t.original = desk[d].original /\ t.file = file
    BY <2>1, <2>3 DEF StoringFields
  <2>9. Signing(t) => Stamps(t.original, t.file)'
    BY <1>0, <2>2, <2>3, <2>4, <2>8 DEF Stamps, Signing, ContractStands, ContractRows
  <2>10. row.key \in DOMAIN bytes' /\ bytes'[row.key] = file /\ row.hash = file
    BY <2>1, <2>4
  <2>11. DeskKnows(t)'
    BY <2>2, <2>3, <2>8, <2>9, <2>10 DEF DeskKnows, Booting, Saving, Handling
  <2>12. QED
    BY <2>1, <2>5, <2>7, <2>11, SitsInv
<1>11. ASSUME NEW d \in Desks, StoreVersion(d) PROVE ContractsInv'
  <2>0. PICK next : next = (IF Signing(desk[d]) THEN "record" ELSE "point")
    OBVIOUS
  <2>1. PICK t, row, file :
          /\ file = desk[d].file /\ row = desk[d].row
          /\ t = [desk[d] EXCEPT !.at = Len(versions) + 1, !.pc = next]
    OBVIOUS
  <2>2. /\ desk[d].pc = "version" /\ versions' = Append(versions, row) /\ Sits(d, t)
        /\ UNCHANGED <<contract, bytes, evidence, serving, born, skipped>>
    BY <1>11, <2>0, <2>1 DEF StoreVersion, history
  <2>3. /\ contract # NoContract /\ serving /\ DOMAIN desk[d] = StoringFields
        /\ Signing(desk[d]) => Stamps(desk[d].original, file)
        /\ row.key \in DOMAIN bytes /\ bytes[row.key] = row.hash /\ row.hash = file
        /\ row.hash \in {bytes[row.key], Missing}
    BY <1>0, <2>1, <2>2 DEF DeskKnows, Saving, Handling
  <2>4. ContractStands' /\ Accrues
    BY <1>0, <2>2, <2>3, VersionKeeps
  <2>5. /\ Len(versions) + 1 \in DOMAIN versions' /\ versions'[Len(versions) + 1] = row
        /\ \A i \in DOMAIN versions : i \in DOMAIN versions' /\ versions'[i] = versions[i]
    BY <1>a, <2>2, Appended
  <2>6. /\ t.pc = next /\ DOMAIN t = StoringFields /\ t.row = row
        /\ t.original = desk[d].original /\ t.file = file /\ t.at = Len(versions) + 1
    BY <2>1, <2>3 DEF StoringFields
  <2>7. Signing(t) => Stamps(t.original, t.file)'
    BY <2>2, <2>3, <2>5, <2>6 DEF Stamps, Signing
  <2>8. next = "record" \/ next = "point"
    BY <2>0
  <2>9. next = "record" => Signing(t)
    BY <2>0, <2>6 DEF Signing
  <2>10. DeskKnows(t)'
    BY <2>2, <2>3, <2>5, <2>6, <2>7, <2>8, <2>9 DEF DeskKnows, Booting, Saving, Handling
  <2>11. QED
    BY <2>2, <2>4, <2>10, SitsInv
<1>12. ASSUME NEW d \in Desks, MovePointer(d) PROVE ContractsInv'
  <2>1. PICK row, at : row = desk[d].row /\ at = desk[d].at
    OBVIOUS
  <2> DEFINE new == Pointing(row)
  <2>2. /\ desk[d].pc = "point" /\ Write(new) /\ Sits(d, Free)
        /\ UNCHANGED <<bytes, versions, evidence, serving, born, skipped>>
    BY <1>12, <2>1 DEF MovePointer, history
  <2>3. /\ contract # NoContract /\ serving /\ at \in DOMAIN versions
        /\ versions[at] = row
    BY <1>0, <2>1, <2>2 DEF DeskKnows, Saving, Handling
  <2>4. DOMAIN new = ContractFields /\ new.key = row.key /\ new.status = contract.status
    BY <1>0, <2>3 DEF ContractStands, ContractRows, ContractFields, Pointing
  <2>5. new.status = "signed" /\ ~born => evidence # <<>>
    BY <1>0, <2>3, <2>4 DEF ContractStands, EvidenceStands, SignedIsBackedOnceMade
  <2>6. Versioned(contract)
    BY <1>0, <2>3, ServingVersioned
  <2> HIDE DEF new
  <2>7. Versioned(new) /\ Filed(new)
    BY <2>3, <2>4 DEF Versioned, Filed
  <2>a. serving' = TRUE
    BY <2>2, <2>3, <1>0 DEF ContractStands, ContractRows
  <2>8. QED
    BY <1>0, <2>2, <2>3, <2>4, <2>5, <2>6, <2>7, <2>a, WriteKeeps, SitsInv, FreeKnows
<1>13. ASSUME NEW d \in Desks, RecordSignature(d) PROVE ContractsInv'
  <2>1. PICK t, original, file, at, row :
          /\ t = [desk[d] EXCEPT !.pc = "mark"]
          /\ original = desk[d].original /\ file = desk[d].file /\ at = desk[d].at
          /\ row = desk[d].row
    OBVIOUS
  <2>2. PICK r : r = [original |-> desk[d].of, signed |-> at,
                      originalHash |-> original, signedHash |-> file]
    OBVIOUS
  <2>3. /\ desk[d].pc = "record" /\ evidence' = Append(evidence, r) /\ Sits(d, t)
        /\ UNCHANGED <<contract, bytes, versions, serving, born, skipped>>
    BY <1>13, <2>1, <2>2 DEF RecordSignature, history
  <2>4. /\ contract # NoContract /\ serving /\ DOMAIN desk[d] = StoringFields
        /\ Signing(desk[d]) /\ Stamps(original, file)
        /\ at \in DOMAIN versions /\ versions[at] = row /\ row.hash = file
    BY <1>0, <2>1, <2>3 DEF DeskKnows, Saving, Handling
  <2>5. /\ IsSequence(evidence') /\ evidence' # <<>>
        /\ DOMAIN evidence' = DOMAIN evidence \cup {Len(evidence) + 1}
        /\ evidence'[Len(evidence) + 1] = r
        /\ \A i \in DOMAIN evidence : evidence'[i] = evidence[i]
    <3>1. PICK b : b = evidence'
      OBVIOUS
    <3>2. IsSequence(b)
      BY <1>a, <2>3, <3>1, Appended
    <3>3. Len(evidence) \in Nat /\ b # <<>> /\ b[Len(evidence) + 1] = r
      BY <1>a, <2>3, <3>1, Appended
    <3>4. DOMAIN b = DOMAIN evidence \cup {Len(evidence) + 1} /\ Len(b) = Len(evidence) + 1
      BY <1>a, <2>3, <3>1, Appended
    <3>5. \A i \in DOMAIN evidence : b[i] = evidence[i]
      BY <1>a, <2>3, <3>1, Appended
    <3>6. QED
      BY <3>1, <3>2, <3>3, <3>4, <3>5 DEF IsSequence
  <2>6. Accrues
    BY <2>3, <2>5 DEF Accrues, Adds
  <2>7. /\ r.signed = at /\ r.signedHash = file /\ r.originalHash = original
    BY <2>2
  <2>8. \A i \in DOMAIN evidence' :
          /\ evidence'[i].signed \in DOMAIN versions
          /\ versions[evidence'[i].signed].hash = evidence'[i].signedHash
          /\ evidence'[i].originalHash # Missing
          /\ evidence'[i].signedHash = [evidence'[i].originalHash EXCEPT !.stamps = @ + 1]
          /\ \/ \E v \in DOMAIN versions : bytes[versions[v].key] = evidence'[i].originalHash
             \/ skipped /\ bytes[Legacy] = evidence'[i].originalHash
    BY <1>0, <2>4, <2>5, <2>7 DEF ContractStands, EvidenceStands, EvidenceSurvives, Stamps
  <2>9. EvidenceSurvives' /\ \A i \in DOMAIN evidence' : evidence'[i].signed \in DOMAIN versions'
    BY <2>3, <2>8 DEF EvidenceSurvives
  <2>10. ContractRows' /\ BootsFirst' /\ VersionsStand' /\ SignedIsBackedOnceMade'
    BY <1>0, <2>3, <2>5 DEF ContractStands, ContractRows, BootsFirst, EvidenceStands,
       VersionsStand, SignedIsBackedOnceMade
  <2>11. ContractStands'
    BY <1>0, <2>3, <2>9, <2>10 DEF ContractStands, EvidenceStands
  <2>12. /\ t.pc = "mark" /\ DOMAIN t = StoringFields /\ t.original = original
         /\ t.file = file /\ t.at = at /\ t.row = row
    BY <2>1, <2>4 DEF StoringFields
  <2>13. Stamps(t.original, t.file)'
    BY <2>3, <2>4, <2>12 DEF Stamps
  <2>14. DeskKnows(t)'
    BY <2>3, <2>4, <2>5, <2>12, <2>13 DEF DeskKnows, Booting, Saving, Handling
  <2>15. QED
    BY <2>3, <2>6, <2>11, <2>14, SitsInv
<1>14. ASSUME NEW d \in Desks, MarkSigned(d) PROVE ContractsInv'
  <2>1. PICK row, at, t :
          /\ row = desk[d].row /\ at = desk[d].at
          /\ t = IF desk[d].again THEN [desk[d] EXCEPT !.pc = "forget"] ELSE Free
    OBVIOUS
  <2> DEFINE new == [Pointing(row) EXCEPT !.status = "signed"]
  <2>2. /\ desk[d].pc = "mark" /\ Write(new) /\ Sits(d, t)
        /\ UNCHANGED <<bytes, versions, evidence, serving, born, skipped>>
    BY <1>14, <2>1 DEF MarkSigned, history
  <2>3. /\ contract # NoContract /\ serving /\ at \in DOMAIN versions
        /\ versions[at] = row /\ evidence # <<>> /\ DOMAIN desk[d] = StoringFields
    BY <1>0, <2>1, <2>2 DEF DeskKnows, Saving, Handling
  <2>4. DOMAIN new = ContractFields /\ new.key = row.key
    BY <1>0, <2>3 DEF ContractStands, ContractRows, ContractFields, Pointing
  <2>5. Versioned(contract)
    BY <1>0, <2>3, ServingVersioned
  <2> HIDE DEF new
  <2>6. Versioned(new) /\ Filed(new)
    BY <2>3, <2>4 DEF Versioned, Filed
  <2>a. serving' = TRUE
    BY <2>2, <2>3, <1>0 DEF ContractStands, ContractRows
  <2>7. ContractStands' /\ Accrues
    BY <1>0, <2>2, <2>3, <2>4, <2>5, <2>6, <2>a, WriteKeeps
  <2>8. contract' # NoContract
    BY <2>3, <2>7 DEF Accrues
  <2>9. t = Free \/ t.pc = "forget"
    BY <2>1, <2>3 DEF StoringFields
  <2>10. DeskKnows(t)'
    BY <2>3, <2>a, <2>8, <2>9, FreeKnows DEF DeskKnows, Booting, Saving, Handling
  <2>11. QED
    BY <2>2, <2>7, <2>10, SitsInv
<1>15. ASSUME NEW d \in Desks, ForgetImage(d) PROVE ContractsInv'
  <2>1. PICK t : t = [desk[d] EXCEPT !.pc = "image"]
    OBVIOUS
  <2>2. /\ desk[d].pc = "forget" /\ Sits(d, t)
        /\ UNCHANGED <<contract, bytes, versions, evidence, serving, born, skipped>>
    BY <1>15, <2>1 DEF ForgetImage, history
  <2>3. contract # NoContract /\ serving
    BY <1>0, <2>2 DEF DeskKnows, Handling
  <2>4. t.pc = "image" \/ t = desk[d]
    BY <2>1
  <2>5. DeskKnows(t)
    BY <1>0, <2>3, <2>4 DEF DeskKnows, Booting, Saving, Handling
  <2>6. QED
    BY <2>2, <2>5, DeskNotes
<1>16. ASSUME NEW d \in Desks, KeepImage(d) \/ Break(d) PROVE ContractsInv'
  <2>1. Sits(d, Free) /\ UNCHANGED <<contract, bytes, versions, evidence, serving, born, skipped>>
    BY <1>16 DEF KeepImage, Break, history
  <2>2. QED
    BY <2>1, FreeKnows, DeskNotes
<1>b. ASSUME NEW d \in Desks, BackfillFails(d) PROVE ContractsInv'
  <2>1. /\ desk[d].pc \in Booting \cup {"free"} /\ Sits(d, Free)
        /\ serving' = TRUE /\ skipped' = TRUE
        /\ UNCHANGED <<contract, bytes, versions, evidence, born>>
    BY <1>b DEF BackfillFails
  <2>2. contract # NoContract => Versioned(contract)'
    <3> SUFFICES ASSUME contract # NoContract PROVE Versioned(contract)'
      OBVIOUS
    <3>1. CASE serving
      BY <1>0, <2>1, <3>1, ServingVersioned DEF Versioned, Filed
    <3>2. CASE ~serving
      BY <1>0, <2>1, <3>2 DEF ContractStands, BootsFirst, Versioned
    <3>3. QED
      BY <3>1, <3>2
  <2>3. QED
    BY <1>0, <2>1, <2>2, ServeKeeps, SitsInv, FreeKnows
<1>17. ASSUME DeleteImage \/ UNCHANGED cvars PROVE ContractsInv'
  <2>1. UNCHANGED <<contract, bytes, versions, evidence, serving, desk, born, skipped>>
    BY <1>17 DEF DeleteImage, cvars
  <2>2. Accrues /\ ContractStands'
    BY <1>0, <2>1 DEF ContractStands, ContractRows, BootsFirst, EvidenceStands, VersionsStand,
       EvidenceSurvives, SignedIsBackedOnceMade, Accrues, Adds
  <2>3. QED
    BY <2>1, <2>2, DesksStayInv
<1>18. ASSUME NEW s \in Statuses, CreateContract(s) PROVE ContractsInv'
  <2> DEFINE new == [status |-> s, live |-> TRUE, key |-> 0, hash |-> Missing, version |-> 0]
  <2>1. /\ serving /\ contract = NoContract /\ contract' = new /\ born' = (s = "signed")
        /\ UNCHANGED <<bytes, versions, evidence, serving, desk, skipped>>
    BY <1>18 DEF CreateContract
  <2>2. DOMAIN new = ContractFields /\ new # NoContract /\ new.key = 0 /\ new.status = s
    BY DEF ContractFields, NoContract
  <2> HIDE DEF new
  <2>3. Accrues
    BY <2>1 DEF Accrues, Adds
  <2>4. ContractRows' /\ BootsFirst' /\ VersionsStand' /\ SignedIsBackedOnceMade'
    BY <1>0, <2>1, <2>2 DEF ContractStands, ContractRows, BootsFirst, EvidenceStands,
       VersionsStand, SignedIsBackedOnceMade
  <2>5. ContractStands'
    BY <1>0, <2>1, <2>2, <2>3, <2>4, EvidenceKept DEF ContractStands, EvidenceStands
  <2>6. QED
    BY <2>1, <2>3, <2>5, DesksStayInv
<1>19. ASSUME DeleteContract PROVE ContractsInv'
  <2> DEFINE new == [contract EXCEPT !.live = FALSE]
  <2>1. /\ serving /\ contract # NoContract /\ contract.live /\ contract' = new
        /\ UNCHANGED <<bytes, versions, evidence, serving, desk, born, skipped>>
    BY <1>19 DEF DeleteContract, IsLive
  <2>2. /\ DOMAIN new = ContractFields /\ new.key = contract.key
        /\ new.status = contract.status /\ new.version = contract.version
    BY <1>0, <2>1 DEF ContractStands, ContractRows, ContractFields
  <2>3. new.status = "signed" /\ ~born => evidence # <<>>
    BY <1>0, <2>1, <2>2 DEF ContractStands, EvidenceStands, SignedIsBackedOnceMade
  <2>4. Versioned(contract)
    BY <1>0, <2>1, ServingVersioned
  <2> HIDE DEF new
  <2>5. Versioned(new) /\ Write(new)
    BY <2>1, <2>2, <2>4 DEF Versioned, Filed, Write
  <2>a. serving' = TRUE
    BY <2>1, <1>0 DEF ContractStands, ContractRows
  <2>6. QED
    BY <1>0, <2>1, <2>2, <2>3, <2>4, <2>5, <2>a, WriteKeeps, DesksStayInv
<1>20. QED
  BY <1>1, <1>2, <1>3, <1>4, <1>5, <1>6, <1>7, <1>8, <1>9, <1>10, <1>11, <1>12, <1>13,
     <1>14, <1>15, <1>16, <1>b, <1>17, <1>18, <1>19 DEF ContractsNext

\* However uploads, signatures, status changes and boots overlap, fail and die,
\* what each has stored is there (UploadContractFile, AdminSignContract,
\* BackfillDocumentVersions).
THEOREM ContractsInvariant == ContractsSpec => []ContractsInv
<1>1. ContractsInit => ContractsInv
  BY ContractsInitInv
<1>2. ContractsInv /\ [ContractsNext]_cvars => ContractsInv'
  BY ContractsNextInv
<1>3. QED
  BY <1>1, <1>2, PTL DEF ContractsSpec

\* What was signed stays provable: bytes with a version are never lost or changed,
\* a record's bytes carry its hash, and a contract becomes signed only with a
\* record, for any documents, handlers, boots and faults.
THEOREM EvidenceStandsHolds == ContractsSpec => []EvidenceStands
<1>1. ContractsInv => EvidenceStands
  BY DEF ContractsInv, ContractStands
<1>2. QED
  BY <1>1, ContractsInvariant, PTL

-----------------------------------------------------------------------------
(* What versions are numbered, while handlers take turns and nothing fails *)

\* The contract names the latest version.
PointsAtLatest ==
  versions # <<>> /\ contract.live =>
    LET last == versions[Len(versions)] IN
    contract.version = last.number /\ contract.key = last.key /\ contract.hash = last.hash

\* A version is stored, and the contract does not point at it yet.
Behind == {"adopt", "point", "record", "mark"}

\* Numbers count versions, hashes are those of the bytes, and a record names what
\* was signed.
VersionsAgree ==
  /\ \A i \in DOMAIN versions :
       versions[i].number = i /\ versions[i].hash = bytes[versions[i].key]
  /\ \A i \in DOMAIN evidence :
       /\ evidence[i].original \in DOMAIN versions
       /\ versions[evidence[i].original].hash = evidence[i].originalHash

\* What the one handler under way has found is still so.
DeskAgrees(t) ==
  /\ t.pc \in {"count", "legacy", "adopt"} => t.key = contract.key
  /\ t.pc = "legacy" => versions = <<>>
  /\ t.pc = "adopt" =>
       Len(versions) = 1 /\ versions[1].key = t.key /\ versions[1].hash = t.hash
  /\ t.pc = "newest" => versions # <<>> /\ versions[Len(versions)].hash = t.original
  /\ t.pc \in {"save", "version", "record"} /\ Signing(t) =>
       t.of \in DOMAIN versions /\ versions[t.of].hash = t.original
  /\ t.pc = "version" => t.row.number = Len(versions) + 1
  /\ t.pc \in {"point", "record", "mark"} => t.at = Len(versions)

\* Handlers have taken turns, and nothing has failed, so far.
InTurn == turns /\ breaks = 0

\* A file is only skipped where something failed.
FaultsKnown == breaks \in Nat /\ (skipped => breaks # 0)

\* What is stored agrees while handlers take turns; it has to know, beside that, how
\* far the one under way has come.
AgreeInv ==
  /\ Len(versions) <= MaxVersions /\ FaultsKnown
  /\ InTurn =>
       /\ VersionsAgree
       /\ \A p, q \in Desks : desk[p] # Free /\ desk[q] # Free => p = q
       /\ \A d \in Desks : DeskAgrees(desk[d])
       /\ (\A d \in Desks : desk[d].pc \notin Behind) => PointsAtLatest

\* Versions are counted from one upwards.
LEMMA Indices ==
  ContractsInv =>
    /\ DOMAIN versions = 1 .. Len(versions) /\ Len(versions) \in Nat
    /\ versions # <<>> => Len(versions) \in DOMAIN versions
    /\ versions = <<>> => DOMAIN versions = {} /\ Len(versions) = 0
    /\ DOMAIN desk = Desks
    /\ \A d \in Desks : DeskKnows(desk[d])
    /\ \A i \in DOMAIN versions : versions[i].key \in DOMAIN bytes
<1> SUFFICES ASSUME ContractsInv
             PROVE  /\ DOMAIN versions = 1 .. Len(versions) /\ Len(versions) \in Nat
                    /\ versions # <<>> => Len(versions) \in DOMAIN versions
                    /\ versions = <<>> => DOMAIN versions = {} /\ Len(versions) = 0
                    /\ DOMAIN desk = Desks
                    /\ \A d \in Desks : DeskKnows(desk[d])
                    /\ \A i \in DOMAIN versions : versions[i].key \in DOMAIN bytes
  OBVIOUS
<1>1. IsSequence(versions)
  BY DEF ContractsInv, ContractStands, ContractRows
<1>2. /\ DOMAIN versions = 1 .. Len(versions) /\ Len(versions) \in Nat
      /\ versions # <<>> => Len(versions) \in DOMAIN versions
  BY <1>1, SomethingThere
<1>3. versions = <<>> => DOMAIN versions = {} /\ Len(versions) = 0
  OBVIOUS
<1>4. \A i \in DOMAIN versions : versions[i].key \in DOMAIN bytes
  BY DEF ContractsInv, ContractStands, ContractRows
<1>5. QED
  BY <1>2, <1>3, <1>4 DEF ContractsInv

\* With numbers that count versions, the highest is that of the last one.
LEMMA NextIsNext ==
  ASSUME ContractsInv, Len(versions) <= MaxVersions, VersionsAgree
  PROVE  NextVersion = Len(versions) + 1
<1> DEFINE n == Len(versions) + 1
           Fits(m) == /\ \A i \in DOMAIN versions : versions[i].number < m
                      /\ m = 1 \/ \E i \in DOMAIN versions : versions[i].number = m - 1
<1>1. n \in 1 .. MaxVersions + 1
  BY Indices, ContractBounds
<1>2. Fits(n)
  <2>1. \A i \in DOMAIN versions : versions[i].number < n
    BY Indices DEF VersionsAgree
  <2>2. n # 1 => n - 1 \in DOMAIN versions /\ versions[n - 1].number = n - 1
    BY Indices DEF VersionsAgree
  <2>3. QED
    BY <2>1, <2>2
<1>3. ASSUME NEW m \in 1 .. MaxVersions + 1, Fits(m) PROVE m = n
  <2>1. m \in Nat /\ m >= 1
    BY ContractBounds
  <2>2. m <= n
    BY <1>3, <2>1, Indices DEF VersionsAgree
  <2>3. m >= n
    <3>1. CASE versions = <<>>
      BY <2>1, <3>1, Indices
    <3>2. CASE versions # <<>>
      BY <1>3, <2>1, <3>2, Indices DEF VersionsAgree
    <3>3. QED
      BY <3>1, <3>2
  <2>4. QED
    BY <2>1, <2>2, <2>3, Indices
<1> HIDE DEF n
<1>4. NextVersion = CHOOSE m \in 1 .. MaxVersions + 1 : Fits(m)
  BY DEF NextVersion
<1> HIDE DEF Fits
<1>5. QED
  BY <1>1, <1>2, <1>3, <1>4 DEF n

\* What fails is counted.
LEMMA FaultsCounted ==
  ASSUME FaultsKnown, Fails
  PROVE  breaks' \in Nat /\ breaks' # 0
BY DEF FaultsKnown, Fails

LEMMA FaultsKnownNext ==
  ASSUME FaultsKnown, [ContractsNext]_cvars
  PROVE  FaultsKnown'
<1>1. ASSUME UNCHANGED skipped, UNCHANGED breaks \/ Fails PROVE FaultsKnown'
  BY <1>1, FaultsCounted DEF FaultsKnown
<1>2. ASSUME NEW d \in Desks, BackfillFails(d) PROVE FaultsKnown'
  BY <1>2, FaultsCounted DEF FaultsKnown, BackfillFails
<1>3. ASSUME NEW d \in Desks, Break(d) PROVE FaultsKnown'
  BY <1>1, <1>3 DEF Break, Fails, history
<1>4. ASSUME NEW d \in Desks,
             RecordLegacy(d) \/ FindNewest(d) \/ SaveFile(d) \/ ForgetImage(d)
      PROVE  FaultsKnown'
  <2>1. UNCHANGED skipped
    BY <1>4, Zenon DEF RecordLegacy, FindNewest, SaveFile, ForgetImage, history
  <2>2. UNCHANGED breaks \/ Fails
    BY <1>4, Zenon DEF RecordLegacy, FindNewest, SaveFile, ForgetImage
  <2>3. QED
    BY <1>1, <2>1, <2>2
<1>5. ASSUME NEW d \in Desks,
             \/ BeginBackfill(d) \/ CountVersions(d) \/ AdoptLegacy(d) \/ WriteStatus(d)
             \/ \E s \in Statuses : BeginUpdate(d, s)
             \/ \E doc \in Docs : BeginUpload(d, doc)
             \/ \E again \in BOOLEAN : BeginSign(d, again)
             \/ StoreVersion(d) \/ MovePointer(d) \/ RecordSignature(d)
             \/ MarkSigned(d) \/ KeepImage(d)
      PROVE  UNCHANGED <<skipped, breaks>>
  BY <1>5, Zenon
     DEF BeginBackfill, CountVersions, AdoptLegacy, WriteStatus, BeginUpdate, BeginUpload,
         BeginSign, StartAt, StoreVersion, MovePointer, RecordSignature, MarkSigned,
         KeepImage, history
<1>6. ASSUME (\E s \in Statuses : CreateContract(s)) \/ DeleteContract \/ DeleteImage
             \/ UNCHANGED cvars
      PROVE  UNCHANGED <<skipped, breaks>>
  BY <1>6, Zenon DEF CreateContract, DeleteContract, DeleteImage, cvars
<1>7. QED
  BY <1>1, <1>2, <1>3, <1>4, <1>5, <1>6 DEF ContractsNext

\* A free desk has found nothing.
LEMMA FreeAgrees == DeskAgrees(Free)'
BY DEF DeskAgrees, Free

\* The one desk at work.
LEMMA Alone ==
  ASSUME AgreeInv, InTurn, NEW d \in Desks, desk[d] # Free
  PROVE  \A x \in Desks \ {d} : desk[x] = Free
BY DEF AgreeInv

\* Only the one at work moves.
LEMMA SitsAgree ==
  ASSUME ContractsInv, AgreeInv, NEW d \in Desks, NEW t, Sits(d, t),
         Len(versions') <= MaxVersions, FaultsKnown',
         InTurn' => /\ \A x \in Desks \ {d} : desk[x] = Free
                    /\ VersionsAgree' /\ DeskAgrees(t)'
                    /\ t.pc \notin Behind => PointsAtLatest'
  PROVE  AgreeInv'
<1>1. DOMAIN desk' = Desks /\ desk'[d] = t /\ \A x \in Desks \ {d} : desk'[x] = desk[x]
  BY DEF ContractsInv, Sits
<1>2. ASSUME InTurn'
      PROVE  /\ \A p, q \in Desks : desk'[p] # Free /\ desk'[q] # Free => p = q
             /\ \A x \in Desks : DeskAgrees(desk[x])'
             /\ (\A x \in Desks : desk'[x].pc \notin Behind) => PointsAtLatest'
  <2>1. \A x \in Desks \ {d} : desk'[x] = Free
    BY <1>1, <1>2
  <2>2. \A x \in Desks \ {d} : DeskAgrees(desk[x])'
    BY <2>1 DEF DeskAgrees, Free
  <2>3. QED
    BY <1>1, <1>2, <2>1, <2>2
<1>3. QED
  BY <1>1, <1>2 DEF AgreeInv

\* While one desk is at work all others are free.
LEMMA AtWork ==
  ASSUME ContractsInv, AgreeInv, InTurn, NEW d \in Desks, desk[d].pc # "free"
  PROVE  /\ \A x \in Desks \ {d} : desk[x] = Free
         /\ VersionsAgree /\ DeskAgrees(desk[d]) /\ DeskKnows(desk[d])
         /\ desk[d].pc \notin Behind => PointsAtLatest
         /\ contract # NoContract
<1>1. \A x \in Desks \ {d} : desk[x] = Free
  BY Alone DEF Free
<1>2. \A x \in Desks \ {d} : desk[x].pc \notin Behind
  BY <1>1 DEF Free, Behind
<1>3. QED
  BY <1>1, <1>2 DEF ContractsInv, AgreeInv, DeskKnows

\* When all are free the contract names the latest version.
LEMMA AtRest ==
  ASSUME AgreeInv, InTurn, AllFree
  PROVE  VersionsAgree /\ PointsAtLatest
<1>1. \A x \in Desks : desk[x].pc \notin Behind
  BY DEF AllFree, Free, Behind
<1>2. QED
  BY <1>1 DEF AgreeInv

\* A handler that begins while all others are done ...
LEMMA BeginsAgree ==
  ASSUME ContractsInv, AgreeInv, NEW d \in Desks, NEW t, Sits(d, t),
         turns' = (turns /\ AllFree), t.pc \notin Behind,
         (InTurn /\ AllFree /\ VersionsAgree /\ PointsAtLatest) => DeskAgrees(t),
         FaultsKnown', UNCHANGED <<contract, bytes, versions, evidence, breaks>>
  PROVE  AgreeInv'
<1>1. ASSUME InTurn'
      PROVE  /\ \A x \in Desks \ {d} : desk[x] = Free
             /\ VersionsAgree' /\ DeskAgrees(t)' /\ PointsAtLatest'
  <2>1. InTurn /\ AllFree
    BY <1>1 DEF InTurn
  <2>2. VersionsAgree /\ PointsAtLatest
    BY <2>1, AtRest
  <2>3. DeskAgrees(t)
    BY <2>1, <2>2
  <2>4. QED
    BY <2>1, <2>2, <2>3 DEF AllFree, VersionsAgree, PointsAtLatest, DeskAgrees
<1>2. QED
  BY <1>1, SitsAgree DEF AgreeInv

\* ... and one that goes on without touching what is stored.
LEMMA NotesAgree ==
  ASSUME ContractsInv, AgreeInv, NEW d \in Desks, NEW t, Sits(d, t), desk[d].pc # "free",
         desk[d].pc \notin Behind, t.pc \notin Behind,
         (InTurn' /\ DeskAgrees(desk[d]) /\ VersionsAgree) => DeskAgrees(t),
         FaultsKnown', breaks' = 0 => breaks = 0,
         UNCHANGED <<contract, bytes, versions, evidence, turns>>
  PROVE  AgreeInv'
<1>1. ASSUME InTurn'
      PROVE  /\ \A x \in Desks \ {d} : desk[x] = Free
             /\ VersionsAgree' /\ DeskAgrees(t)' /\ PointsAtLatest'
  <2>1. InTurn
    BY <1>1 DEF InTurn
  <2>2. /\ \A x \in Desks \ {d} : desk[x] = Free
        /\ VersionsAgree /\ DeskAgrees(desk[d]) /\ PointsAtLatest
    BY <2>1, AtWork
  <2>3. DeskAgrees(t)
    BY <1>1, <2>1, <2>2
  <2>4. QED
    BY <2>2, <2>3 DEF VersionsAgree, PointsAtLatest, DeskAgrees
<1>2. QED
  BY <1>1, SitsAgree DEF AgreeInv

\* A version is stored.
LEMMA StoredAgree ==
  ASSUME ContractsInv, AgreeInv, NEW row, versions' = Append(versions, row), UNCHANGED bytes
  PROVE  /\ Len(versions') = Len(versions) + 1 /\ versions'[Len(versions) + 1] = row
         /\ DOMAIN versions' = DOMAIN versions \cup {Len(versions) + 1}
         /\ \A i \in DOMAIN versions : versions'[i] = versions[i]
         /\ row.number = Len(versions) + 1 /\ row.hash = bytes[row.key]
            /\ VersionsAgree /\ UNCHANGED evidence
              => VersionsAgree'
<1>1. IsSequence(versions)
  BY DEF ContractsInv, ContractStands, ContractRows
<1>2. /\ Len(versions') = Len(versions) + 1 /\ versions'[Len(versions) + 1] = row
      /\ DOMAIN versions' = DOMAIN versions \cup {Len(versions) + 1}
      /\ \A i \in DOMAIN versions : versions'[i] = versions[i]
  BY <1>1, Appended
<1>3. QED
  BY <1>2 DEF VersionsAgree

\* The contracts row is written to point at the latest version, if it is there.
LEMMA PointsAgree ==
  ASSUME VersionsAgree, UNCHANGED <<bytes, versions, evidence>>, NEW new, NEW row, Write(new),
         new.key = row.key, new.hash = row.hash, new.version = row.number,
         contract.live, new.live = contract.live, versions[Len(versions)] = row
  PROVE  VersionsAgree' /\ PointsAtLatest'
BY DEF VersionsAgree, PointsAtLatest, Write

\* One step per action of the handlers, of a boot and of its failures.
LEMMA AgreeNextInv ==
  ContractsInv /\ AgreeInv /\ [ContractsNext]_cvars => AgreeInv'
<1> SUFFICES ASSUME ContractsInv, AgreeInv, [ContractsNext]_cvars PROVE AgreeInv'
  OBVIOUS
<1>0. /\ Len(versions) <= MaxVersions /\ FaultsKnown' /\ Len(versions) \in Nat
      /\ MaxVersions \in Nat /\ \A d \in Desks : DeskKnows(desk[d])
      /\ Free.pc \notin Behind
  BY Indices, ContractBounds, FaultsKnownNext DEF AgreeInv, Free, Behind
<1>f. Fails => breaks' # 0
  BY FaultsCounted DEF AgreeInv
<1>1. ASSUME NEW d \in Desks, BeginBackfill(d) PROVE AgreeInv'
  <2> DEFINE t == [pc |-> "count", key |-> contract.key]
  <2>1. UNCHANGED <<contract, bytes, versions, evidence, breaks>> /\ turns' = (turns /\ AllFree)
    BY <1>1 DEF BeginBackfill
  <2>2. CASE Sits(d, t)
    <3>1. DeskAgrees(t) /\ t.pc \notin Behind
      BY DEF DeskAgrees, Behind
    <3>2. QED
      BY <1>0, <2>1, <2>2, <3>1, BeginsAgree
  <2>3. CASE UNCHANGED desk
    BY <1>0, <2>1, <2>3 DEF AgreeInv, InTurn, VersionsAgree, DeskAgrees, PointsAtLatest
  <2>4. QED
    BY <1>1, <2>2, <2>3 DEF BeginBackfill
<1>2. ASSUME NEW d \in Desks, CountVersions(d) PROVE AgreeInv'
  <2>1. PICK t : /\ Sits(d, t)
                 /\ IF versions = <<>> THEN t = [desk[d] EXCEPT !.pc = "legacy"] ELSE t = Free
    BY <1>2 DEF CountVersions
  <2>2. /\ desk[d].pc = "count"
        /\ UNCHANGED <<contract, bytes, versions, evidence, turns, breaks>>
    BY <1>2 DEF CountVersions, history
  <2>3. DeskAgrees(Free) /\ desk[d].pc \notin Behind
    BY <2>2 DEF DeskAgrees, Free, Behind
  <2>4. versions = <<>> => t.pc = "legacy" /\ t.key = desk[d].key
    <3>1. PICK u : u = [desk[d] EXCEPT !.pc = "legacy"]
      OBVIOUS
    <3>2. u.pc = "legacy" /\ u.key = desk[d].key
      BY <2>2, <3>1
    <3>3. QED
      BY <2>1, <3>1, <3>2
  <2>5. (DeskAgrees(desk[d]) => DeskAgrees(t)) /\ t.pc \notin Behind
    BY <1>0, <2>1, <2>2, <2>3, <2>4 DEF DeskAgrees, Behind
  <2>6. QED
    BY <1>0, <2>1, <2>2, <2>3, <2>5, NotesAgree
<1>3. ASSUME NEW d \in Desks, RecordLegacy(d) PROVE AgreeInv'
  <2>1. PICK k : k = desk[d].key
    OBVIOUS
  <2>2. PICK h :
          /\ IF h = bytes[k] THEN UNCHANGED breaks ELSE Fails
          /\ versions' = Append(versions, [number |-> 1, key |-> k, hash |-> h])
          /\ Sits(d, [pc |-> "adopt", key |-> k, hash |-> h])
    BY <1>3, <2>1 DEF RecordLegacy
  <2>3. PICK row, t : /\ row = [number |-> 1, key |-> k, hash |-> h]
                      /\ t = [pc |-> "adopt", key |-> k, hash |-> h]
    OBVIOUS
  <2>4. /\ desk[d].pc = "legacy" /\ Len(versions) < MaxVersions
        /\ versions' = Append(versions, row) /\ Sits(d, t)
        /\ UNCHANGED <<contract, bytes, evidence, turns>>
    BY <1>3, <2>2, <2>3 DEF RecordLegacy, history
  <2>5. /\ row.number = 1 /\ row.key = k /\ row.hash = h
        /\ t.pc = "adopt" /\ t.key = k /\ t.hash = h
    BY <2>3
  <2>6. breaks' = 0 => breaks = 0 /\ h = bytes[k]
    BY <1>f, <2>2
  <2>7. ASSUME InTurn'
        PROVE  /\ \A x \in Desks \ {d} : desk[x] = Free
               /\ VersionsAgree' /\ DeskAgrees(t)' /\ t.pc \in Behind
    <3>1. InTurn /\ h = bytes[k]
      BY <2>4, <2>6, <2>7 DEF InTurn
    <3>2. /\ \A x \in Desks \ {d} : desk[x] = Free
          /\ VersionsAgree /\ versions = <<>> /\ k = contract.key
      BY <2>1, <2>4, <3>1, AtWork DEF DeskAgrees
    <3>3. Len(versions) = 0
      BY <3>2
    <3>4. /\ VersionsAgree' /\ Len(versions') = 1 /\ versions'[1] = row
      BY <2>4, <2>5, <3>1, <3>2, <3>3, StoredAgree
    <3>5. QED
      BY <2>4, <2>5, <3>2, <3>4 DEF DeskAgrees, Behind
  <2>8. Len(versions') <= MaxVersions
    BY <1>0, <2>4, StoredAgree
  <2>9. QED
    BY <1>0, <2>4, <2>7, <2>8, SitsAgree
<1>4. ASSUME NEW d \in Desks, AdoptLegacy(d) PROVE AgreeInv'
  <2>1. PICK k, h, row : k = desk[d].key /\ h = desk[d].hash /\ row = versions[1]
    OBVIOUS
  <2> DEFINE new == [contract EXCEPT !.hash = h, !.version = 1]
  <2>2. /\ desk[d].pc = "adopt" /\ Write(new) /\ Sits(d, Free)
        /\ UNCHANGED <<bytes, versions, evidence, turns, breaks>>
    BY <1>4, <2>1 DEF AdoptLegacy, history
  <2>3. ASSUME InTurn'
        PROVE  /\ \A x \in Desks \ {d} : desk[x] = Free
               /\ VersionsAgree' /\ PointsAtLatest'
    <3>1. InTurn
      BY <2>2, <2>3 DEF InTurn
    <3>2. /\ \A x \in Desks \ {d} : desk[x] = Free
          /\ VersionsAgree /\ Len(versions) = 1 /\ row.key = k /\ row.hash = h
          /\ k = contract.key /\ contract # NoContract
      BY <2>1, <2>2, <3>1, AtWork DEF DeskAgrees
    <3>3. row.number = 1
      BY <2>1, <3>2, Indices DEF VersionsAgree
    <3>4. DOMAIN contract = ContractFields
      BY <3>2 DEF ContractsInv, ContractStands, ContractRows
    <3>5. /\ new.key = row.key /\ new.hash = row.hash /\ new.version = row.number
          /\ new.live = contract.live
      BY <3>2, <3>3, <3>4 DEF ContractFields
    <3> HIDE DEF new
    <3>6. CASE contract.live
      BY <2>1, <2>2, <3>2, <3>5, <3>6, PointsAgree
    <3>7. CASE ~contract.live
      BY <2>2, <3>2, <3>7 DEF Write, VersionsAgree, PointsAtLatest
    <3>8. QED
      BY <3>2, <3>6, <3>7
  <2>4. QED
    BY <1>0, <2>2, <2>3, SitsAgree, FreeAgrees
<1>5. ASSUME NEW d \in Desks, NEW s \in Statuses, BeginUpdate(d, s) PROVE AgreeInv'
  <2> DEFINE t == [pc |-> "status", status |-> s]
  <2>1. DeskAgrees(t) /\ t.pc \notin Behind
    BY DEF DeskAgrees, Behind
  <2>2. QED
    BY <1>0, <1>5, <2>1, BeginsAgree DEF BeginUpdate, StartAt
<1>6. ASSUME NEW d \in Desks, WriteStatus(d) PROVE AgreeInv'
  <2>1. PICK s : s = desk[d].status
    OBVIOUS
  <2> DEFINE new == [contract EXCEPT !.status = s]
  <2>2. /\ desk[d].pc = "status" /\ Write(new) /\ Sits(d, Free)
        /\ UNCHANGED <<bytes, versions, evidence, turns, breaks>>
    BY <1>6, <2>1 DEF WriteStatus, history
  <2>3. ASSUME InTurn'
        PROVE  /\ \A x \in Desks \ {d} : desk[x] = Free
               /\ VersionsAgree' /\ PointsAtLatest'
    <3>1. InTurn /\ desk[d].pc # "free" /\ desk[d].pc \notin Behind
      BY <2>2, <2>3 DEF InTurn, Behind
    <3>2. /\ \A x \in Desks \ {d} : desk[x] = Free
          /\ VersionsAgree /\ PointsAtLatest /\ contract # NoContract
      BY <3>1, AtWork
    <3>3. DOMAIN contract = ContractFields
      BY <3>2 DEF ContractsInv, ContractStands, ContractRows
    <3>4. /\ new.key = contract.key /\ new.hash = contract.hash
          /\ new.version = contract.version /\ new.live = contract.live
      BY <3>3 DEF ContractFields
    <3> HIDE DEF new
    <3>5. QED
      BY <2>2, <3>2, <3>4 DEF Write, VersionsAgree, PointsAtLatest
  <2>4. QED
    BY <1>0, <2>2, <2>3, SitsAgree, FreeAgrees
<1>7. ASSUME NEW d \in Desks, NEW doc \in Docs, BeginUpload(d, doc) PROVE AgreeInv'
  <2>1. PICK t : t = Storing(File(doc, 0), Missing, FALSE)
    OBVIOUS
  <2>2. DeskAgrees(t) /\ t.pc \notin Behind
    BY <2>1 DEF Storing, Signing, DeskAgrees, Behind
  <2>3. QED
    BY <1>0, <1>7, <2>1, <2>2, BeginsAgree DEF BeginUpload, StartAt
<1>8. ASSUME NEW d \in Desks, NEW again \in BOOLEAN, BeginSign(d, again) PROVE AgreeInv'
  <2>0. PICK f : f = bytes[contract.key]
    OBVIOUS
  <2>1. PICK t : t = [Storing([f EXCEPT !.stamps = @ + 1], f, again) EXCEPT !.pc = "newest"]
    OBVIOUS
  <2>2. /\ IsLive /\ contract.key # 0 /\ serving /\ Sits(d, t)
        /\ turns' = (turns /\ AllFree)
        /\ UNCHANGED <<contract, bytes, versions, evidence, breaks>>
    BY <1>8, <2>0, <2>1 DEF BeginSign, StartAt, Signable
  <2>3. t.pc = "newest" /\ t.original = f
    BY <2>1 DEF Storing
  <2>4. InTurn => versions # <<>>
    <3>1. InTurn => ~skipped
      BY DEF InTurn, AgreeInv, FaultsKnown
    <3>2. QED
      BY <2>2, <3>1, Indices DEF ContractsInv, ContractStands, EvidenceStands, VersionsStand, IsLive
  <2>5. InTurn /\ PointsAtLatest /\ VersionsAgree => versions[Len(versions)].hash = f
    BY <2>0, <2>2, <2>4, Indices DEF PointsAtLatest, VersionsAgree, IsLive
  <2>6. /\ InTurn /\ PointsAtLatest /\ VersionsAgree => DeskAgrees(t)
        /\ t.pc \notin Behind
    BY <2>3, <2>4, <2>5 DEF DeskAgrees, Behind
  <2>7. QED
    BY <1>0, <2>2, <2>6, BeginsAgree
<1>9. ASSUME NEW d \in Desks, FindNewest(d) PROVE AgreeInv'
  <2>0. PICK i \in 0 .. Len(versions) :
          /\ IF i = 0 /\ versions # <<>> THEN Fails ELSE UNCHANGED breaks
          /\ i # 0 => Newest(i)
          /\ Sits(d, [desk[d] EXCEPT !.pc = "save", !.of = i])
    BY <1>9, Zenon DEF FindNewest
  <2>1. PICK t : t = [desk[d] EXCEPT !.pc = "save", !.of = i] /\ Sits(d, t)
    BY <2>0
  <2>2. /\ desk[d].pc = "newest"
        /\ UNCHANGED <<contract, bytes, versions, evidence, turns>>
    BY <1>9, Zenon DEF FindNewest, history
  <2>3. DOMAIN desk[d] = StoringFields
    BY <1>0, <2>2 DEF DeskKnows, Saving
  <2>4. t.pc = "save" /\ t.original = desk[d].original /\ t.of = i
    BY <2>1, <2>3 DEF StoringFields
  <2>a. (breaks' = 0 => breaks = 0) /\ (breaks' = 0 => UNCHANGED breaks)
    BY <1>f, <2>0
  <2>5. InTurn' /\ VersionsAgree /\ versions # <<>> => i = Len(versions)
    <3>1. InTurn' /\ versions # <<>> => i \in DOMAIN versions /\ Newest(i)
      BY <1>f, <2>0, Indices DEF InTurn
    <3>2. QED
      BY <3>1, Indices DEF VersionsAgree, Newest
  <2>6. InTurn' /\ VersionsAgree /\ DeskAgrees(desk[d]) => DeskAgrees(t)
    BY <2>1, <2>2, <2>4, <2>5, Indices DEF DeskAgrees
  <2>7. desk[d].pc \notin Behind /\ t.pc \notin Behind
    BY <2>2, <2>4 DEF Behind
  <2>8. QED
    BY <1>0, <2>1, <2>2, <2>a, <2>6, <2>7, NotesAgree
<1>10. ASSUME NEW d \in Desks, SaveFile(d) PROVE AgreeInv'
  <2>0. PICK n :
          /\ IF n = NextVersion THEN UNCHANGED breaks ELSE Fails
          /\ Sits(d, [desk[d] EXCEPT !.pc = "version", !.row =
                       [number |-> n, key |-> Len(bytes'), hash |-> desk[d].file]])
    BY <1>10, Zenon DEF SaveFile
  <2>1. PICK t, row, file :
          /\ file = desk[d].file
          /\ row = [number |-> n, key |-> Len(bytes'), hash |-> file]
          /\ t = [desk[d] EXCEPT !.pc = "version", !.row = row] /\ Sits(d, t)
    BY <2>0, Zenon
  <2>2. /\ desk[d].pc = "save" /\ row.number = n
        /\ UNCHANGED <<contract, versions, evidence, turns>>
        /\ breaks' = 0 => breaks = 0 /\ n = NextVersion
    <3>1. desk[d].pc = "save" /\ UNCHANGED <<contract, versions, evidence, turns>>
      BY <1>10, Zenon DEF SaveFile, history
    <3>2. breaks' = 0 => breaks = 0 /\ n = NextVersion
      BY <1>f, <2>0
    <3>3. QED
      BY <2>1, <3>1, <3>2
  <2>a. \A i \in DOMAIN versions : bytes'[versions[i].key] = bytes[versions[i].key]
    <3>1. IsSequence(bytes) /\ bytes' = Append(bytes, desk[d].file)
      BY <1>10, Zenon DEF SaveFile, ContractsInv, ContractStands, ContractRows
    <3>2. \A k \in DOMAIN bytes : bytes'[k] = bytes[k]
      BY <3>1, Appended
    <3>3. QED
      BY <3>2, Indices
  <2>3. DOMAIN desk[d] = StoringFields
    BY <1>0, <2>2 DEF DeskKnows, Saving
  <2>4. /\ t.pc = "version" /\ t.original = desk[d].original /\ t.of = desk[d].of
        /\ t.row = row
    BY <2>1, <2>3 DEF StoringFields
  <2>5. ASSUME InTurn'
        PROVE  /\ \A x \in Desks \ {d} : desk[x] = Free
               /\ VersionsAgree' /\ PointsAtLatest' /\ DeskAgrees(t)'
    <3>1. InTurn /\ desk[d].pc # "free" /\ desk[d].pc \notin Behind
      BY <2>2, <2>5 DEF InTurn, Behind
    <3>2. /\ \A x \in Desks \ {d} : desk[x] = Free
          /\ VersionsAgree /\ PointsAtLatest /\ DeskAgrees(desk[d])
      BY <3>1, AtWork
    <3>3. row.number = Len(versions) + 1
      BY <1>0, <2>2, <2>5, <3>2, NextIsNext DEF InTurn
    <3>4. DeskAgrees(t)'
      BY <2>2, <2>4, <3>2, <3>3 DEF DeskAgrees, Signing
    <3>5. QED
      BY <2>2, <2>a, <3>2, <3>4 DEF VersionsAgree, PointsAtLatest
  <2>6. QED
    BY <1>0, <2>1, <2>2, <2>5, SitsAgree
<1>11. ASSUME NEW d \in Desks, StoreVersion(d) PROVE AgreeInv'
  <2>0. PICK next : next = (IF Signing(desk[d]) THEN "record" ELSE "point")
    OBVIOUS
  <2>1. PICK t, row :
          /\ row = desk[d].row
          /\ t = [desk[d] EXCEPT !.at = Len(versions) + 1, !.pc = next]
    OBVIOUS
  <2>2. /\ desk[d].pc = "version" /\ Len(versions) < MaxVersions
        /\ versions' = Append(versions, row) /\ Sits(d, t)
        /\ UNCHANGED <<contract, bytes, evidence, turns, breaks>>
    BY <1>11, <2>0, <2>1 DEF StoreVersion, history
  <2>3. DOMAIN desk[d] = StoringFields
    BY <1>0, <2>2 DEF DeskKnows, Saving
  <2>4. /\ t.pc = next /\ t.original = desk[d].original /\ t.of = desk[d].of
        /\ t.at = Len(versions) + 1
    BY <2>1, <2>3 DEF StoringFields
  <2>5. next \in {"record", "point"}
    BY <2>0
  <2>6. /\ Len(versions') = Len(versions) + 1
        /\ DOMAIN versions' = DOMAIN versions \cup {Len(versions) + 1}
        /\ \A i \in DOMAIN versions : versions'[i] = versions[i]
        /\ row.number = Len(versions) + 1 /\ row.hash = bytes[row.key] /\ VersionsAgree
             => VersionsAgree'
    BY <2>2, StoredAgree
  <2>7. ASSUME InTurn'
        PROVE  /\ \A x \in Desks \ {d} : desk[x] = Free
               /\ VersionsAgree' /\ DeskAgrees(t)'
    <3>1. InTurn
      BY <2>2, <2>7 DEF InTurn
    <3>2. /\ \A x \in Desks \ {d} : desk[x] = Free
          /\ VersionsAgree /\ DeskAgrees(desk[d])
      BY <2>2, <3>1, AtWork
    <3>3. row.number = Len(versions) + 1 /\ row.hash = bytes[row.key]
      BY <1>0, <2>1, <2>2, <3>2 DEF DeskAgrees, DeskKnows
    <3>4. DeskAgrees(t)'
      BY <2>2, <2>4, <2>5, <2>6, <3>2 DEF DeskAgrees, Signing
    <3>5. QED
      BY <2>6, <3>2, <3>3, <3>4
  <2>8. t.pc \in Behind /\ Len(versions') <= MaxVersions
    BY <1>0, <2>2, <2>4, <2>5, <2>6 DEF Behind
  <2>9. QED
    BY <1>0, <2>2, <2>7, <2>8, SitsAgree
<1>12. ASSUME NEW d \in Desks, MovePointer(d) PROVE AgreeInv'
  <2>1. PICK row : row = desk[d].row
    OBVIOUS
  <2> DEFINE new == Pointing(row)
  <2>2. /\ desk[d].pc = "point" /\ Write(new) /\ Sits(d, Free)
        /\ UNCHANGED <<bytes, versions, evidence, turns, breaks>>
    BY <1>12, <2>1 DEF MovePointer, history
  <2>3. ASSUME InTurn'
        PROVE  /\ \A x \in Desks \ {d} : desk[x] = Free
               /\ VersionsAgree' /\ PointsAtLatest'
    <3>1. InTurn
      BY <2>2, <2>3 DEF InTurn
    <3>2. /\ \A x \in Desks \ {d} : desk[x] = Free
          /\ VersionsAgree /\ contract # NoContract /\ DeskAgrees(desk[d]) /\ DeskKnows(desk[d])
      BY <2>2, <3>1, AtWork
    <3>3. versions[Len(versions)] = row
      BY <2>1, <2>2, <3>2 DEF DeskAgrees, DeskKnows
    <3>4. DOMAIN contract = ContractFields
      BY <3>2 DEF ContractsInv, ContractStands, ContractRows
    <3>5. /\ new.key = row.key /\ new.hash = row.hash /\ new.version = row.number
          /\ new.live = contract.live
      BY <3>4 DEF ContractFields, Pointing
    <3> HIDE DEF new
    <3>6. CASE contract.live
      BY <2>2, <3>2, <3>3, <3>5, <3>6, PointsAgree
    <3>7. CASE ~contract.live
      BY <2>2, <3>2, <3>7 DEF Write, VersionsAgree, PointsAtLatest
    <3>8. QED
      BY <3>2, <3>6, <3>7
  <2>4. QED
    BY <1>0, <2>2, <2>3, SitsAgree, FreeAgrees
<1>13. ASSUME NEW d \in Desks, RecordSignature(d) PROVE AgreeInv'
  <2>1. PICK t, original, of :
          /\ t = [desk[d] EXCEPT !.pc = "mark"]
          /\ original = desk[d].original /\ of = desk[d].of
    OBVIOUS
  <2>2. PICK r : r = [original |-> of, signed |-> desk[d].at,
                      originalHash |-> original, signedHash |-> desk[d].file]
    OBVIOUS
  <2>3. /\ desk[d].pc = "record" /\ evidence' = Append(evidence, r) /\ Sits(d, t)
        /\ UNCHANGED <<contract, bytes, versions, turns, breaks>>
    BY <1>13, <2>1, <2>2 DEF RecordSignature, history
  <2>4. DOMAIN desk[d] = StoringFields /\ Signing(desk[d])
    BY <1>0, <2>3 DEF DeskKnows, Saving
  <2>5. t.pc = "mark" /\ t.at = desk[d].at
    BY <2>1, <2>4 DEF StoringFields
  <2>6. r.original = of /\ r.originalHash = original
    BY <2>2
  <2>7. IsSequence(evidence)
    BY DEF ContractsInv, ContractStands, ContractRows
  <2>8. /\ DOMAIN evidence' = DOMAIN evidence \cup {Len(evidence) + 1}
        /\ evidence'[Len(evidence) + 1] = r
        /\ \A i \in DOMAIN evidence : evidence'[i] = evidence[i]
    BY <2>3, <2>7, Appended
  <2>9. ASSUME InTurn'
        PROVE  /\ \A x \in Desks \ {d} : desk[x] = Free
               /\ VersionsAgree' /\ DeskAgrees(t)'
    <3>1. InTurn
      BY <2>3, <2>9 DEF InTurn
    <3>2. /\ \A x \in Desks \ {d} : desk[x] = Free
          /\ VersionsAgree /\ DeskAgrees(desk[d])
      BY <2>3, <3>1, AtWork
    <3>3. of \in DOMAIN versions /\ versions[of].hash = original
      BY <2>1, <2>3, <2>4, <3>2 DEF DeskAgrees
    <3>4. VersionsAgree'
      BY <2>3, <2>6, <2>8, <3>2, <3>3 DEF VersionsAgree
    <3>5. DeskAgrees(t)'
      BY <2>3, <2>5, <3>2 DEF DeskAgrees
    <3>6. QED
      BY <3>2, <3>4, <3>5
  <2>10. t.pc \in Behind
    BY <2>5 DEF Behind
  <2>11. QED
    BY <1>0, <2>3, <2>9, <2>10, SitsAgree
<1>14. ASSUME NEW d \in Desks, MarkSigned(d) PROVE AgreeInv'
  <2>1. PICK row, t :
          /\ row = desk[d].row
          /\ t = IF desk[d].again THEN [desk[d] EXCEPT !.pc = "forget"] ELSE Free
    OBVIOUS
  <2> DEFINE new == [Pointing(row) EXCEPT !.status = "signed"]
  <2>2. /\ desk[d].pc = "mark" /\ Write(new) /\ Sits(d, t)
        /\ UNCHANGED <<bytes, versions, evidence, turns, breaks>>
    BY <1>14, <2>1 DEF MarkSigned, history
  <2>3. DOMAIN desk[d] = StoringFields
    BY <1>0, <2>2 DEF DeskKnows, Saving
  <2>4. t.pc \in {"free", "forget"}
    BY <2>1, <2>3 DEF StoringFields, Free
  <2>5. DeskAgrees(t)'
    BY <2>4 DEF DeskAgrees
  <2>6. ASSUME InTurn'
        PROVE  /\ \A x \in Desks \ {d} : desk[x] = Free
               /\ VersionsAgree' /\ PointsAtLatest'
    <3>1. InTurn
      BY <2>2, <2>6 DEF InTurn
    <3>2. /\ \A x \in Desks \ {d} : desk[x] = Free
          /\ VersionsAgree /\ contract # NoContract /\ DeskAgrees(desk[d]) /\ DeskKnows(desk[d])
      BY <2>2, <3>1, AtWork
    <3>3. versions[Len(versions)] = row
      BY <2>1, <2>2, <3>2 DEF DeskAgrees, DeskKnows
    <3>4. DOMAIN contract = ContractFields
      BY <3>2 DEF ContractsInv, ContractStands, ContractRows
    <3>5. /\ new.key = row.key /\ new.hash = row.hash /\ new.version = row.number
          /\ new.live = contract.live
      BY <3>4 DEF ContractFields, Pointing
    <3> HIDE DEF new
    <3>6. CASE contract.live
      BY <2>2, <3>2, <3>3, <3>5, <3>6, PointsAgree
    <3>7. CASE ~contract.live
      BY <2>2, <3>2, <3>7 DEF Write, VersionsAgree, PointsAtLatest
    <3>8. QED
      BY <3>2, <3>6, <3>7
  <2>7. QED
    BY <1>0, <2>2, <2>5, <2>6, SitsAgree
<1>15. ASSUME NEW d \in Desks, ForgetImage(d) PROVE AgreeInv'
  <2>1. PICK t : t = [desk[d] EXCEPT !.pc = "image"]
    OBVIOUS
  <2>2. /\ desk[d].pc = "forget" /\ Sits(d, t)
        /\ UNCHANGED <<contract, bytes, versions, evidence, turns>>
        /\ breaks' = 0 => breaks = 0
    BY <1>15, <1>f, <2>1 DEF ForgetImage, history
  <2>3. t.pc \in {"image", "forget"}
    BY <2>1, <2>2
  <2>4. DeskAgrees(t) /\ t.pc \notin Behind /\ desk[d].pc \notin Behind
    BY <2>2, <2>3 DEF DeskAgrees, Behind
  <2>5. QED
    BY <1>0, <2>2, <2>4, NotesAgree
<1>16. ASSUME NEW d \in Desks, KeepImage(d) PROVE AgreeInv'
  <2>1. /\ desk[d].pc = "image" /\ Sits(d, Free)
        /\ UNCHANGED <<contract, bytes, versions, evidence, turns, breaks>>
    BY <1>16 DEF KeepImage
  <2>2. DeskAgrees(Free) /\ desk[d].pc \notin Behind
    BY <2>1 DEF DeskAgrees, Free, Behind
  <2>3. QED
    BY <1>0, <2>1, <2>2, NotesAgree
<1>17. ASSUME NEW d \in Desks, Break(d) PROVE AgreeInv'
  <2>1. breaks' # 0 /\ UNCHANGED versions
    BY <1>17, FaultsCounted DEF Break, Fails, AgreeInv
  <2>2. QED
    BY <1>0, <2>1 DEF AgreeInv, InTurn
<1>b. ASSUME NEW d \in Desks, BackfillFails(d) PROVE AgreeInv'
  <2>1. breaks' # 0 /\ UNCHANGED versions
    BY <1>b, <1>f DEF BackfillFails
  <2>2. QED
    BY <1>0, <2>1 DEF AgreeInv, InTurn
<1>18. ASSUME NEW s \in Statuses, CreateContract(s) PROVE AgreeInv'
  <2>1. contract = NoContract /\ UNCHANGED <<bytes, versions, evidence, desk, turns, breaks>>
    BY <1>18 DEF CreateContract
  <2>2. versions = <<>> /\ \A d \in Desks : desk[d] = Free
    BY <1>0, <2>1 DEF ContractsInv, ContractStands, DeskKnows
  <2>3. \A d \in Desks : DeskAgrees(desk[d])'
    BY <2>1, <2>2 DEF DeskAgrees, Free
  <2>4. QED
    BY <1>0, <2>1, <2>2, <2>3 DEF AgreeInv, InTurn, VersionsAgree, PointsAtLatest
<1>19. ASSUME DeleteContract PROVE AgreeInv'
  <2>1. /\ contract # NoContract /\ contract' = [contract EXCEPT !.live = FALSE]
        /\ turns' = (turns /\ AllFree)
        /\ UNCHANGED <<bytes, versions, evidence, desk, breaks>>
    BY <1>19 DEF DeleteContract, IsLive
  <2>2. contract'.live = FALSE
    BY <2>1 DEF ContractsInv, ContractStands, ContractRows, ContractFields
  <2>3. InTurn' => \A d \in Desks : DeskAgrees(desk[d])'
    <3>1. InTurn' => \A d \in Desks : desk'[d] = Free
      BY <2>1 DEF InTurn, AllFree
    <3>2. QED
      BY <3>1, FreeAgrees
  <2>4. QED
    BY <1>0, <2>1, <2>2, <2>3 DEF AgreeInv, InTurn, VersionsAgree, PointsAtLatest
<1>20. ASSUME DeleteImage \/ UNCHANGED cvars PROVE AgreeInv'
  <2>1. UNCHANGED <<contract, bytes, versions, evidence, desk, turns, breaks>>
    BY <1>20 DEF DeleteImage, cvars
  <2>2. QED
    BY <1>0, <2>1 DEF AgreeInv, InTurn, VersionsAgree, PointsAtLatest, DeskAgrees
<1>21. QED
  BY <1>1, <1>2, <1>3, <1>4, <1>5, <1>6, <1>7, <1>8, <1>9, <1>10, <1>11, <1>12, <1>13,
     <1>14, <1>15, <1>16, <1>17, <1>b, <1>18, <1>19, <1>20 DEF ContractsNext

\* The numbers of versions, the contract's pointer and the records agree in turn.
THEOREM AgreeInvariant == ContractsSpec => []AgreeInv
<1>1. ContractsInit => AgreeInv
  <2> SUFFICES ASSUME ContractsInit PROVE AgreeInv
    OBVIOUS
  <2>1. /\ versions = <<>> /\ evidence = <<>> /\ breaks = 0 /\ skipped = FALSE
        /\ \A d \in Desks : desk[d] = Free
    BY DEF ContractsInit
  <2>2. \A d \in Desks : DeskAgrees(desk[d])
    BY <2>1 DEF DeskAgrees, Free
  <2>3. Len(versions) = 0 /\ DOMAIN versions = {} /\ DOMAIN evidence = {}
    BY <2>1
  <2>4. QED
    BY <2>1, <2>2, <2>3, ContractBounds DEF AgreeInv, FaultsKnown, VersionsAgree, PointsAtLatest
<1>2. ContractsInv /\ AgreeInv /\ [ContractsNext]_cvars => AgreeInv'
  BY AgreeNextInv
<1>3. QED
  BY <1>1, <1>2, ContractsInvariant, PTL DEF ContractsSpec

\* While handlers take turns and nothing fails, versions are numbered from one
\* upwards, the contract points at the latest, and a record names the version
\* that was signed, for any documents and number of versions (nextDocumentVersion,
\* AdminSignContract).
THEOREM VersionsAgreeHolds == ContractsSpec => []VersionsAgreeInTurn
<1>1. ContractsInv /\ AgreeInv => VersionsAgreeInTurn
  <2> SUFFICES ASSUME ContractsInv, AgreeInv, InTurn
               PROVE  /\ \A i \in DOMAIN evidence :
                           versions[evidence[i].original].hash = evidence[i].originalHash
                      /\ AllFree /\ versions # <<>> =>
                           /\ \A i \in DOMAIN versions : versions[i].number = i
                           /\ contract.live => \E i \in {Len(versions)} :
                                /\ contract.version = i
                                /\ contract.key = versions[i].key
                                /\ contract.hash = versions[i].hash
    BY DEF VersionsAgreeInTurn, InTurn
  <2>1. VersionsAgree
    BY DEF AgreeInv
  <2>2. CASE AllFree /\ versions # <<>>
    BY <2>1, <2>2, AtRest, Indices DEF VersionsAgree, PointsAtLatest
  <2>3. QED
    BY <2>1, <2>2 DEF VersionsAgree
<1>2. QED
  BY <1>1, ContractsInvariant, AgreeInvariant, PTL

-----------------------------------------------------------------------------
(* Landed cost: the apportionment *)

\* A strict total order on a finite set numbers its elements: as many have
\* fewer than k before them as k says.
LEMMA Ranked ==
  ASSUME NEW D, IsFiniteSet(D), NEW R \in SUBSET (D \X D),
         \A i \in D : <<i, i>> \notin R,
         \A i, j, k \in D : <<i, j>> \in R /\ <<j, k>> \in R => <<i, k>> \in R,
         \A i, j \in D : i # j => <<i, j>> \in R \/ <<j, i>> \in R,
         NEW k \in 0 .. Cardinality(D)
  PROVE  Cardinality({i \in D : Cardinality({j \in D : <<j, i>> \in R}) < k}) = k
<1> DEFINE Below(i) == {j \in D : <<j, i>> \in R}
           N == Cardinality(D)
           rank == [i \in D |-> Cardinality(Below(i))]
           H == {i \in D : rank[i] < k}
<1>1. N \in Nat
  BY FS_CardinalityType
<1>a. \A i \in D : rank[i] = Cardinality(Below(i))
  OBVIOUS
<1>b. rank = [i \in D |-> rank[i]]
  OBVIOUS
<1> HIDE DEF rank
<1>2. ASSUME NEW i \in D
      PROVE  IsFiniteSet(Below(i)) /\ rank[i] \in 0 .. N - 1 /\ rank[i] \in Int
  <2>1. Below(i) \in SUBSET D /\ Below(i) # D
    OBVIOUS
  <2>2. IsFiniteSet(Below(i))
    BY <2>1, FS_Subset
  <2>3. Cardinality(Below(i)) <= N /\ Cardinality(Below(i)) # N
    BY <2>1, FS_Subset
  <2>4. Cardinality(Below(i)) \in Nat
    BY <2>2, FS_CardinalityType
  <2>5. rank[i] = Cardinality(Below(i))
    BY <1>a
  <2> HIDE DEF N, Below
  <2>6. QED
    BY <1>1, <2>2, <2>3, <2>4, <2>5
<1> HIDE DEF N
<1>3. ASSUME NEW i \in D, NEW j \in D, <<i, j>> \in R
      PROVE  rank[i] < rank[j]
  <2>1. Below(i) \in SUBSET Below(j) /\ Below(i) # Below(j)
    <3>1. \A l \in Below(i) : l \in Below(j)
      BY <1>3
    <3>2. i \in Below(j) /\ i \notin Below(i)
      BY <1>3
    <3>3. QED
      BY <3>1, <3>2
  <2>2. IsFiniteSet(Below(j))
    BY <1>2
  <2>3. Cardinality(Below(i)) <= Cardinality(Below(j)) /\
        Cardinality(Below(i)) # Cardinality(Below(j))
    <3> HIDE DEF Below
    <3>1. QED
      BY <2>1, <2>2, FS_Subset
  <2>4. rank[i] \in Int /\ rank[j] \in Int
    BY <1>2
  <2>5. QED
    BY <1>a, <2>3, <2>4
<1>4. rank \in Injection(D, 0 .. N - 1)
  <2>1. rank \in [D -> 0 .. N - 1]
    <3>1. \A i \in D : rank[i] \in 0 .. N - 1
      BY <1>2
    <3>2. QED
      BY <1>b, <3>1
  <2>2. \A i, j \in D : rank[i] = rank[j] => i = j
    <3>1. \A i \in D : rank[i] \in Int
      BY <1>2
    <3>2. ASSUME NEW i \in D, NEW j \in D, i # j
          PROVE  rank[i] # rank[j]
      <4>1. CASE <<i, j>> \in R
        <5>1. rank[i] < rank[j]
          BY <1>3, <4>1
        <5>2. QED
          BY <3>1, <5>1
      <4>2. CASE <<j, i>> \in R
        <5>1. rank[j] < rank[i]
          BY <1>3, <4>2
        <5>2. QED
          BY <3>1, <5>1
      <4>3. QED
        BY <3>2, <4>1, <4>2
    <3>3. QED
      BY <3>2
  <2>3. QED
    BY <2>1, <2>2 DEF Injection, IsInjective
<1>5. IsFiniteSet(0 .. N - 1) /\ Cardinality(0 .. N - 1) = N
  <2>1. Cardinality(0 .. N - 1) = IF 0 > N - 1 THEN 0 ELSE (N - 1) - 0 + 1
    BY <1>1, FS_Interval
  <2>2. QED
    BY <1>1, <2>1, FS_Interval
<1>6. rank \in Surjection(D, 0 .. N - 1)
  <2>1. Cardinality(D) = Cardinality(0 .. N - 1)
    BY <1>5 DEF N
  <2>2. QED
    BY <1>4, <1>5, <2>1, FS_Injection
<1>7. k \in Nat /\ k <= N
  BY <1>1 DEF N
<1> DEFINE low == [i \in H |-> rank[i]]
<1>8. low \in Injection(H, 0 .. k - 1)
  <2>1. \A i \in H : rank[i] \in 0 .. k - 1
    <3>1. ASSUME NEW i \in H
          PROVE  rank[i] \in 0 .. k - 1
      <4>1. i \in D /\ rank[i] < k
        OBVIOUS
      <4>2. rank[i] \in 0 .. N - 1
        BY <1>2, <4>1
      <4>3. QED
        BY <1>1, <1>7, <4>1, <4>2
    <3>2. QED
      BY <3>1
  <2>a. low \in [H -> 0 .. k - 1]
    BY <2>1
  <2>2. \A i, j \in H : low[i] = low[j] => i = j
    BY <1>4 DEF Injection, IsInjective
  <2>3. QED
    BY <2>a, <2>2 DEF Injection, IsInjective
<1>9. low \in Surjection(H, 0 .. k - 1)
  <2>1. low \in [H -> 0 .. k - 1]
    BY <1>8 DEF Injection
  <2>2. ASSUME NEW r \in 0 .. k - 1
        PROVE  \E i \in H : low[i] = r
    <3>1. r \in 0 .. N - 1 /\ r < k
      BY <1>1, <1>7
    <3>2. PICK i \in D : rank[i] = r
      BY <1>6, <3>1 DEF Surjection
    <3>3. i \in H
      BY <3>1, <3>2
    <3>4. QED
      BY <3>2, <3>3
  <2>3. QED
    BY <2>1, <2>2 DEF Surjection
<1>10. Cardinality(H) = Cardinality(0 .. k - 1)
  <2>1. IsFiniteSet(0 .. k - 1)
    BY <1>7, FS_Interval
  <2> HIDE DEF low, H
  <2>2. QED
    BY <1>8, <1>9, <2>1, FS_Injection
<1>11. Cardinality(0 .. k - 1) = k
  <2>1. Cardinality(0 .. k - 1) = IF 0 > k - 1 THEN 0 ELSE (k - 1) - 0 + 1
    BY <1>7, FS_Interval
  <2>2. QED
    BY <1>7, <2>1
<1>12. H = {i \in D : Cardinality({j \in D : <<j, i>> \in R}) < k}
  BY <1>a
<1>13. QED
  BY <1>10, <1>11, <1>12

\* Division on the natural numbers.
LEMMA Division ==
  ASSUME NEW a \in Nat, NEW b \in Nat \ {0}
  PROVE  /\ a \div b \in Nat /\ a % b \in Nat /\ a % b < b
         /\ a = b * (a \div b) + (a % b)
<1>1. a \div b \in Int /\ a % b \in Nat /\ a % b < b
  OBVIOUS
<1>2. a = b * (a \div b) + (a % b)
  OBVIOUS
<1>3. a \div b >= 0
  BY <1>1, <1>2
<1>4. QED
  BY <1>1, <1>2, <1>3

Parted(total, e, W, i) ==
  total * e[i] = W * Floor(total, e, i) + Remainder(total, e, i)

\* A line's proportion of the total: its floor and what floor division leaves.
LEMMA Proportion ==
  ASSUME NEW n \in Nat, NEW e \in [1 .. n -> Nat], NEW total \in Nat,
         NEW W \in Nat \ {0}, SumFunction(e) = W, NEW i \in 1 .. n
  PROVE  /\ Floor(total, e, i) \in Nat
         /\ Remainder(total, e, i) \in Nat /\ Remainder(total, e, i) < W
         /\ Parted(total, e, W, i)
<1>1. total * e[i] \in Nat
  BY SMT
<1>2. PICK a \in Nat : a = total * e[i]
  BY <1>1
<1>3. Floor(total, e, i) = a \div W /\ Remainder(total, e, i) = a % W
  BY <1>2 DEF Floor, Remainder
<1>4. /\ a \div W \in Nat /\ a % W \in Nat /\ a % W < W
      /\ a = W * (a \div W) + (a % W)
  BY Division
<1>5. QED
  BY <1>2, <1>3, <1>4 DEF Parted

\* What the floors leave over is a number of ngwee, fewer than there are lines
\* with a remainder.
LEMMA LeftOver ==
  ASSUME NEW n \in Nat, NEW e \in [1 .. n -> Nat], NEW total \in Nat,
         NEW W \in Nat \ {0}, SumFunction(e) = W
  PROVE  /\ Left(total, e) \in Nat
         /\ Left(total, e) <=
              Cardinality({i \in 1 .. n : Remainder(total, e, i) > 0})
         /\ Left(total, e) <= n
<1> DEFINE D == 1 .. n
           fl == [i \in D |-> Floor(total, e, i)]
           re == [i \in D |-> Remainder(total, e, i)]
           te == [i \in D |-> total * e[i]]
           wf == [i \in D |-> W * fl[i]]
           P == {i \in D : re[i] > 0}
           Q == D \ P
           F == SumFunctionOnSet(fl, D)
           M == SumFunctionOnSet(re, D)
           c == Cardinality(P)
<1>0. IsFiniteSet(D) /\ Cardinality(D) = n
  <2>1. Cardinality(1 .. n) = IF 1 > n THEN 0 ELSE n - 1 + 1
    BY FS_Interval
  <2>2. IsFiniteSet(1 .. n)
    BY FS_Interval
  <2>3. QED
    BY <2>1, <2>2
<1>d. DOMAIN e = D
  OBVIOUS
<1>1. \A i \in D : /\ fl[i] \in Nat /\ re[i] \in Nat /\ re[i] < W
                   /\ te[i] = wf[i] + re[i]
  <2> TAKE i \in D
  <2>1. /\ Floor(total, e, i) \in Nat
        /\ Remainder(total, e, i) \in Nat /\ Remainder(total, e, i) < W
    BY Proportion
  <2>a. Parted(total, e, W, i)
    BY Proportion
  <2>2. /\ fl[i] = Floor(total, e, i) /\ re[i] = Remainder(total, e, i)
        /\ te[i] = total * e[i] /\ wf[i] = W * Floor(total, e, i)
    OBVIOUS
  <2> HIDE DEF fl, re, te, wf
  <2>3. QED
    BY <2>1, <2>2, <2>a DEF Parted
<1>a. \A i \in D : te[i] = total * e[i] /\ wf[i] = W * fl[i] /\ e[i] \in Int
  OBVIOUS
<1>l. Left(total, e) = total - F
  BY <1>d DEF Left, SumFunction
<1> HIDE DEF fl, re, te, wf, F, M, c
<1>2. F \in Int
  <2>1. \A i \in D : fl[i] \in Int
    BY <1>1
  <2>2. QED
    BY <1>0, <2>1, SumInt DEF F
<1>3. SumFunctionOnSet(te, D) = total * W
  <2>1. \A i \in D : te[i] = total * e[i]
    BY <1>a
  <2>2. SumFunctionOnSet(e, D) = W
    BY <1>d DEF SumFunction
  <2>3. \A i \in D : e[i] \in Int
    BY <1>a
  <2>4. SumFunctionOnSet(te, D) = total * SumFunctionOnSet(e, D)
    BY <1>0, <2>1, <2>3, SumScale
  <2>5. QED
    BY <2>2, <2>4
<1>4. SumFunctionOnSet(wf, D) = W * F
  <2>1. \A i \in D : wf[i] = W * fl[i]
    BY <1>a
  <2>2. \A i \in D : fl[i] \in Int
    BY <1>1
  <2>3. QED
    BY <1>0, <2>1, <2>2, SumScale DEF F
<1>5. SumFunctionOnSet(te, D) = SumFunctionOnSet(wf, D) + M
  <2>1. \A i \in D : wf[i] \in Int
    <3>1. \A x \in Nat : W * x \in Int
      OBVIOUS
    <3>2. QED
      BY <1>1, <1>a, <3>1
  <2>2. \A i \in D : re[i] \in Int
    BY <1>1
  <2>3. \A i \in D : te[i] = wf[i] + re[i]
    BY <1>1
  <2>4. QED
    BY <1>0, <2>1, <2>2, <2>3, SumPlus DEF M
<1>6. M \in Nat
  <2>1. \A i \in D : re[i] \in Nat
    BY <1>1
  <2>2. QED
    BY <1>0, <2>1, SumNat DEF M
<1>7. c \in Nat /\ c <= n
  <2>1. P \in SUBSET D
    OBVIOUS
  <2>2. IsFiniteSet(P) /\ Cardinality(P) <= Cardinality(D)
    <3> HIDE DEF P, D
    <3>1. QED
      BY <1>0, <2>1, FS_Subset
  <2>3. Cardinality(P) \in Nat
    BY <2>2, FS_CardinalityType
  <2>4. QED
    BY <1>0, <2>2, <2>3 DEF c
<1>8. M <= (W - 1) * c
  <2>1. P \in SUBSET D /\ Q \in SUBSET D /\ P \cap Q = {} /\ P \cup Q = D
    OBVIOUS
  <2>2. IsFiniteSet(P) /\ IsFiniteSet(Q)
    <3> HIDE DEF P, D, Q
    <3>1. QED
      BY <1>0, <2>1, FS_Subset
  <2>3. SumFunctionOnSet(re, Q) = 0
    <3>1. \A i \in Q : re[i] = 0
      BY <1>1
    <3> HIDE DEF Q
    <3>2. QED
      BY <2>2, <3>1, SumZero
  <2>4. SumFunctionOnSet(re, P) <= (W - 1) * c
    <3>1. \A i \in P : re[i] \in Int
      BY <1>1
    <3>2. \A i \in P : re[i] <= W - 1
      BY <1>1
    <3>3. W - 1 \in Int
      OBVIOUS
    <3> HIDE DEF P
    <3>4. QED
      BY <2>2, <3>1, <3>2, <3>3, SumBelow DEF c
  <2>5. SumFunctionOnSet(re, P \cup Q) =
          SumFunctionOnSet(re, P) + SumFunctionOnSet(re, Q)
    <3>1. \A i \in P \cup Q : re[i] \in Int
      BY <1>1, <2>1
    <3> HIDE DEF P, Q
    <3>2. QED
      BY <2>1, <2>2, <3>1, SumUnion
  <2>6. SumFunctionOnSet(re, P) \in Int
    <3>1. \A i \in P : re[i] \in Int
      BY <1>1
    <3> HIDE DEF P
    <3>2. QED
      BY <2>2, <3>1, SumInt
  <2>7. SumFunctionOnSet(re, P \cup Q) = M
    BY <2>1 DEF M
  <2>8. QED
    BY <2>3, <2>4, <2>5, <2>6, <2>7
<1>9. W * (total - F) = M
  <2>1. total * W = W * F + M
    BY <1>3, <1>4, <1>5
  <2>2. W * (total - F) = total * W - W * F
    BY <1>2
  <2>3. W * F \in Int /\ total * W \in Int
    BY <1>2
  <2>4. QED
    BY <1>6, <2>1, <2>2, <2>3
<1>10. total - F \in Nat /\ total - F <= c
  <2> DEFINE d == total - F
  <2>1. d \in Int /\ W * d = M
    BY <1>2, <1>9
  <2> HIDE DEF d
  <2>2. d >= 0
    BY <1>6, <2>1
  <2>3. W * d <= W * c - c
    BY <1>7, <1>8, <2>1
  <2>4. d <= c
    <3>1. ASSUME d >= c + 1 PROVE FALSE
      <4>1. W * d >= W * (c + 1)
        BY <1>7, <2>1, <3>1
      <4>2. W * (c + 1) = W * c + W
        BY <1>7
      <4>3. W * c \in Int /\ W * d \in Int
        BY <1>7, <2>1
      <4>4. QED
        BY <1>7, <2>3, <4>1, <4>2, <4>3
    <3>2. QED
      BY <1>7, <2>1, <3>1
  <2>5. QED
    BY <2>1, <2>2, <2>4 DEF d
<1>11. P = {i \in 1 .. n : Remainder(total, e, i) > 0}
  BY DEF re
<1>12. Left(total, e) \in Nat /\ Left(total, e) <= c
  BY <1>l, <1>10
<1>13. Left(total, e) <= n
  BY <1>7, <1>12
<1>14. QED
  BY <1>11, <1>12, <1>13 DEF c

\* As many lines get one ngwee more as there are left over, each of them with a
\* remainder, and none before a line with a greater one, or before an earlier
\* line with the same.
LEMMA Handing ==
  ASSUME NEW n \in Nat, NEW e \in [1 .. n -> Nat], NEW total \in Nat,
         NEW W \in Nat \ {0}, SumFunction(e) = W
  PROVE  /\ Cardinality({i \in 1 .. n : HandedOut(total, e, i)}) = Left(total, e)
         /\ \A i \in 1 .. n : HandedOut(total, e, i) => Remainder(total, e, i) > 0
         /\ \A i, j \in 1 .. n : Before(total, e, i, j) /\ HandedOut(total, e, j)
                                  => HandedOut(total, e, i)
<1> DEFINE D == 1 .. n
           R == {x \in D \X D : Before(total, e, x[1], x[2])}
           Ahead(i) == {j \in D : Before(total, e, j, i)}
           L == Left(total, e)
<1>0. IsFiniteSet(D) /\ Cardinality(D) = n
  <2>1. Cardinality(1 .. n) = IF 1 > n THEN 0 ELSE n - 1 + 1
    BY FS_Interval
  <2>2. IsFiniteSet(1 .. n)
    BY FS_Interval
  <2>3. QED
    BY <2>1, <2>2
<1>1. \A i \in D : Remainder(total, e, i) \in Nat
  BY Proportion
<1>2. /\ \A i \in D : ~Before(total, e, i, i)
      /\ \A i, j, k \in D : Before(total, e, i, j) /\ Before(total, e, j, k)
                            => Before(total, e, i, k)
      /\ \A i, j \in D : i # j => Before(total, e, i, j) \/ Before(total, e, j, i)
  BY <1>1 DEF Before
<1>3. \A i, j \in D : <<i, j>> \in R <=> Before(total, e, i, j)
  OBVIOUS
<1>4. L \in Nat /\ L <= n
  BY LeftOver
<1>5. \A i \in D : {j \in D : <<j, i>> \in R} = Ahead(i)
  BY <1>3
<1>d. DOMAIN e = D
  OBVIOUS
<1>6. \A i \in D : HandedOut(total, e, i) <=> Cardinality(Ahead(i)) < L
  BY <1>d DEF HandedOut
<1>7. Cardinality({i \in D : HandedOut(total, e, i)}) = L
  <2>1. R \in SUBSET (D \X D)
    OBVIOUS
  <2>2. L \in 0 .. Cardinality(D)
    BY <1>0, <1>4
  <2>3. /\ \A i \in D : <<i, i>> \notin R
        /\ \A i, j, k \in D : <<i, j>> \in R /\ <<j, k>> \in R => <<i, k>> \in R
        /\ \A i, j \in D : i # j => <<i, j>> \in R \/ <<j, i>> \in R
    BY <1>2, <1>3
  <2> HIDE DEF D, R, L
  <2>4. Cardinality({i \in D : Cardinality({j \in D : <<j, i>> \in R}) < L}) = L
    BY <1>0, <2>1, <2>2, <2>3, Ranked
  <2>5. {i \in D : HandedOut(total, e, i)}
          = {i \in D : Cardinality({j \in D : <<j, i>> \in R}) < L}
    BY <1>5, <1>6
  <2>6. QED
    BY <2>4, <2>5
<1>8. \A i \in D : IsFiniteSet(Ahead(i))
  <2>1. \A i \in D : Ahead(i) \in SUBSET D
    OBVIOUS
  <2> HIDE DEF D, Ahead
  <2>2. QED
    BY <1>0, <2>1, FS_Subset
<1>c. \A i \in D : Cardinality(Ahead(i)) \in Nat
  BY <1>8, FS_CardinalityType
<1>9. ASSUME NEW i \in D, HandedOut(total, e, i)
      PROVE  Remainder(total, e, i) > 0
  <2> DEFINE P == {j \in D : Remainder(total, e, j) > 0}
  <2>1. SUFFICES ASSUME Remainder(total, e, i) = 0 PROVE FALSE
    BY <1>1
  <2>2. P \in SUBSET Ahead(i)
    BY <1>1, <2>1 DEF Before
  <2>3. Cardinality(P) <= Cardinality(Ahead(i))
    <3> HIDE DEF P, Ahead
    <3>1. QED
      BY <1>8, <2>2, FS_Subset
  <2>4. L <= Cardinality(P)
    BY LeftOver
  <2>5. IsFiniteSet(P)
    <3> HIDE DEF P, Ahead
    <3>1. QED
      BY <1>8, <2>2, FS_Subset
  <2>6. Cardinality(P) \in Nat
    BY <2>5, FS_CardinalityType
  <2>7. Cardinality(Ahead(i)) < L
    BY <1>6, <1>9
  <2> HIDE DEF P, Ahead, L
  <2>8. QED
    BY <1>4, <1>c, <2>3, <2>4, <2>6, <2>7
<1>10. ASSUME NEW i \in D, NEW j \in D, Before(total, e, i, j),
              HandedOut(total, e, j)
       PROVE  HandedOut(total, e, i)
  <2>1. Ahead(i) \in SUBSET Ahead(j)
    BY <1>2, <1>10
  <2>2. Cardinality(Ahead(i)) <= Cardinality(Ahead(j))
    <3> HIDE DEF Ahead
    <3>1. QED
      BY <1>8, <2>1, FS_Subset
  <2>3. Cardinality(Ahead(j)) < L
    BY <1>6, <1>10
  <2>4. Cardinality(Ahead(i)) < L
    <3> HIDE DEF Ahead, L
    <3>1. QED
      BY <1>4, <1>c, <2>2, <2>3
  <2>5. QED
    BY <1>6, <2>4
<1>11. QED
  BY <1>7, <1>9, <1>10

\* The shares over weights that are not all zero.
Shares(total, e) ==
  [i \in DOMAIN e |-> Floor(total, e, i) + IF HandedOut(total, e, i) THEN 1 ELSE 0]

\* They add back to the total, to the ngwee.
LEMMA SharesAddUp ==
  ASSUME NEW n \in Nat, NEW e \in [1 .. n -> Nat], NEW total \in Nat,
         NEW W \in Nat \ {0}, SumFunction(e) = W
  PROVE  /\ Shares(total, e) \in [1 .. n -> Nat]
         /\ SumFunction(Shares(total, e)) = total
<1> DEFINE D == 1 .. n
           sh == Shares(total, e)
           fl == [i \in D |-> Floor(total, e, i)]
           H == {i \in D : HandedOut(total, e, i)}
           more == [i \in D |-> IF i \in H THEN 1 ELSE 0]
<1>0. IsFiniteSet(D) /\ DOMAIN e = D
  BY FS_Interval
<1>1. \A i \in D : fl[i] \in Nat
  BY Proportion
<1>2. /\ DOMAIN sh = D /\ sh = [i \in D |-> sh[i]]
      /\ \A i \in D : sh[i] = fl[i] + more[i]
  BY <1>0 DEF Shares
<1>3. \A i \in D : more[i] \in Nat /\ more[i] = IF i \in H THEN 1 ELSE 0
  OBVIOUS
<1>4. Left(total, e) = total - SumFunctionOnSet(fl, D)
  BY <1>0 DEF Left, SumFunction
<1>5. Cardinality(H) = Left(total, e)
  BY Handing
<1> HIDE DEF sh, fl, more
<1>6. SumFunctionOnSet(more, D) = Cardinality(H)
  <2>1. H \subseteq D
    OBVIOUS
  <2> HIDE DEF H, D
  <2>2. QED
    BY <1>0, <1>3, <2>1, SumCount
<1>7. SumFunctionOnSet(sh, D) = SumFunctionOnSet(fl, D) + SumFunctionOnSet(more, D)
  <2>1. \A i \in D : fl[i] \in Int
    BY <1>1
  <2>2. \A i \in D : more[i] \in Int
    BY <1>3
  <2> HIDE DEF D
  <2>3. QED
    BY <1>0, <1>2, <2>1, <2>2, SumPlus
<1>8. SumFunctionOnSet(fl, D) \in Int
  <2>1. \A i \in D : fl[i] \in Int
    BY <1>1
  <2>2. QED
    BY <1>0, <2>1, SumInt
<1>9. SumFunctionOnSet(sh, D) = total
  BY <1>4, <1>5, <1>6, <1>7, <1>8
<1>10. \A i \in D : sh[i] \in Nat
  BY <1>1, <1>2, <1>3
<1>11. sh \in [D -> Nat]
  BY <1>2, <1>10
<1>12. SumFunction(sh) = total
  BY <1>2, <1>9 DEF SumFunction
<1>13. QED
  BY <1>11, <1>12 DEF sh

LEMMA Times ==
  \A a, b, c \in Nat : /\ a >= b => c * a >= c * b
                       /\ a > b /\ c > 0 => c * a > c * b
<1> TAKE a, b, c \in Nat
<1> SUFFICES ASSUME a >= b
             PROVE  /\ c * a >= c * b
                    /\ a > b /\ c > 0 => c * a > c * b
  OBVIOUS
<1>1. PICK d \in Nat : a = b + d /\ (a > b => d > 0)
  <2>1. a - b \in Nat /\ a = b + (a - b)
    OBVIOUS
  <2>2. QED
    BY <2>1
<1>2. c * (b + d) = c * b + c * d
  OBVIOUS
<1>3. c * d >= 0 /\ c * b \in Int /\ (c > 0 /\ d > 0 => c * d > 0)
  OBVIOUS
<1>4. QED
  BY <1>1, <1>2, <1>3

\* What makes shares of s over weights e fair.
Fair(sh, s, e, W) ==
  \A i, j \in DOMAIN sh :
    /\ sh[i] * W < s * e[i] + W
    /\ sh[i] * W > s * e[i] - W
    /\ e[i] > e[j] => sh[i] >= sh[j]
    /\ e[i] = e[j] /\ i < j => sh[i] \in {sh[j], sh[j] + 1}

LEMMA SharesFair ==
  ASSUME NEW n \in Nat, NEW e \in [1 .. n -> Nat], NEW total \in Nat,
         NEW W \in Nat \ {0}, SumFunction(e) = W
  PROVE  Fair(Shares(total, e), total, e, W)
<1> DEFINE D == 1 .. n
           sh == Shares(total, e)
           fl(i) == Floor(total, e, i)
           re(i) == Remainder(total, e, i)
           up(i) == IF HandedOut(total, e, i) THEN 1 ELSE 0
<1>0. DOMAIN e = D /\ DOMAIN sh = D
  BY DEF Shares
<1>1. \A i \in D : fl(i) \in Nat /\ re(i) \in Nat /\ re(i) < W
  BY Proportion
<1>2. \A i \in D : Parted(total, e, W, i)
  BY Proportion
<1>3. \A i \in D : total * e[i] = W * fl(i) + re(i)
  BY <1>2 DEF Parted
<1>4. \A i \in D : sh[i] = fl(i) + up(i)
  BY <1>0 DEF Shares
<1>5. \A i \in D : up(i) \in {0, 1} /\ (up(i) = 1 => re(i) > 0)
  <2>1. \A i \in D : HandedOut(total, e, i) => Remainder(total, e, i) > 0
    BY Handing
  <2>2. QED
    BY <2>1
<1>6. \A i, j \in D : Before(total, e, i, j) => up(i) >= up(j)
  <2>1. \A i, j \in D : Before(total, e, i, j) /\ HandedOut(total, e, j)
                        => HandedOut(total, e, i)
    BY Handing
  <2>2. QED
    BY <2>1
<1>7. \A i, j \in D : re(i) > re(j) \/ (re(i) = re(j) /\ i < j)
                      => up(i) >= up(j)
  BY <1>6 DEF Before
<1> HIDE DEF sh, fl, re, up
<1>8. ASSUME NEW i \in D
      PROVE  sh[i] * W < total * e[i] + W /\ sh[i] * W > total * e[i] - W
  <2>1. PICK q \in Nat : q = fl(i)
    BY <1>1
  <2>2. PICK r \in Nat : r = re(i) /\ r < W
    BY <1>1
  <2>3. total * e[i] = W * q + r
    BY <1>3, <2>1, <2>2
  <2>4. W * q \in Int
    OBVIOUS
  <2>5. CASE up(i) = 0
    <3>1. sh[i] * W = W * q
      BY <1>4, <2>1, <2>5
    <3>2. QED
      BY <2>2, <2>3, <2>4, <3>1
  <2>6. CASE up(i) = 1
    <3>1. sh[i] * W = W * q + W
      <4>1. (q + 1) * W = W * q + W
        OBVIOUS
      <4>2. QED
        BY <1>4, <2>1, <2>6, <4>1
    <3>2. r > 0
      BY <1>5, <2>2, <2>6
    <3>3. QED
      BY <2>2, <2>3, <2>4, <3>1, <3>2
  <2>7. QED
    BY <1>5, <2>5, <2>6
<1>9. ASSUME NEW i \in D, NEW j \in D, e[i] >= e[j],
             e[i] > e[j] \/ i < j
      PROVE  sh[i] >= sh[j]
  <2>1. PICK p \in Nat : p = fl(i)
    BY <1>1
  <2>2. PICK q \in Nat : q = fl(j)
    BY <1>1
  <2>3. PICK r \in Nat : r = re(i) /\ r < W
    BY <1>1
  <2>4. PICK s \in Nat : s = re(j) /\ s < W
    BY <1>1
  <2>5. W * p + r >= W * q + s
    <3>1. total * e[i] >= total * e[j]
      BY <1>9, Times
    <3>2. QED
      BY <1>3, <2>1, <2>2, <2>3, <2>4, <3>1
  <2>6. p >= q
    <3>1. ASSUME q >= p + 1 PROVE FALSE
      <4>1. W * q >= W * (p + 1)
        BY <3>1, Times
      <4>2. W * (p + 1) = W * p + W
        OBVIOUS
      <4>3. PICK a \in Int : a = W * p
        OBVIOUS
      <4>4. PICK b \in Int : b = W * q
        OBVIOUS
      <4>5. b >= a + W /\ a + r >= b + s
        BY <2>5, <4>1, <4>2, <4>3, <4>4
      <4>6. QED
        BY <2>3, <2>4, <4>5
    <3>2. QED
      BY <3>1
  <2>7. sh[i] = p + up(i) /\ sh[j] = q + up(j)
    BY <1>4, <2>1, <2>2
  <2>8. up(i) \in {0, 1} /\ up(j) \in {0, 1}
    BY <1>5
  <2>9. CASE p > q
    BY <2>7, <2>8, <2>9
  <2>10. CASE p = q
    <3>1. r >= s
      <4>1. W * q \in Int /\ W * p = W * q
        BY <2>10
      <4>2. QED
        BY <2>5, <4>1
    <3>2. up(i) >= up(j)
      <4>1. CASE r > s
        BY <1>7, <2>3, <2>4, <4>1
      <4>2. CASE r = s /\ i < j
        BY <1>7, <2>3, <2>4, <4>2
      <4>3. CASE r = s /\ e[i] > e[j]
        <5>1. total * e[i] = total * e[j]
          BY <1>3, <2>1, <2>2, <2>3, <2>4, <2>10, <4>3
        <5>2. total = 0
          <6>1. total > 0 => total * e[i] > total * e[j]
            BY <4>3, Times
          <6>2. total * e[i] \in Int
            OBVIOUS
          <6>3. QED
            BY <5>1, <6>1, <6>2
        <5>3. s = 0
          <6>1. total * e[j] = 0
            BY <5>2
          <6>2. W * q + s = 0
            BY <1>3, <2>2, <2>4, <6>1
          <6>3. W * q >= 0
            OBVIOUS
          <6>4. QED
            BY <6>2, <6>3
        <5>4. up(j) = 0
          <6>1. re(j) = 0
            BY <2>4, <5>3
          <6>2. up(j) # 1
            BY <1>5, <6>1
          <6>3. QED
            BY <2>8, <6>2
        <5>5. QED
          BY <2>8, <5>4
      <4>4. QED
        BY <1>9, <3>1, <4>1, <4>2, <4>3
    <3>3. QED
      BY <2>7, <2>8, <2>10, <3>2
  <2>11. QED
    BY <2>6, <2>9, <2>10
<1>10. ASSUME NEW i \in D, NEW j \in D, e[i] = e[j], i < j
       PROVE  sh[i] \in {sh[j], sh[j] + 1}
  <2>1. fl(i) = fl(j)
    BY <1>10 DEF fl, Floor
  <2>2. sh[i] >= sh[j]
    BY <1>9, <1>10
  <2>3. up(i) \in {0, 1} /\ up(j) \in {0, 1} /\ fl(i) \in Nat
    BY <1>1, <1>5
  <2>4. sh[i] = fl(i) + up(i) /\ sh[j] = fl(i) + up(j)
    BY <1>4, <2>1
  <2>5. QED
    BY <2>2, <2>3, <2>4
<1>11. \A i, j \in D : e[i] > e[j] => sh[i] >= sh[j]
  BY <1>9
<1>12. QED
  BY <1>0, <1>8, <1>10, <1>11 DEF Fair, sh

\* Of any weights a receipt may have, those that count are not all zero.
LEMMA Weights ==
  ASSUME NEW b \in Bases
  PROVE  /\ Len(b) \in Nat /\ DOMAIN b = 1 .. Len(b) /\ 1 \in DOMAIN b
         /\ Effective(b) \in [1 .. Len(b) -> Nat]
         /\ SumFunction(Effective(b)) \in Nat \ {0}
<1>1. b \in Seq(Nat) /\ b # <<>>
  BY LandedBounds
<1>2. PICK n \in Nat : n = Len(b)
  BY <1>1
<1>3. DOMAIN b = 1 .. n /\ n # 0 /\ \A i \in 1 .. n : b[i] \in Nat
  BY <1>1, <1>2
<1>4. b \in [1 .. n -> Nat]
  BY <1>1, <1>2
<1>5. IsFiniteSet(1 .. n)
  BY FS_Interval
<1>6. CASE SumFunction(b) = 0
  <2> DEFINE e == [i \in 1 .. n |-> 1]
  <2>1. Effective(b) = e
    BY <1>3, <1>6 DEF Effective
  <2>2. DOMAIN e = 1 .. n /\ e \in [1 .. n -> Nat]
    OBVIOUS
  <2>3. \A i \in 1 .. n : e[i] = IF i \in 1 .. n THEN 1 ELSE 0
    OBVIOUS
  <2>4. Cardinality(1 .. n) = n
    <3>1. Cardinality(1 .. n) = IF 1 > n THEN 0 ELSE n - 1 + 1
      BY FS_Interval
    <3>2. QED
      BY <1>3, <3>1
  <2> HIDE DEF e
  <2>5. SumFunctionOnSet(e, 1 .. n) = Cardinality(1 .. n)
    BY <1>5, <2>3, SumCount
  <2>6. SumFunction(e) = n
    BY <2>2, <2>4, <2>5 DEF SumFunction
  <2>7. QED
    BY <1>2, <1>3, <2>1, <2>2, <2>6
<1>7. CASE SumFunction(b) # 0
  <2>1. SumFunction(b) \in Nat
    <3>1. SumFunctionOnSet(b, 1 .. n) \in Nat
      BY <1>3, <1>5, SumNat
    <3>2. QED
      BY <1>3, <3>1 DEF SumFunction
  <2>2. Effective(b) = b
    BY <1>7 DEF Effective
  <2>3. QED
    BY <1>2, <1>3, <1>4, <1>7, <2>1, <2>2
<1>8. QED
  BY <1>6, <1>7

\* ApportionNgwee: the shares of any total over any weights add back to it, and
\* are fair.
LEMMA ApportionStands ==
  ASSUME NEW b \in Bases, NEW total \in Nat
  PROVE  /\ Apportion(total, b) \in [DOMAIN b -> Nat]
         /\ Apportion(total, b) # <<>>
         /\ SumFunction(Apportion(total, b)) = total
         /\ Fair(Apportion(total, b), total, Effective(b),
                 SumFunction(Effective(b)))
<1>1. PICK n \in Nat : n = Len(b)
  BY Weights
<1>2. PICK e \in [1 .. n -> Nat] : e = Effective(b)
  BY <1>1, Weights
<1>3. PICK W \in Nat \ {0} : SumFunction(e) = W
  BY <1>2, Weights
<1>4. Apportion(total, b) = Shares(total, e)
  BY <1>2 DEF Apportion, Shares
<1>5. /\ Shares(total, e) \in [1 .. n -> Nat]
      /\ SumFunction(Shares(total, e)) = total
  BY <1>3, SharesAddUp
<1>6. Fair(Shares(total, e), total, e, W)
  BY <1>3, SharesFair
<1>7. DOMAIN b = 1 .. n /\ 1 \in 1 .. n
  BY <1>1, Weights
<1>8. Shares(total, e) # <<>>
  BY <1>5, <1>7
<1>9. QED
  BY <1>2, <1>3, <1>4, <1>5, <1>6, <1>7, <1>8

-----------------------------------------------------------------------------
(* Landed cost: its bookings *)

\* What some of the charges come to is a number.
LEMMA ChargesAddUp ==
  ASSUME NEW c \in Seq(Amounts), NEW S \in SUBSET DOMAIN c
  PROVE  SumFunctionOnSet(c, S) \in Nat
<1>1. PICK n \in Nat : n = Len(c)
  OBVIOUS
<1>2. DOMAIN c = 1 .. n /\ \A i \in 1 .. n : c[i] \in Amounts
  BY <1>1
<1>a. \A i \in 1 .. n : c[i] \in Nat
  BY <1>2, LandedBounds
<1>3. IsFiniteSet(1 .. n)
  BY FS_Interval
<1>4. QED
  BY <1>2, <1>a, <1>3, SumNat

\* The charges booked so far stay what they are when one more is booked.
LEMMA ChargesStay ==
  ASSUME NEW c \in Seq(Amounts), NEW a \in Amounts, NEW S \in SUBSET DOMAIN c
  PROVE  SumFunctionOnSet(Append(c, a), S) = SumFunctionOnSet(c, S)
<1> DEFINE d == Append(c, a)
<1>1. PICK n \in Nat : n = Len(c) /\ DOMAIN c = 1 .. n
  OBVIOUS
<1>2. \A i \in S : d[i] = c[i] /\ c[i] \in Amounts
  BY <1>1
<1>3. \A i \in S : d[i] = c[i] /\ c[i] \in Int
  <2>1. Amounts \subseteq Int
    BY LandedBounds
  <2>2. QED
    BY <1>2, <2>1
<1> HIDE DEF d
<1>4. IsFiniteSet(S)
  <2>1. IsFiniteSet(1 .. n)
    BY FS_Interval
  <2>2. QED
    BY <1>1, <2>1, FS_Subset
<1>5. SumFunctionOnSet(d, S) = SumFunctionOnSet(c, S)
  BY <1>3, <1>4, SumEqual
<1>6. QED
  BY <1>5 DEF d

\* A charge booked adds its amount to the charges it is counted with.
LEMMA ChargeAdds ==
  ASSUME NEW c \in Seq(Amounts), NEW a \in Amounts, NEW S \in SUBSET DOMAIN c
  PROVE  /\ Len(c) + 1 = Len(Append(c, a))
         /\ S \cup {Len(c) + 1} \in SUBSET DOMAIN Append(c, a)
         /\ S = DOMAIN c => S \cup {Len(c) + 1} = DOMAIN Append(c, a)
         /\ SumFunctionOnSet(Append(c, a), S \cup {Len(c) + 1})
              = SumFunctionOnSet(c, S) + a
<1> DEFINE d == Append(c, a)
<1>1. PICK n \in Nat : n = Len(c) /\ DOMAIN c = 1 .. n
  OBVIOUS
<1>2. DOMAIN d = 1 .. n + 1 /\ Len(d) = n + 1
  BY <1>1
<1>3. d[n + 1] = a /\ \A i \in 1 .. n + 1 : d[i] \in Int
  <2>1. d[n + 1] = a /\ \A i \in 1 .. n + 1 : d[i] \in Amounts
    BY <1>1
  <2>2. Amounts \subseteq Int
    BY LandedBounds
  <2> HIDE DEF d
  <2>3. QED
    BY <2>1, <2>2
<1>4. IsFiniteSet(1 .. n + 1)
  BY FS_Interval
<1>5. SumFunctionOnSet(d, S) = SumFunctionOnSet(c, S)
  BY ChargesStay
<1> HIDE DEF d
<1>6. SumFunctionOnSet(d, S \cup {n + 1}) = SumFunctionOnSet(d, S) + d[n + 1]
  <2>1. \A i \in 1 .. n + 1 : d[i] \in Int
    BY <1>3
  <2>2. S \in SUBSET (1 .. n + 1) /\ n + 1 \in (1 .. n + 1) \ S
    BY <1>1
  <2>3. QED
    BY <1>4, <2>1, <2>2, SumAdd
<1>7. /\ S \cup {n + 1} \in SUBSET DOMAIN d
      /\ S = DOMAIN c => S \cup {n + 1} = DOMAIN d
  BY <1>1, <1>2
<1>8. QED
  BY <1>1, <1>2, <1>3, <1>5, <1>6, <1>7 DEF d

\* What a booking at each program counter keeps in its locals.
LEMMA BookingLocals ==
  ASSUME LandedTypeOK, NEW w \in Clerks
  PROVE  /\ clerk[w].pc = "read" => clerk[w] \in [pc : {"read"}, amount : Amounts]
         /\ clerk[w].pc = "write" =>
              clerk[w] \in [pc : {"write"}, amount : Amounts, total : Nat]
         /\ clerk[w].pc \notin {"read", "write"} => clerk[w] = NotBooking
BY DEF LandedTypeOK, NotBooking

LEMMA LandedStart == LandedInit => LandedInv
<1> SUFFICES ASSUME LandedInit PROVE LandedInv
  OBVIOUS
<1>1. LandedTypeOK
  BY DEF LandedInit, LandedTypeOK, NotBooking
<1>2. LinesInv /\ BookingsInv
  BY DEF LandedInit, LinesInv, BookingsInv, NotBooking
<1>3. QED
  BY <1>1, <1>2 DEF LandedInv

\* The goods arrive with the charges booked so far.
LEMMA ArriveStands ==
  ASSUME LandedInv, NEW first \in Seq(Amounts), Arrive(first)
  PROVE  LandedInv'
<1>0. /\ charge' = first /\ basis' = basis /\ clerk' = clerk /\ orderly' = orderly
      /\ apportioned' = Apportion(SumFunction(first), basis)
      /\ apportioned = <<>> /\ basis \in Bases /\ LandedTypeOK
      /\ \A w \in Clerks : clerk[w] = NotBooking
  BY DEF LandedInv, Arrive, LinesInv, LandedTypeOK
<1>1. SumFunction(first) \in Nat
  BY ChargesAddUp DEF SumFunction
<1>2. /\ apportioned' \in [DOMAIN basis -> Nat]
      /\ apportioned' # <<>>
  BY <1>0, <1>1, ApportionStands
<1>3. LandedTypeOK'
  BY <1>0, <1>2 DEF LandedTypeOK
<1>4. LinesInv'
  <2>1. DOMAIN first \in SUBSET DOMAIN first
    OBVIOUS
  <2>2. first # <<>> => Len(first) \in DOMAIN first
    OBVIOUS
  <2>3. apportioned' = Apportion(SumFunctionOnSet(charge', DOMAIN charge'), basis')
    BY <1>0 DEF SumFunction
  <2>4. QED
    BY <1>0, <1>2, <2>1, <2>2, <2>3 DEF LinesInv
<1>5. BookingsInv'
  BY <1>0 DEF BookingsInv, NotBooking
<1>6. QED
  BY <1>3, <1>4, <1>5 DEF LandedInv

LEMMA LinesKept ==
  ASSUME LandedInv, UNCHANGED <<basis, charge, apportioned>>,
         apportioned # <<>>, orderly' => orderly
  PROVE  LinesInv'
BY DEF LandedInv, LinesInv

\* Every step keeps the shares to one view of the charges (recostReceipt).
LEMMA LandedStep == LandedInv /\ [LandedNext]_lvars => LandedInv'
<1> SUFFICES ASSUME LandedInv, [LandedNext]_lvars PROVE LandedInv'
  OBVIOUS
<1>t. LandedTypeOK /\ LinesInv /\ BookingsInv
  BY DEF LandedInv
<1>1. CASE Arrive(<<>>)
  <2>1. <<>> \in Seq(Amounts)
    OBVIOUS
  <2>2. QED
    BY <1>1, <2>1, ArriveStands
<1>2. ASSUME NEW a \in Amounts, Arrive(<<a>>) PROVE LandedInv'
  <2>1. <<a>> \in Seq(Amounts)
    OBVIOUS
  <2>2. QED
    BY <1>2, <2>1, ArriveStands
<1>3. ASSUME NEW w \in Clerks, NEW a \in Amounts, BeginBooking(w, a)
      PROVE  LandedInv'
  <2> DEFINE x == [pc |-> "read", amount |-> a]
  <2>1. /\ clerk' = [clerk EXCEPT ![w] = x] /\ apportioned # <<>>
        /\ clerk[w] = NotBooking
        /\ orderly' = (orderly /\ \A o \in Clerks : clerk[o] = NotBooking)
        /\ UNCHANGED <<basis, charge, apportioned>>
    BY <1>3 DEF BeginBooking
  <2>2. LandedTypeOK'
    BY <1>t, <2>1 DEF LandedTypeOK
  <2>3. LinesInv'
    BY <2>1, LinesKept
  <2>4. \A v \in Clerks : clerk'[v] = IF v = w THEN x ELSE clerk[v]
    BY <1>t, <2>1 DEF LandedTypeOK
  <2>5. BookingsInv'
    <3>1. ASSUME NEW v \in Clerks, clerk'[v].pc = "write"
          PROVE  \E S \in SUBSET DOMAIN charge' :
                   /\ clerk'[v].total = SumFunctionOnSet(charge', S) + clerk'[v].amount
                   /\ orderly' => S = DOMAIN charge'
      <4>1. v # w /\ clerk'[v] = clerk[v]
        BY <2>4, <3>1
      <4>2. PICK S \in SUBSET DOMAIN charge :
              /\ clerk[v].total = SumFunctionOnSet(charge, S) + clerk[v].amount
              /\ orderly => S = DOMAIN charge
        BY <1>t, <3>1, <4>1 DEF BookingsInv
      <4>3. QED
        BY <2>1, <4>1, <4>2
    <3>2. ASSUME orderly', NEW v \in Clerks, NEW u \in Clerks,
                 clerk'[v] # NotBooking, clerk'[u] # NotBooking
          PROVE  u = v
      BY <2>1, <2>4, <3>2
    <3>3. QED
      BY <3>1, <3>2 DEF BookingsInv
  <2>6. QED
    BY <2>2, <2>3, <2>5 DEF LandedInv
<1>4. ASSUME NEW w \in Clerks, ReadCharges(w) PROVE LandedInv'
  <2> DEFINE x == [pc |-> "write", amount |-> clerk[w].amount, total |-> Visible(w)]
  <2>1. /\ clerk[w].pc = "read" /\ clerk' = [clerk EXCEPT ![w] = x]
        /\ UNCHANGED <<basis, charge, apportioned, orderly>>
    BY <1>4 DEF ReadCharges
  <2>2. clerk[w].amount \in Amounts /\ clerk[w] # NotBooking
    BY <1>t, <2>1, BookingLocals DEF NotBooking
  <2>3. Visible(w) = SumFunctionOnSet(charge, DOMAIN charge) + clerk[w].amount
    BY DEF Visible, SumFunction
  <2>4. Visible(w) \in Nat
    <3>1. charge \in Seq(Amounts)
      BY <1>t DEF LandedTypeOK
    <3>2. SumFunctionOnSet(charge, DOMAIN charge) \in Nat
      BY <3>1, ChargesAddUp
    <3>3. clerk[w].amount \in Nat
      BY <2>2, LandedBounds
    <3>4. QED
      BY <2>3, <3>2, <3>3
  <2>5. x \in [pc : {"write"}, amount : Amounts, total : Nat] /\ x # NotBooking
    BY <2>2, <2>4 DEF NotBooking
  <2>a. x.pc = "write" /\ x.total = Visible(w) /\ x.amount = clerk[w].amount
    OBVIOUS
  <2> HIDE DEF x
  <2>6. LandedTypeOK'
    BY <1>t, <2>1, <2>5 DEF LandedTypeOK
  <2>7. apportioned # <<>>
    BY <1>t, <2>2 DEF LinesInv
  <2>8. LinesInv'
    BY <2>1, <2>7, LinesKept
  <2>9. \A v \in Clerks : clerk'[v] = IF v = w THEN x ELSE clerk[v]
    BY <1>t, <2>1 DEF LandedTypeOK
  <2>10. BookingsInv'
    <3>1. ASSUME NEW v \in Clerks, clerk'[v].pc = "write"
          PROVE  \E S \in SUBSET DOMAIN charge :
                   /\ clerk'[v].total = SumFunctionOnSet(charge, S) + clerk'[v].amount
                   /\ orderly => S = DOMAIN charge
      <4>1. CASE v = w
        <5>1. DOMAIN charge \in SUBSET DOMAIN charge
          OBVIOUS
        <5>2. clerk'[v].total = SumFunctionOnSet(charge, DOMAIN charge)
                                + clerk'[v].amount
          BY <2>3, <2>9, <2>a, <4>1
        <5>3. QED
          BY <5>1, <5>2
      <4>2. CASE v # w
        <5>1. clerk'[v] = clerk[v]
          BY <2>9, <4>2
        <5>2. QED
          BY <1>t, <3>1, <5>1 DEF BookingsInv
      <4>3. QED
        BY <4>1, <4>2
    <3>2. \A v \in Clerks : clerk'[v] # NotBooking <=> clerk[v] # NotBooking
      BY <2>2, <2>5, <2>9
    <3>3. orderly => \A v, u \in Clerks :
            clerk'[v] # NotBooking /\ clerk'[u] # NotBooking => v = u
      BY <1>t, <3>2 DEF BookingsInv
    <3>4. QED
      BY <2>1, <3>1, <3>3 DEF BookingsInv
  <2>11. QED
    BY <2>6, <2>8, <2>10 DEF LandedInv
<1>5. ASSUME NEW w \in Clerks, CommitBooking(w) PROVE LandedInv'
  <2>1. /\ clerk[w].pc = "write" /\ clerk' = [clerk EXCEPT ![w] = NotBooking]
        /\ charge' = Append(charge, clerk[w].amount)
        /\ apportioned' = Apportion(clerk[w].total, basis)
        /\ basis' = basis /\ orderly' = orderly
    BY <1>5 DEF CommitBooking
  <2>2. /\ clerk[w].amount \in Amounts /\ clerk[w].total \in Nat
        /\ clerk[w] # NotBooking
    BY <1>t, <2>1, BookingLocals DEF NotBooking
  <2>3. charge \in Seq(Amounts) /\ basis \in Bases
    BY <1>t DEF LandedTypeOK
  <2>4. apportioned' \in [DOMAIN basis -> Nat] /\ apportioned' # <<>>
    BY <2>1, <2>2, <2>3, ApportionStands
  <2>5. charge' \in Seq(Amounts)
    BY <2>1, <2>2, <2>3
  <2>6. LandedTypeOK'
    BY <1>t, <2>1, <2>4, <2>5 DEF LandedTypeOK
  <2>7. \A v \in Clerks : clerk'[v] = IF v = w THEN NotBooking ELSE clerk[v]
    BY <1>t, <2>1 DEF LandedTypeOK
  <2>8. LinesInv'
    <3>1. PICK S \in SUBSET DOMAIN charge :
            /\ clerk[w].total = SumFunctionOnSet(charge, S) + clerk[w].amount
            /\ orderly => S = DOMAIN charge
      BY <1>t, <2>1 DEF BookingsInv
    <3>2. PICK T : T = S \cup {Len(charge) + 1}
      OBVIOUS
    <3>3. /\ T \in SUBSET DOMAIN charge' /\ Len(charge') \in T
          /\ S = DOMAIN charge => T = DOMAIN charge'
          /\ SumFunctionOnSet(charge', T) = clerk[w].total
      BY <2>1, <2>2, <2>3, <3>1, <3>2, ChargeAdds
    <3>4. QED
      BY <2>1, <2>4, <3>1, <3>3 DEF LinesInv
  <2>9. BookingsInv'
    <3>1. ASSUME NEW v \in Clerks, clerk'[v].pc = "write"
          PROVE  \E S \in SUBSET DOMAIN charge' :
                   /\ clerk'[v].total = SumFunctionOnSet(charge', S) + clerk'[v].amount
                   /\ orderly' => S = DOMAIN charge'
      <4>1. v # w /\ clerk'[v] = clerk[v]
        BY <2>7, <3>1 DEF NotBooking
      <4>2. PICK S \in SUBSET DOMAIN charge :
              /\ clerk[v].total = SumFunctionOnSet(charge, S) + clerk[v].amount
              /\ orderly => S = DOMAIN charge
        BY <1>t, <3>1, <4>1 DEF BookingsInv
      <4>3. ~orderly
        BY <1>t, <2>2, <3>1, <4>1 DEF BookingsInv, NotBooking
      <4>4. SumFunctionOnSet(charge', S) = SumFunctionOnSet(charge, S)
        <5>1. PICK a \in Amounts : a = clerk[w].amount
          BY <2>2
        <5>2. SumFunctionOnSet(Append(charge, a), S) = SumFunctionOnSet(charge, S)
          BY <2>3, ChargesStay
        <5>3. QED
          BY <2>1, <5>1, <5>2
      <4>5. S \in SUBSET DOMAIN charge'
        BY <2>1, <2>3
      <4>6. QED
        BY <2>1, <4>1, <4>2, <4>3, <4>4, <4>5
    <3>2. orderly' => \A v, u \in Clerks :
            clerk'[v] # NotBooking /\ clerk'[u] # NotBooking => v = u
      BY <1>t, <2>1, <2>7 DEF BookingsInv
    <3>3. QED
      BY <3>1, <3>2 DEF BookingsInv
  <2>10. QED
    BY <2>6, <2>8, <2>9 DEF LandedInv
<1>6. ASSUME NEW w \in Clerks, AbortBooking(w) PROVE LandedInv'
  <2>1. /\ clerk[w] # NotBooking /\ clerk' = [clerk EXCEPT ![w] = NotBooking]
        /\ UNCHANGED <<basis, charge, apportioned, orderly>>
    BY <1>6 DEF AbortBooking
  <2>2. LandedTypeOK'
    BY <1>t, <2>1 DEF LandedTypeOK
  <2>3. LinesInv'
    <3>1. apportioned # <<>>
      BY <1>t, <2>1 DEF LinesInv
    <3>2. QED
      BY <2>1, <3>1, LinesKept
  <2>4. \A v \in Clerks : clerk'[v] = IF v = w THEN NotBooking ELSE clerk[v]
    BY <1>t, <2>1 DEF LandedTypeOK
  <2>5. BookingsInv'
    <3>1. \A v \in Clerks : clerk'[v].pc = "write" => clerk'[v] = clerk[v]
      BY <2>4 DEF NotBooking
    <3>2. QED
      BY <1>t, <2>1, <2>4, <3>1 DEF BookingsInv
  <2>6. QED
    BY <2>2, <2>3, <2>5 DEF LandedInv
<1>7. CASE UNCHANGED lvars
  BY <1>t, <1>7 DEF LandedInv, LandedTypeOK, LinesInv, BookingsInv, lvars
<1>8. QED
  BY <1>1, <1>2, <1>3, <1>4, <1>5, <1>6, <1>7 DEF LandedNext

\* The lines of a receipt always bear the apportionment of one view of its
\* charges (recostReceipt).
THEOREM LandedInvariant == LandedSpec => []LandedInv
BY LandedStart, LandedStep, PTL DEF LandedSpec

\* Whatever the weights and the charges, and however bookings overlap, the lines
\* bear shares that are fair and that add up to charges that were booked, the
\* latest among them; while bookings run one after another, to all of them
\* (ApportionNgwee, recostReceipt).
THEOREM SharesStandHolds == LandedSpec => []SharesStand
<1>1. ASSUME LandedInv PROVE SharesStand
  <2>0. charge \in Seq(Amounts) /\ basis \in Bases /\ LinesInv
    BY <1>1 DEF LandedInv, LandedTypeOK
  <2>1. CASE apportioned = <<>>
    <3>1. charge = <<>> /\ DOMAIN apportioned = {}
      BY <2>0, <2>1 DEF LinesInv
    <3>2. SharesAreFair
      BY <3>1 DEF SharesAreFair
    <3>3. QED
      BY <2>1, <3>1, <3>2 DEF SharesStand, SharesOfOneView, SharesAddBack
  <2>2. CASE apportioned # <<>>
    <3>1. PICK S \in SUBSET DOMAIN charge :
            /\ apportioned = Apportion(SumFunctionOnSet(charge, S), basis)
            /\ charge # <<>> => Len(charge) \in S
            /\ orderly => S = DOMAIN charge
      BY <2>0, <2>2 DEF LinesInv
    <3>2. PICK t \in Nat : t = SumFunctionOnSet(charge, S)
      BY <2>0, ChargesAddUp
    <3>3. Spread = t
      BY <2>0, <3>1, <3>2, ApportionStands DEF Spread
    <3>4. Fair(apportioned, t, Effective(basis), SumFunction(Effective(basis)))
      BY <2>0, <3>1, <3>2, ApportionStands
    <3>5. SharesAreFair
      BY <3>3, <3>4 DEF SharesAreFair, Fair
    <3>6. SharesOfOneView
      BY <3>1, <3>2, <3>3 DEF SharesOfOneView
    <3>7. orderly => SharesAddBack
      BY <3>1, <3>2, <3>3 DEF SharesAddBack, SumFunction
    <3>8. QED
      BY <3>5, <3>6, <3>7 DEF SharesStand
  <2>3. QED
    BY <2>1, <2>2
<1>2. QED
  BY <1>1, LandedInvariant, PTL

-----------------------------------------------------------------------------
(* The shapes of rows and of locals *)

\* Tills, takings and the requests at the counter keep their shape, and a till is
\* closed exactly when its drawer has been counted (AdminOpenTill, AdminCloseTill).
THEOREM TillsTypesHold == TillsSpec => []TillsTypeOK
<1>1. ASSUME TillsInv PROVE TillsTypeOK
  <2>1. TillRows /\ \A r \in Tellers : TellerShape(teller[r])
    BY <1>1 DEF TillsInv
  <2>2. \A r \in Tellers : teller[r].pc \in {"close", "total", "sell"} =>
          teller[r].till \in DOMAIN tills
    BY <2>1 DEF TellerShape
  <2>3. QED
    BY <2>1, <2>2 DEF TillRows, Till, TillsTypeOK
<1>2. QED
  BY <1>1, TillsInvariant, PTL

\* An approval is there for a value the rule holds for.
GrantsCount == granted \in [1 .. MaxDeals -> SUBSET {v \in Values : v >= Threshold}]

\* The quote is new until it is converted; only approvals that the rule asks for
\* are given.
LEMMA NextGrants ==
  ASSUME DealsInv, GrantsCount, quote \in {"new", "converted"}, [DealsNext]_dvars
  PROVE  GrantsCount' /\ quote' \in {"new", "converted"}
<1>1. UNCHANGED granted => GrantsCount'
  BY DEF GrantsCount
<1>2. ASSUME NEW i \in DOMAIN deals, NEW a \in Values, Grant(i, a) PROVE GrantsCount'
  <2>1. i \in 1 .. MaxDeals
    BY DealIndices DEF DealsInv
  <2>2. a \in {v \in Values : v >= Threshold}
    BY <1>2 DEF Grant, Gated
  <2>3. QED
    BY <1>2, <2>1, <2>2 DEF Grant, GrantsCount
<1>3. ASSUME NEW s, NEW i \in DOMAIN deals, NEW c, NEW a, BeginEdit(s, i, c, a)
      PROVE  GrantsCount'
  <2>1. i \in 1 .. MaxDeals
    BY DealIndices DEF DealsInv
  <2>2. QED
    BY <1>3, <2>1 DEF BeginEdit, GrantsCount
<1>4. \/ UNCHANGED granted
      \/ \E i \in DOMAIN deals, a \in Values : Grant(i, a)
      \/ \E i \in DOMAIN deals : \E s, c, a : BeginEdit(s, i, c, a)
  <2>1. CASE UNCHANGED dvars
    BY <2>1 DEF dvars
  <2>2. ASSUME NEW p, NEW v, NEW l, CreateDeal(p, v, l) PROVE UNCHANGED granted
    BY <2>2 DEF CreateDeal
  <2>3. ASSUME NEW i, DeleteDeal(i) PROVE UNCHANGED granted
    BY <2>3 DEF DeleteDeal
  <2>4. ASSUME NEW s, \/ ConvertQuote(s) \/ MarkConverted(s) \/ WriteDeal(s)
                      \/ ClearLines(s) \/ AddLines(s) \/ DropEdit(s)
        PROVE  UNCHANGED granted
    BY <2>4 DEF ConvertQuote, MarkConverted, WriteDeal, ClearLines, AddLines, DropEdit
  <2>5. QED
    BY <2>1, <2>2, <2>3, <2>4 DEF DealsNext
<1>5. quote' = quote \/ quote' = "converted"
  BY DEF DealsNext, CreateDeal, DeleteDeal, Grant, BeginEdit, ConvertQuote,
     MarkConverted, WriteDeal, ClearLines, AddLines, DropEdit, dvars
<1>6. QED
  BY <1>1, <1>2, <1>3, <1>4, <1>5

\* Deals, approvals and edits keep their shape; no approval is given where the
\* rule asks for none, and no edit is of a deal that is not there
\* (AdminUpdateOpportunity).
THEOREM DealsTypesHold == DealsSpec => []DealsTypeOK
<1> DEFINE Q == quote \in {"new", "converted"}
<1>1. DealsInit => GrantsCount /\ Q
  BY DealBounds DEF DealsInit, GrantsCount
<1>2. DealsInv /\ GrantsCount /\ Q /\ [DealsNext]_dvars => GrantsCount' /\ Q'
  BY NextGrants
<1>3. ASSUME DealsInv, GrantsCount, Q PROVE DealsTypeOK
  <2>1. DealRows /\ \A s \in Sellers : EditShape(edit[s])
    BY <1>3 DEF DealsInv
  <2>2. \A s \in Sellers : edit[s].pc \in {"write", "clear", "add"} =>
          edit[s].of \in DOMAIN deals /\ edit[s].change \in Changes
    BY <2>1 DEF EditShape
  <2>3. QED
    BY <1>3, <2>1, <2>2 DEF DealRows, Deal, DealsTypeOK, GrantsCount
<1>4. QED
  BY <1>1, <1>2, <1>3, DealsInvariant, PTL DEF DealsSpec

\* A charge is apportioned over the lines of an order, and its bookings keep their
\* shape (apportionLandedCosts).
THEOREM LandedTypesHold == LandedSpec => []LandedTypeOK
<1>1. LandedInv => LandedTypeOK
  BY DEF LandedInv
<1>2. QED
  BY <1>1, LandedInvariant, PTL

\* An expense is valid whenever it is there, and payments are within their bounds
\* (AdminCreateExpense).
THEOREM PayablesTypesHold == PayablesSpec => []PayablesTypeOK
<1>1. PayablesInv => PayablesTypeOK
  BY DEF PayablesInv
<1>2. QED
  BY <1>1, PayablesInvariant, PTL

\* A record of a signature.
SignatureRow == [original : 0 .. MaxVersions, signed : 1 .. MaxVersions,
           originalHash : Files, signedHash : Files]

\* The tables keep their shape; no version has a number above its place.
ContractTables ==
  /\ contract \in Contract \cup {NoContract}
  /\ bytes \in Seq(Files) /\ Len(bytes) <= MaxUploads
  /\ versions \in Seq(Version) /\ Len(versions) <= MaxVersions
  /\ \A i \in DOMAIN versions : versions[i].number <= Len(versions)
  /\ evidence \in Seq(SignatureRow)
  /\ image \in {"never", "kept", "deleted"} /\ breaks \in 0 .. MaxBreaks

\* What a handler under way has been given, and has made of it.
DeskShape(t) ==
  /\ t.pc = "status" => t.status \in Statuses
  /\ t.pc \in Saving => t.file \in Files /\ t.original \in Files /\ t.of \in 0 .. MaxVersions
  /\ t.pc \in {"version", "point", "record", "mark"} => t.row \in Version
  /\ t.pc = "version" => t.row.number <= Len(versions) + 1
  /\ t.pc = "adopt" => t.hash \in Files

ShapeInv == ContractTables /\ \A d \in Desks : DeskShape(desk[d])

\* While no version has a number above its place, the next number is not above the
\* next place (nextDocumentVersion).
LEMMA NextVersionThere ==
  ASSUME ContractTables
  PROVE  NextVersion \in 1 .. Len(versions) + 1
<1> DEFINE n == Len(versions)
           Fits(k) == /\ \A i \in DOMAIN versions : versions[i].number < k
                      /\ k = 1 \/ \E i \in DOMAIN versions : versions[i].number = k - 1
           Taken == {k \in Nat : k = 0 \/ k > n + 1 \/
                       \E i \in DOMAIN versions : versions[i].number >= k}
<1>0. /\ n \in Nat /\ n <= MaxVersions /\ MaxVersions \in Nat
      /\ \A i \in DOMAIN versions : versions[i].number \in Nat /\ versions[i].number <= n
  <2>1. /\ versions \in Seq(Version) /\ n \in Nat /\ n <= MaxVersions /\ MaxVersions \in Nat
        /\ \A i \in DOMAIN versions : versions[i].number <= n
    BY ContractBounds DEF ContractTables
  <2>2. \A i \in DOMAIN versions : versions[i] \in Version
    BY <2>1
  <2>3. \A i \in DOMAIN versions : versions[i].number \in Nat
    BY <2>2 DEF Version
  <2>4. QED
    BY <2>1, <2>3
<1>1. \E k \in 1 .. n + 1 : Fits(k)
  <2> SUFFICES ASSUME \A k \in 1 .. n + 1 : ~Fits(k) PROVE FALSE
    OBVIOUS
  <2>1. 0 \in Taken
    OBVIOUS
  <2>2. ASSUME NEW k \in Nat, k \in Taken PROVE k + 1 \in Taken
    <3> SUFFICES ASSUME k + 1 <= n + 1,
                        ~\E i \in DOMAIN versions : versions[i].number >= k + 1
                 PROVE  FALSE
      BY <1>0, <2>2
    <3>1. \A i \in DOMAIN versions : versions[i].number < k + 1
      BY <1>0
    <3>2. k = 0 \/ \E i \in DOMAIN versions : versions[i].number >= k
      BY <1>0, <2>2
    <3>3. k + 1 = 1 \/ \E i \in DOMAIN versions : versions[i].number = (k + 1) - 1
      BY <1>0, <3>1, <3>2
    <3>4. k + 1 \in 1 .. n + 1
      BY <1>0
    <3>5. Fits(k + 1)
      BY <3>1, <3>3
    <3>6. QED
      BY <3>4, <3>5
  <2>3. Nat \subseteq Taken
    <3> HIDE DEF Taken
    <3> QED
      BY <2>1, <2>2, ReachesAll
  <2>4. n + 1 \in Taken
    BY <1>0, <2>3
  <2>5. QED
    BY <1>0, <2>4
<1>2. \E k \in 1 .. MaxVersions + 1 : Fits(k)
  BY <1>0, <1>1
<1>3. NextVersion = CHOOSE k \in 1 .. MaxVersions + 1 : Fits(k)
  BY DEF NextVersion
<1>4. NextVersion \in 1 .. MaxVersions + 1 /\ Fits(NextVersion)
  BY <1>2, <1>3
<1>5. QED
  BY <1>0, <1>4

\* A step of one desk that loses no version.
LEMMA DeskShapes ==
  ASSUME ContractsInv, ShapeInv, NEW d \in Desks, NEW t, Sits(d, t), ContractTables',
         DeskShape(t)', Len(versions) <= Len(versions')
  PROVE  ShapeInv'
<1>1. DOMAIN desk' = Desks /\ desk'[d] = t /\ \A x \in Desks \ {d} : desk'[x] = desk[x]
  BY DEF ContractsInv, Sits
<1>2. Len(versions) \in Nat /\ Len(versions') \in Nat
  BY DEF ShapeInv, ContractTables
<1>3. ASSUME NEW x \in Desks PROVE DeskShape(desk[x])'
  <2>1. CASE x = d
    BY <1>1, <2>1
  <2>2. CASE x # d
    <3>1. DeskShape(desk[x]) /\ desk'[x] = desk[x]
      BY <1>1, <2>2 DEF ShapeInv
    <3>2. ASSUME desk[x].pc = "version" PROVE desk[x].row.number <= Len(versions') + 1
      <4>1. desk[x].row \in Version /\ desk[x].row.number <= Len(versions) + 1
        BY <3>1, <3>2 DEF DeskShape
      <4>2. desk[x].row.number \in Nat
        BY <4>1 DEF Version
      <4>3. QED
        BY <1>2, <4>1, <4>2
    <3>3. QED
      BY <3>1, <3>2 DEF DeskShape
  <2>3. QED
    BY <2>1, <2>2
<1>4. QED
  BY <1>3 DEF ShapeInv

\* An UPDATE leaves the row one of contracts.
LEMMA WriteShape ==
  ASSUME ContractTables, NEW new \in Contract, Write(new), contract # NoContract,
         UNCHANGED <<bytes, versions, evidence, image, breaks>>
  PROVE  ContractTables'
BY DEF Write, ContractTables

\* Locals of no shape in particular.
LEMMA FreeShape == DeskShape(Free) /\ DeskShape(Free)'
BY DEF DeskShape, Free, Saving

LEMMA FileShapes ==
  /\ Missing \in Files
  /\ \A doc \in Docs : File(doc, 0) \in Files
  /\ \A f \in Files : f # Missing => [f EXCEPT !.stamps = @ + 1] \in Files
BY DEF Files, File

\* A row is added to the versions.
LEMMA VersionShape ==
  ASSUME ContractTables, NEW row \in Version, row.number <= Len(versions) + 1,
         Len(versions) < MaxVersions, versions' = Append(versions, row),
         breaks' \in 0 .. MaxBreaks, UNCHANGED <<contract, bytes, evidence, image>>
  PROVE  /\ ContractTables' /\ Len(versions') = Len(versions) + 1
         /\ Len(versions) <= Len(versions')
<1>1. /\ versions \in Seq(Version) /\ Len(versions) \in Nat /\ MaxVersions \in Nat
      /\ \A i \in DOMAIN versions : versions[i] \in Version /\ versions[i].number \in Nat
      /\ row.number \in Nat
  <2>1. versions \in Seq(Version) /\ MaxVersions \in Nat
    BY ContractBounds DEF ContractTables
  <2>2. Len(versions) \in Nat /\ \A i \in DOMAIN versions : versions[i] \in Version
    BY <2>1
  <2>3. \A v \in Version : v.number \in Nat
    BY DEF Version
  <2>4. QED
    BY <2>1, <2>2, <2>3
<1>2. versions' \in Seq(Version) /\ Len(versions') = Len(versions) + 1
  BY <1>1
<1>3. \A i \in DOMAIN versions' : versions'[i].number <= Len(versions) + 1
  <2> SUFFICES ASSUME NEW i \in DOMAIN versions'
               PROVE  versions'[i].number <= Len(versions) + 1
    OBVIOUS
  <2>1. i \in 1 .. Len(versions) + 1 /\ DOMAIN versions = 1 .. Len(versions)
    BY <1>1, <1>2
  <2>2. CASE i = Len(versions) + 1
    <3>1. versions'[i] = row
      BY <1>1, <2>2
    <3>2. QED
      BY <3>1
  <2>3. CASE i # Len(versions) + 1
    <3>1. i \in DOMAIN versions /\ versions'[i] = versions[i]
      BY <1>1, <2>1, <2>3
    <3>2. versions[i].number <= Len(versions)
      BY <3>1 DEF ContractTables
    <3>3. QED
      BY <1>1, <3>1, <3>2
  <2>4. QED
    BY <2>2, <2>3
<1>4. QED
  BY <1>1, <1>2, <1>3 DEF ContractTables

\* One step per action of boots and handlers.
LEMMA NextShapes == ContractsInv /\ ShapeInv /\ [ContractsNext]_cvars => ShapeInv'
<1> SUFFICES ASSUME ContractsInv, ShapeInv, [ContractsNext]_cvars PROVE ShapeInv'
  OBVIOUS
<1> USE ContractBounds
<1>0. /\ ContractTables /\ \A d \in Desks : DeskShape(desk[d]) /\ DeskKnows(desk[d])
      /\ \A d \in Desks : desk[d].pc # "free" => contract \in Contract /\ contract # NoContract
      /\ Len(versions) \in Nat /\ DOMAIN versions = 1 .. Len(versions)
      /\ Len(bytes) \in Nat /\ DOMAIN bytes = 1 .. Len(bytes)
      /\ \A k \in DOMAIN bytes : bytes[k] \in Files /\ k \in Nat
      /\ breaks \in 0 .. MaxBreaks
  BY DEF ContractsInv, ShapeInv, ContractTables, DeskKnows
<1>f. UNCHANGED breaks \/ Fails => breaks' \in 0 .. MaxBreaks
  BY <1>0 DEF Fails
<1>1. ASSUME NEW d \in Desks, NEW t, Sits(d, t), DeskShape(t)', breaks' \in 0 .. MaxBreaks,
             UNCHANGED <<contract, bytes, versions, evidence, image>>
      PROVE  ShapeInv'
  <2>1. ContractTables'
    BY <1>0, <1>1 DEF ContractTables
  <2>2. QED
    BY <1>0, <1>1, <2>1, DeskShapes
<1>2. ASSUME UNCHANGED desk, UNCHANGED versions, ContractTables' PROVE ShapeInv'
  BY <1>0, <1>2 DEF ShapeInv, DeskShape
<1>3. ASSUME NEW s \in Statuses, CreateContract(s) PROVE ShapeInv'
  <2>1. [status |-> s, live |-> TRUE, key |-> 0, hash |-> Missing, version |-> 0] \in Contract
    BY FileShapes DEF Contract
  <2>2. ContractTables'
    BY <1>0, <1>3, <2>1 DEF CreateContract, ContractTables
  <2>3. QED
    BY <1>2, <1>3, <2>2 DEF CreateContract
<1>4. CASE DeleteContract \/ DeleteImage
  <2>1. contract \in Contract \cup {NoContract}
    BY <1>0 DEF ContractTables
  <2>2. ContractTables'
    BY <1>0, <1>4, <2>1 DEF DeleteContract, DeleteImage, IsLive, Deleted, Contract, ContractTables
  <2>3. QED
    BY <1>2, <1>4, <2>2 DEF DeleteContract, DeleteImage
<1>5. ASSUME NEW d \in Desks, BeginBackfill(d) PROVE ShapeInv'
  <2> DEFINE t == [pc |-> "count", key |-> contract.key]
  <2>1. DeskShape(t)'
    BY DEF DeskShape, Saving
  <2>2. CASE Sits(d, t)
    BY <1>0, <1>1, <1>5, <2>1, <2>2 DEF BeginBackfill
  <2>3. CASE UNCHANGED desk
    <3>1. ContractTables'
      BY <1>0, <1>5 DEF BeginBackfill, ContractTables
    <3>2. QED
      BY <1>2, <1>5, <2>3, <3>1 DEF BeginBackfill
  <2>4. QED
    BY <1>5, <2>2, <2>3 DEF BeginBackfill
<1>6. ASSUME NEW d \in Desks, CountVersions(d) PROVE ShapeInv'
  <2>1. desk[d].pc = "count"
    BY <1>6 DEF CountVersions
  <2>2. PICK t : t = [desk[d] EXCEPT !.pc = "legacy"]
    OBVIOUS
  <2>3. t.pc = "legacy"
    BY <1>0, <2>1, <2>2 DEF DeskKnows, Booting
  <2>4. DeskShape(t)'
    BY <2>3 DEF DeskShape, Saving
  <2>5. Sits(d, t) \/ Sits(d, Free)
    BY <1>6, <2>2 DEF CountVersions
  <2>6. UNCHANGED <<contract, bytes, versions, evidence, image, breaks>>
    BY <1>6 DEF CountVersions
  <2>7. QED
    BY <1>0, <1>1, <2>4, <2>5, <2>6, FreeShape
<1>7. ASSUME NEW d \in Desks, RecordLegacy(d) PROVE ShapeInv'
  <2>1. PICK k : k = desk[d].key
    OBVIOUS
  <2>2. PICK h \in {bytes[k], Missing} :
          /\ IF h = bytes[k] THEN UNCHANGED breaks ELSE Fails
          /\ versions' = Append(versions, [number |-> 1, key |-> k, hash |-> h])
          /\ Sits(d, [pc |-> "adopt", key |-> k, hash |-> h])
    BY <1>7, <2>1 DEF RecordLegacy
  <2> DEFINE row == [number |-> 1, key |-> k, hash |-> h]
             t == [pc |-> "adopt", key |-> k, hash |-> h]
  <2>3. /\ desk[d].pc = "legacy" /\ versions' = Append(versions, row) /\ Sits(d, t)
        /\ Len(versions) < MaxVersions /\ breaks' \in 0 .. MaxBreaks
        /\ UNCHANGED <<contract, bytes, evidence, image>>
    BY <1>7, <1>f, <2>2 DEF RecordLegacy
  <2>4. k \in DOMAIN bytes /\ h \in Files
    BY <1>0, <2>1, <2>3, FileShapes DEF DeskKnows, Booting
  <2>5. row \in Version /\ row.number <= Len(versions) + 1
    BY <1>0, <2>4 DEF Version
  <2>6. DeskShape(t)'
    BY <2>4 DEF DeskShape, Saving
  <2> HIDE DEF row, t
  <2>7. ContractTables' /\ Len(versions) <= Len(versions')
    BY <1>0, <2>3, <2>5, VersionShape
  <2>8. QED
    BY <2>3, <2>6, <2>7, DeskShapes
<1>8. ASSUME NEW d \in Desks, NEW new \in Contract, NEW t, Write(new), desk[d].pc # "free",
             Sits(d, t), DeskShape(t)', UNCHANGED <<bytes, versions, evidence, image, breaks>>
      PROVE  ShapeInv'
  <2>1. ContractTables'
    BY <1>0, <1>8, WriteShape
  <2>2. Len(versions) <= Len(versions')
    BY <1>0, <1>8
  <2>3. QED
    BY <1>8, <2>1, <2>2, DeskShapes
<1>9. ASSUME NEW d \in Desks, AdoptLegacy(d) PROVE ShapeInv'
  <2>1. PICK h : h = desk[d].hash
    OBVIOUS
  <2> DEFINE new == [contract EXCEPT !.hash = h, !.version = 1]
  <2>2. /\ desk[d].pc = "adopt" /\ Write(new) /\ Sits(d, Free)
        /\ UNCHANGED <<bytes, versions, evidence, image, breaks>>
    BY <1>9, <2>1 DEF AdoptLegacy
  <2>3. contract \in Contract /\ h \in Files
    BY <1>0, <2>1, <2>2 DEF DeskShape
  <2>4. new \in Contract
    BY <2>3 DEF Contract
  <2> HIDE DEF new
  <2>5. QED
    BY <1>8, <2>2, <2>4, FreeShape
<1>10. ASSUME NEW d \in Desks, NEW s \in Statuses, BeginUpdate(d, s) PROVE ShapeInv'
  <2>1. DeskShape([pc |-> "status", status |-> s])'
    BY DEF DeskShape, Saving
  <2>2. QED
    BY <1>0, <1>1, <1>10, <2>1 DEF BeginUpdate, StartAt
<1>11. ASSUME NEW d \in Desks, WriteStatus(d) PROVE ShapeInv'
  <2>1. PICK s : s = desk[d].status
    OBVIOUS
  <2> DEFINE new == [contract EXCEPT !.status = s]
  <2>2. /\ desk[d].pc = "status" /\ Write(new) /\ Sits(d, Free)
        /\ UNCHANGED <<bytes, versions, evidence, image, breaks>>
    BY <1>11, <2>1 DEF WriteStatus
  <2>3. contract \in Contract /\ s \in Statuses
    BY <1>0, <2>1, <2>2 DEF DeskShape
  <2>4. new \in Contract
    BY <2>3 DEF Contract
  <2> HIDE DEF new
  <2>5. QED
    BY <1>8, <2>2, <2>4, FreeShape
<1>12. ASSUME NEW d \in Desks, NEW doc \in Docs, BeginUpload(d, doc) PROVE ShapeInv'
  <2>1. PICK t : t = Storing(File(doc, 0), Missing, FALSE)
    OBVIOUS
  <2>2. DeskShape(t)'
    BY <2>1, FileShapes DEF Storing, DeskShape
  <2>3. QED
    BY <1>0, <1>1, <1>12, <2>1, <2>2 DEF BeginUpload, StartAt
<1>13. ASSUME NEW d \in Desks, NEW again \in BOOLEAN, BeginSign(d, again) PROVE ShapeInv'
  <2>0. PICK f : f = bytes[contract.key]
    OBVIOUS
  <2>1. PICK g : g = [f EXCEPT !.stamps = @ + 1]
    OBVIOUS
  <2>2. PICK t : t = [Storing(g, f, again) EXCEPT !.pc = "newest"]
    OBVIOUS
  <2>3. /\ contract # NoContract /\ contract.key # 0 /\ f # Missing /\ Sits(d, t)
        /\ UNCHANGED <<contract, bytes, versions, evidence, image, breaks>>
    BY <1>13, <2>0, <2>1, <2>2 DEF BeginSign, StartAt, Signable, IsLive
  <2>4. contract.key \in DOMAIN bytes
    BY <2>3 DEF ContractsInv, ContractStands, ContractRows
  <2>5. f \in Files /\ g \in Files
    BY <1>0, <2>0, <2>1, <2>3, <2>4, FileShapes
  <2>6. t.pc = "newest" /\ t.file = g /\ t.original = f /\ t.of = 0
    BY <2>2 DEF Storing
  <2>7. DeskShape(t)'
    BY <2>5, <2>6 DEF DeskShape
  <2>8. QED
    BY <1>0, <1>1, <2>3, <2>7
<1>14. ASSUME NEW d \in Desks, FindNewest(d) PROVE ShapeInv'
  <2>1. PICK i \in 0 .. Len(versions) :
          /\ IF i = 0 /\ versions # <<>> THEN Fails ELSE UNCHANGED breaks
          /\ Sits(d, [desk[d] EXCEPT !.pc = "save", !.of = i])
    BY <1>14, Zenon DEF FindNewest
  <2>2. PICK t : t = [desk[d] EXCEPT !.pc = "save", !.of = i]
    OBVIOUS
  <2>3. /\ desk[d].pc = "newest"
        /\ UNCHANGED <<contract, bytes, versions, evidence, image>>
    BY <1>14, Zenon DEF FindNewest
  <2>4. DOMAIN desk[d] = StoringFields /\ desk[d].file \in Files /\ desk[d].original \in Files
    BY <1>0, <2>3 DEF DeskKnows, DeskShape, Saving
  <2>5. t.pc = "save" /\ t.file = desk[d].file /\ t.original = desk[d].original /\ t.of = i
    BY <2>2, <2>4 DEF StoringFields
  <2>6. i \in 0 .. MaxVersions
    BY <1>0, <2>1 DEF ContractTables
  <2>7. DeskShape(t)'
    BY <2>4, <2>5, <2>6 DEF DeskShape
  <2>8. QED
    BY <1>1, <1>f, <2>1, <2>2, <2>3, <2>7
<1>15. ASSUME NEW d \in Desks, SaveFile(d) PROVE ShapeInv'
  <2>0. PICK n \in {NextVersion, 1} :
          /\ IF n = NextVersion THEN UNCHANGED breaks ELSE Fails
          /\ Sits(d, [desk[d] EXCEPT !.pc = "version", !.row =
                       [number |-> n, key |-> Len(bytes'), hash |-> desk[d].file]])
    BY <1>15, Zenon DEF SaveFile
  <2>1. PICK t, row, file :
          /\ file = desk[d].file
          /\ row = [number |-> n, key |-> Len(bytes'), hash |-> file]
          /\ t = [desk[d] EXCEPT !.pc = "version", !.row = row] /\ Sits(d, t)
    BY <2>0, Zenon
  <2>2. /\ desk[d].pc = "save" /\ bytes' = Append(bytes, file)
        /\ Len(bytes) < MaxUploads /\ breaks' \in 0 .. MaxBreaks
        /\ UNCHANGED <<contract, versions, evidence, image>>
    <3>1. /\ desk[d].pc = "save" /\ bytes' = Append(bytes, desk[d].file)
          /\ Len(bytes) < MaxUploads /\ UNCHANGED <<contract, versions, evidence, image>>
      BY <1>15, Zenon DEF SaveFile
    <3>2. QED
      BY <1>f, <2>0, <2>1, <3>1
  <2>3. /\ DOMAIN desk[d] = StoringFields /\ file \in Files /\ desk[d].original \in Files
        /\ desk[d].of \in 0 .. MaxVersions
    BY <1>0, <2>1, <2>2 DEF DeskKnows, DeskShape, Saving
  <2>4. /\ t.pc = "version" /\ t.row = row /\ t.file = file
        /\ t.original = desk[d].original /\ t.of = desk[d].of
    BY <2>1, <2>3 DEF StoringFields
  <2>5. n \in 1 .. Len(versions) + 1
    BY <1>0, <2>0, NextVersionThere
  <2>6. bytes' \in Seq(Files) /\ Len(bytes') = Len(bytes) + 1
    BY <1>0, <2>2, <2>3 DEF ContractTables
  <2>7. ContractTables'
    BY <1>0, <2>2, <2>6 DEF ContractTables
  <2>8. row \in Version /\ row.number = n
    BY <1>0, <2>1, <2>3, <2>5, <2>6 DEF Version
  <2>9. row.number <= Len(versions) + 1 /\ Len(versions) <= Len(versions')
    BY <1>0, <2>2, <2>5, <2>8
  <2>10. DeskShape(t)'
    BY <2>2, <2>3, <2>4, <2>8, <2>9 DEF DeskShape
  <2>11. QED
    BY <2>1, <2>7, <2>9, <2>10, DeskShapes
<1>16. ASSUME NEW d \in Desks, StoreVersion(d) PROVE ShapeInv'
  <2>1. PICK next, row :
          next = (IF Signing(desk[d]) THEN "record" ELSE "point") /\ row = desk[d].row
    OBVIOUS
  <2>2. PICK t : t = [desk[d] EXCEPT !.at = Len(versions) + 1, !.pc = next]
    OBVIOUS
  <2>3. /\ desk[d].pc = "version" /\ versions' = Append(versions, row) /\ Sits(d, t)
        /\ Len(versions) < MaxVersions
        /\ UNCHANGED <<contract, bytes, evidence, image, breaks>>
    BY <1>16, <2>1, <2>2 DEF StoreVersion
  <2>4. /\ DOMAIN desk[d] = StoringFields /\ row \in Version
        /\ row.number <= Len(versions) + 1
        /\ desk[d].file \in Files /\ desk[d].original \in Files
        /\ desk[d].of \in 0 .. MaxVersions
    BY <1>0, <2>1, <2>3 DEF DeskKnows, DeskShape, Saving
  <2>5. /\ t.pc = next /\ t.row = row /\ t.file = desk[d].file
        /\ t.original = desk[d].original /\ t.of = desk[d].of
    <3>1. DOMAIN desk[d] = StoringFields
      BY <2>4
    <3>2. t.pc = next /\ t.row = desk[d].row /\ t.file = desk[d].file
      BY <2>2, <3>1 DEF StoringFields
    <3>3. t.original = desk[d].original /\ t.of = desk[d].of
      BY <2>2, <3>1 DEF StoringFields
    <3>4. QED
      BY <2>1, <3>2, <3>3
  <2>6. next \in {"record", "point"}
    BY <2>1
  <2>7. ContractTables' /\ Len(versions) <= Len(versions')
    BY <1>0, <2>3, <2>4, VersionShape
  <2>8. DeskShape(t)'
    BY <2>4, <2>5, <2>6 DEF DeskShape
  <2>9. QED
    BY <2>3, <2>7, <2>8, DeskShapes
<1>17. ASSUME NEW d \in Desks, NEW row \in Version, contract \in Contract
       PROVE  /\ Pointing(row) \in Contract
              /\ [Pointing(row) EXCEPT !.status = "signed"] \in Contract
  BY <1>17 DEF Pointing, Contract, Version
<1>18. ASSUME NEW d \in Desks, MovePointer(d) PROVE ShapeInv'
  <2>1. PICK row : row = desk[d].row
    OBVIOUS
  <2>2. /\ desk[d].pc = "point" /\ Write(Pointing(row)) /\ Sits(d, Free)
        /\ UNCHANGED <<bytes, versions, evidence, image, breaks>>
    BY <1>18, <2>1 DEF MovePointer
  <2>3. contract \in Contract /\ row \in Version
    BY <1>0, <2>1, <2>2 DEF DeskShape
  <2>4. QED
    BY <1>8, <1>17, <2>2, <2>3, FreeShape
<1>19. ASSUME NEW d \in Desks, RecordSignature(d) PROVE ShapeInv'
  <2>1. PICK t, r : /\ t = [desk[d] EXCEPT !.pc = "mark"]
                    /\ r = [original |-> desk[d].of, signed |-> desk[d].at,
                            originalHash |-> desk[d].original, signedHash |-> desk[d].file]
    OBVIOUS
  <2>2. /\ desk[d].pc = "record" /\ evidence' = Append(evidence, r) /\ Sits(d, t)
        /\ UNCHANGED <<contract, bytes, versions, image, breaks>>
    BY <1>19, <2>1 DEF RecordSignature
  <2>3. /\ DOMAIN desk[d] = StoringFields /\ desk[d].file \in Files
        /\ desk[d].original \in Files /\ desk[d].of \in 0 .. MaxVersions
        /\ desk[d].row \in Version /\ desk[d].at \in DOMAIN versions
    BY <1>0, <2>2 DEF DeskKnows, DeskShape, Saving
  <2>4. desk[d].at \in 1 .. MaxVersions
    BY <1>0, <2>3 DEF ContractTables
  <2>5. r \in SignatureRow
    BY <2>1, <2>3, <2>4 DEF SignatureRow
  <2>6. evidence' \in Seq(SignatureRow)
    BY <1>0, <2>2, <2>5 DEF ContractTables
  <2>7. ContractTables'
    BY <1>0, <2>2, <2>6 DEF ContractTables
  <2>8. /\ t.pc = "mark" /\ t.row = desk[d].row /\ t.file = desk[d].file
        /\ t.original = desk[d].original /\ t.of = desk[d].of
    BY <2>1, <2>3 DEF StoringFields
  <2>9. DeskShape(t)'
    BY <2>3, <2>8 DEF DeskShape
  <2>10. Len(versions) <= Len(versions')
    BY <1>0, <2>2
  <2>11. QED
    BY <2>2, <2>7, <2>9, <2>10, DeskShapes
<1>20. ASSUME NEW d \in Desks, MarkSigned(d) PROVE ShapeInv'
  <2>1. PICK row, t :
          /\ row = desk[d].row
          /\ t = IF desk[d].again THEN [desk[d] EXCEPT !.pc = "forget"] ELSE Free
    OBVIOUS
  <2>2. /\ desk[d].pc = "mark" /\ Write([Pointing(row) EXCEPT !.status = "signed"])
        /\ Sits(d, t) /\ UNCHANGED <<bytes, versions, evidence, image, breaks>>
    BY <1>20, <2>1 DEF MarkSigned
  <2>3. contract \in Contract /\ row \in Version /\ DOMAIN desk[d] = StoringFields
    BY <1>0, <2>1, <2>2 DEF DeskShape, DeskKnows, Saving
  <2>4. t = Free \/ t.pc = "forget"
    BY <2>1, <2>3 DEF StoringFields
  <2>5. DeskShape(t)'
    BY <2>4, FreeShape DEF DeskShape, Saving
  <2>6. QED
    BY <1>8, <1>17, <2>2, <2>3, <2>5
<1>21. ASSUME NEW d \in Desks, ForgetImage(d) \/ KeepImage(d) \/ Break(d) PROVE ShapeInv'
  <2>1. PICK t : t = [desk[d] EXCEPT !.pc = "image"]
    OBVIOUS
  <2>2. DeskShape(t)' \/ t = desk[d]
    BY <2>1 DEF DeskShape, Saving
  <2>3. ContractTables'
    <3>1. CASE ForgetImage(d) \/ KeepImage(d)
      <4>1. breaks' \in 0 .. MaxBreaks
        BY <1>f, <3>1 DEF ForgetImage, KeepImage
      <4>2. QED
        BY <1>0, <3>1, <4>1 DEF ForgetImage, KeepImage, Deleted, ContractTables
    <3>2. CASE Break(d)
      <4>1. breaks' \in 0 .. MaxBreaks
        BY <1>0, <3>2 DEF Break, ContractTables
      <4>2. QED
        BY <1>0, <3>2, <4>1 DEF Break, ContractTables
    <3>3. QED
      BY <1>21, <3>1, <3>2
  <2>4. UNCHANGED versions /\ (Sits(d, t) \/ Sits(d, Free))
    BY <1>21, <2>1 DEF ForgetImage, KeepImage, Break
  <2>5. t = desk[d] => DeskShape(t)'
    BY <1>0, <2>4 DEF DeskShape
  <2>6. Len(versions) <= Len(versions')
    BY <1>0, <2>4
  <2>7. QED
    BY <2>2, <2>3, <2>4, <2>5, <2>6, FreeShape, DeskShapes
<1>b. ASSUME NEW d \in Desks, BackfillFails(d) PROVE ShapeInv'
  <2>1. breaks' \in 0 .. MaxBreaks
    BY <1>b, <1>f DEF BackfillFails
  <2>2. QED
    BY <1>1, <1>b, <2>1, FreeShape DEF BackfillFails
<1>22. ASSUME UNCHANGED cvars PROVE ShapeInv'
  BY <1>0, <1>22, <1>2 DEF cvars, ContractTables
<1>23. QED
  BY <1>3, <1>4, <1>5, <1>6, <1>7, <1>9, <1>10, <1>11, <1>12, <1>13, <1>14, <1>15, <1>16,
     <1>18, <1>19, <1>20, <1>21, <1>b, <1>22 DEF ContractsNext

\* The contract, its files, versions and records keep their shape, no version has a
\* number above its place, and a handler that has stored a version knows which
\* (UploadContractFile, AdminSignContract).
THEOREM ContractsTypesHold == ContractsSpec => []ContractsTypeOK
<1>1. ContractsInit => ShapeInv
  <2> SUFFICES ASSUME ContractsInit PROVE ShapeInv
    OBVIOUS
  <2>1. \A d \in Desks : DeskShape(desk[d])
    BY FreeShape DEF ContractsInit
  <2>a. \/ contract = NoContract /\ bytes = <<>>
        \/ \E s \in Statuses, f \in {Missing} \cup {File(doc, 0) : doc \in Docs}, k \in {0, 1} :
             /\ contract = [status |-> s, live |-> TRUE, key |-> k, hash |-> Missing,
                            version |-> 0]
             /\ bytes = IF k = 1 THEN <<f>> ELSE <<>>
    BY DEF ContractsInit
  <2>2. contract \in Contract \cup {NoContract}
    <3>1. \A s \in Statuses, k \in {0, 1} :
            [status |-> s, live |-> TRUE, key |-> k, hash |-> Missing, version |-> 0] \in Contract
      BY FileShapes DEF Contract
    <3>2. QED
      BY <2>a, <3>1
  <2>3. bytes \in Seq(Files) /\ Len(bytes) <= MaxUploads
    <3>1. {Missing} \cup {File(doc, 0) : doc \in Docs} \subseteq Files
      BY FileShapes
    <3>2. bytes = <<>> \/ \E f \in Files : bytes = <<f>>
      BY <2>a, <3>1
    <3>3. ASSUME NEW f \in Files PROVE <<f>> \in Seq(Files) /\ Len(<<f>>) = 1
      OBVIOUS
    <3>4. MaxUploads \in Nat \ {0}
      BY ContractBounds
    <3>5. <<>> \in Seq(Files) /\ Len(<<>>) <= MaxUploads
      BY <3>4
    <3>6. 1 <= MaxUploads
      BY <3>4
    <3>7. ASSUME NEW f \in Files, bytes = <<f>> PROVE bytes \in Seq(Files) /\ Len(bytes) <= MaxUploads
      BY <3>3, <3>6, <3>7
    <3>8. QED
      BY <3>2, <3>5, <3>7
  <2>4. QED
    BY <2>1, <2>2, <2>3, ContractBounds DEF ContractsInit, ContractTables, ShapeInv
<1>2. ContractsInv /\ ShapeInv /\ [ContractsNext]_cvars => ShapeInv'
  BY NextShapes
<1>3. ASSUME ContractsInv, ShapeInv PROVE ContractsTypeOK
  <2>1. \A d \in Desks : DeskShape(desk[d]) /\ DeskKnows(desk[d])
    BY <1>3 DEF ContractsInv, ShapeInv
  <2>2. \A d \in Desks :
          /\ desk[d].pc = "version" => desk[d].row \in Version
          /\ desk[d].pc \in {"point", "record", "mark"} =>
               desk[d].at \in DOMAIN versions /\ versions[desk[d].at] = desk[d].row
    BY <2>1 DEF DeskShape, DeskKnows
  <2>3. QED
    BY <1>3, <2>2 DEF ShapeInv, ContractTables, ContractsTypeOK, SignatureRow
<1>4. QED
  BY <1>1, <1>2, <1>3, ContractsInvariant, PTL DEF ContractsSpec
==============================================================================
