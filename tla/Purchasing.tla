----------------------------- MODULE Purchasing -----------------------------
(***************************************************************************)
(* Purchase orders: drafting, editing, issuing through the approvals gate, *)
(* cancelling and receiving goods (src/internal/handlers/purchasing.go).   *)
(*                                                                         *)
(* A handler reads the order, its lines and what has been received in      *)
(* separate statements and writes later.  A receipt is one transaction: it *)
(* holds the row lock of every product it has moved, sees its own rows,    *)
(* and publishes everything when it commits.  Lines are replaced wholesale *)
(* by an edit, so a line is known by the draft it belongs to.              *)
(***************************************************************************)
EXTENDS Integers, Sequences, SequencesExt

CONSTANTS
  Orders,      \* purchase orders
  Products,    \* the catalogue
  NoProduct,   \* stands for the product of a line that has none
  Lists,       \* Lists[o]: lines a clerk may give o, and their worth in kwacha
  Deliveries,  \* the lines of a receipt request
  Floor,       \* min_amount of the approval rule in force for issuing
  Workers,     \* slots for handlers running at once
  MaxLines,    \* bound: lines of one order
  MaxDrafts,   \* bound: versions of one order's lines
  MaxAsks,     \* bound: live approval requests for one order
  MaxFaults    \* bound: failing statements and dying replicas

List == [lines : Seq([product : Products \cup {NoProduct}, quantity : Nat \ {0}]),
         worth : Nat]
Delivery == Seq([line : Nat \ {0}, quantity : Nat \ {0}])

ASSUME PurchasingBounds ==
  /\ IsFiniteSet(Orders)
  /\ NoProduct \notin Products
  /\ Lists \in [Orders -> SUBSET List]
  /\ \A o \in Orders : \A l \in Lists[o] :
       l.lines # <<>> /\ Len(l.lines) <= MaxLines
  /\ Deliveries \subseteq Delivery /\ <<>> \notin Deliveries
  /\ Floor \in Nat
  /\ MaxLines \in Nat /\ MaxDrafts \in Nat \ {0}
  /\ MaxAsks \in Nat /\ MaxFaults \in Nat

VARIABLES
  order,    \* order[o]: purchase_orders row; number 0 is the empty string
  drafts,   \* drafts[o]: the order's lines, the last is what is stored; the
            \* earlier ones are history, their rows are gone
  got,      \* got[o][d][k]: units receipted against line k of draft d
  shelf,    \* shelf[p]: SUM(quantity) of the receipt movements of p
  product,  \* product[p]: live or soft-deleted
  asks,     \* asks[o]: live approval requests to issue o, oldest first
  spent,    \* spent[o]: amounts of the approvals spent on o, a history
  worker,   \* worker[w]: locals of a handler
  serial,   \* history: no two handlers have run at once so far
  faults

pvars == <<order, drafts, got, shelf, product, asks, spent, worker, serial, faults>>
goods == <<got, shelf, product>>
consent == <<asks, spent>>

DraftId == 1 .. MaxDrafts
LineNo == 1 .. MaxLines

\* Mutant of Receivable: a state too many.
ReceivableEarly == {"approved", "draft", "issued", "partly_received"}

Editable == {"draft", "rejected"}
Issuable == {"draft", "pending_approval", "approved"}
Receivable == {"issued", "partly_received"}
Statuses == Issuable \cup Receivable \cup {"rejected", "received", "cancelled"}
Ask == [status : {"pending", "approved", "rejected"}, amount : Nat]

\* What an open receipt has written and nobody else sees yet.
Receipt == [order : Orders, draft : DraftId, delivery : Deliveries,
            moved : [Products -> Nat]]

Worker ==
  [pc : {"edit"}, order : Orders, list : List]
  \cup [pc : {"cancel"}, order : Orders]
  \cup [pc : {"value"}, order : Orders, status : Issuable, number : Nat]
  \cup [pc : {"gate", "number", "issue"}, order : Orders, status : Issuable,
        number : Nat, amount : Nat]
  \cup [pc : {"mark"}, order : Orders, status : Statuses]
  \cup [pc : {"lines"}, order : Orders]
  \cup [pc : {"outstanding"}, order : Orders, draft : DraftId]
  \cup [pc : {"post"}, own : Receipt, next : Nat \ {0}]
  \cup [pc : {"reread"}, own : Receipt, was : Statuses]
  \cup [pc : {"recount"}, own : Receipt, was : Statuses, now : DraftId]
  \cup [pc : {"commit"}, own : Receipt, was : Statuses, status : Statuses]
Free == [pc |-> "free"]

TypeOK ==
  /\ order \in [Orders -> [status : Statuses \cup {"none"}, number : Nat]]
  /\ drafts \in [Orders -> Seq(List)]
  /\ got \in [Orders -> [DraftId -> [LineNo -> Nat]]]
  /\ shelf \in [Products -> Nat]
  /\ product \in [Products -> {"live", "deleted"}]
  /\ asks \in [Orders -> Seq(Ask)]
  /\ spent \in [Orders -> SUBSET Nat]
  /\ worker \in [Workers -> Worker \cup {Free}]
  /\ serial \in BOOLEAN
  /\ faults \in 0 .. MaxFaults

Init ==
  /\ order = [o \in Orders |-> [status |-> "none", number |-> 0]]
  /\ drafts = [o \in Orders |-> <<>>]
  /\ got = [o \in Orders |-> [d \in DraftId |-> [k \in LineNo |-> 0]]]
  /\ shelf = [p \in Products |-> 0]
  /\ product = [p \in Products |-> "live"]
  /\ asks = [o \in Orders |-> <<>>]
  /\ spent = [o \in Orders |-> {}]
  /\ worker = [w \in Workers |-> Free]
  /\ serial = TRUE
  /\ faults = 0

-----------------------------------------------------------------------------
Go(w, next) == worker' = [worker EXCEPT ![w] = next]

\* A request comes in and its handler starts.
Start(w, next) ==
  /\ worker[w] = Free
  /\ Go(w, next)
  /\ serial' = (serial /\ \A o \in Workers : worker[o] = Free)

Exists(o) == order[o].status # "none"
Stored(o) == Last(drafts[o])
Received(o, d, k) == got[o][d][k]
AnyReceived(o) == \E d \in DraftId, k \in LineNo : Received(o, d, k) > 0

\* What a request brings in against line k; it may name a line twice.
Brought(delivery, k) ==
  SumFunction([j \in DOMAIN delivery |->
                 IF delivery[j].line = k THEN delivery[j].quantity ELSE 0])

-----------------------------------------------------------------------------
(* Drafting *)

\* AdminCreatePurchaseOrder.
Create(o, l) ==
  /\ ~Exists(o)
  /\ order' = [order EXCEPT ![o].status = "draft"]
  /\ drafts' = [drafts EXCEPT ![o] = <<l>>]
  /\ UNCHANGED <<goods, consent, worker, serial, faults>>

\* AdminUpdatePurchaseOrder up to its transaction.
BeginEdit(w, o, l) ==
  /\ order[o].status \in Editable /\ Len(drafts[o]) < MaxDrafts
  /\ Start(w, [pc |-> "edit", order |-> o, list |-> l])
  /\ UNCHANGED <<order, drafts, goods, consent, faults>>

\* The transaction does not ask for the status again.
Edit(w) ==
  LET t == worker[w] IN
  /\ t.pc = "edit"
  /\ Len(drafts[t.order]) < MaxDrafts
  /\ order' = [order EXCEPT ![t.order].status = "draft"]
  /\ drafts' = [drafts EXCEPT ![t.order] = Append(@, t.list)]
  /\ Go(w, Free)
  /\ UNCHANGED <<goods, consent, serial, faults>>

-----------------------------------------------------------------------------
(* Issuing *)

\* AdminIssuePurchaseOrder: the row, and then its lines, as read.
BeginIssue(w, o) ==
  /\ order[o].status \in Issuable
  /\ Start(w, [pc |-> "value", order |-> o, status |-> order[o].status,
               number |-> order[o].number])
  /\ UNCHANGED <<order, drafts, goods, consent, faults>>

Value(w) ==
  LET t == worker[w] IN
  /\ t.pc = "value"
  /\ Go(w, [pc |-> "gate", order |-> t.order, status |-> t.status,
            number |-> t.number, amount |-> Stored(t.order).worth])
  /\ UNCHANGED <<order, drafts, goods, consent, serial, faults>>

\* Past the gate; an order that has its number keeps it.
Pass(w) ==
  Go(w, [worker[w] EXCEPT !.pc = IF @ = "gate" /\ worker[w].number = 0
                                 THEN "number" ELSE "issue"])

\* Stopped by a request in this state, which the order is made to reflect.
Blocked(w, status) ==
  LET t == worker[w] IN
  Go(w, IF status = "rejected"
        THEN [pc |-> "mark", order |-> t.order, status |-> "rejected"]
        ELSE IF t.status = "draft"
        THEN [pc |-> "mark", order |-> t.order, status |-> "pending_approval"]
        ELSE Free)

Newest(o) ==
  IF asks[o] = <<>> THEN [status |-> "none", amount |-> 0] ELSE Last(asks[o])

Raised(o, amount) ==
  /\ Len(asks[o]) < MaxAsks
  /\ asks' = [asks EXCEPT ![o] =
       Append(@, [status |-> "pending", amount |-> amount])]

\* Mutant of Covers: an approval of any amount will do.
CoversAnything(ask, amount) == ask.status = "approved"

Covers(ask, amount) == ask.status = "approved" /\ ask.amount >= amount

\* The gate, for one requester, as MakerChecker promises it: the newest live
\* request decides, an approval large enough is spent, else one is raised.
Gate(w) ==
  LET t == worker[w]
      q == Newest(t.order)
  IN
  /\ t.pc = "gate"
  /\ \/ /\ t.amount < Floor
        /\ Pass(w)
        /\ UNCHANGED consent
     \/ /\ t.amount >= Floor /\ Covers(q, t.amount)
        /\ asks' = [asks EXCEPT ![t.order] = Front(@)]
        /\ spent' = [spent EXCEPT ![t.order] = @ \cup {q.amount}]
        /\ Pass(w)
     \/ /\ t.amount >= Floor /\ q.status \in {"pending", "rejected"}
        /\ Blocked(w, q.status)
        /\ UNCHANGED consent
     \/ /\ t.amount >= Floor
        /\ q.status \in {"none", "approved"} /\ ~Covers(q, t.amount)
        /\ Raised(t.order, t.amount)
        /\ Blocked(w, "pending")
        /\ UNCHANGED spent
  /\ UNCHANGED <<order, drafts, goods, serial, faults>>

\* An UPDATE by id, on the status that was read.
Mark(w) ==
  LET t == worker[w] IN
  /\ t.pc = "mark"
  /\ order' = [order EXCEPT ![t.order].status = t.status]
  /\ Go(w, Free)
  /\ UNCHANGED <<drafts, goods, consent, serial, faults>>

Numbered == {o \in Orders : order[o].number # 0}

\* nextPurchaseOrderNumber: a COUNT of the orders that have one.
NextNumber == 1 + Cardinality(Numbered)

Number(w) ==
  LET t == worker[w] IN
  /\ t.pc = "number"
  /\ Go(w, [t EXCEPT !.pc = "issue", !.number = NextNumber])
  /\ UNCHANGED <<order, drafts, goods, consent, serial, faults>>

Issue(w) ==
  LET t == worker[w] IN
  /\ t.pc = "issue"
  /\ order' = [order EXCEPT ![t.order] =
                 [status |-> "issued", number |-> t.number]]
  /\ Go(w, Free)
  /\ UNCHANGED <<drafts, goods, consent, serial, faults>>

\* The approver decides the open request; the requester resubmits a refused
\* one, for the amount it was refused for.
Decide(o, verdict) ==
  /\ Newest(o).status = "pending"
  /\ asks' = [asks EXCEPT ![o][Len(asks[o])].status = verdict]
  /\ UNCHANGED <<order, drafts, goods, spent, worker, serial, faults>>

Resubmit(o) ==
  /\ Newest(o).status # "pending"
  /\ \E i \in DOMAIN asks[o] :
       asks[o][i].status = "rejected" /\ Raised(o, asks[o][i].amount)
  /\ UNCHANGED <<order, drafts, goods, spent, worker, serial, faults>>

-----------------------------------------------------------------------------
(* Cancelling *)

\* AdminCancelPurchaseOrder: whatever its status, if nothing was received.
BeginCancel(w, o) ==
  /\ Exists(o) /\ ~AnyReceived(o)
  /\ Start(w, [pc |-> "cancel", order |-> o])
  /\ UNCHANGED <<order, drafts, goods, consent, faults>>

Cancel(w) ==
  LET t == worker[w] IN
  /\ t.pc = "cancel"
  /\ order' = [order EXCEPT ![t.order].status = "cancelled"]
  /\ Go(w, Free)
  /\ UNCHANGED <<drafts, goods, consent, serial, faults>>

-----------------------------------------------------------------------------
(* Receiving *)

\* Mutant of BeginReceive: an order nobody has raised is taken as well.
BeginReceiveAny(w, o) ==
  /\ Start(w, [pc |-> "lines", order |-> o])
  /\ UNCHANGED <<order, drafts, goods, consent, faults>>

\* AdminReceiveGoods: the row, its lines, and what has been received.
BeginReceive(w, o) ==
  /\ order[o].status \in Receivable
  /\ Start(w, [pc |-> "lines", order |-> o])
  /\ UNCHANGED <<order, drafts, goods, consent, faults>>

ReadLines(w) ==
  LET t == worker[w] IN
  /\ t.pc = "lines"
  /\ Go(w, [pc |-> "outstanding", order |-> t.order,
            draft |-> Len(drafts[t.order])])
  /\ UNCHANGED <<order, drafts, goods, consent, serial, faults>>

\* Each line of the request is held against the outstanding quantity alone.
Fits(o, d, delivery) ==
  LET lines == drafts[o][d].lines IN
  \A j \in DOMAIN delivery :
    LET l == delivery[j] IN
    /\ l.line \in DOMAIN lines
    /\ l.quantity <= lines[l.line].quantity - Received(o, d, l.line)

CheckOutstanding(w, delivery) ==
  LET t == worker[w] IN
  /\ t.pc = "outstanding"
  /\ Go(w, IF Fits(t.order, t.draft, delivery)
           THEN [pc |-> "post", next |-> 1, own |->
                  [order |-> t.order, draft |-> t.draft, delivery |-> delivery,
                   moved |-> [p \in Products |-> 0]]]
           ELSE Free)
  /\ UNCHANGED <<order, drafts, goods, consent, serial, faults>>

LineOf(r, j) == drafts[r.order][r.draft].lines[r.delivery[j].line]
InReceipt(w) == worker[w].pc \in {"post", "reread", "recount", "commit"}

\* An open receipt holds the row lock of every product it has moved.
Locked(w, p) == InReceipt(w) /\ worker[w].own.moved[p] > 0

\* Mutant of PostLine: a product that is not found is passed over.
PostLineSkipping(w) ==
  LET t == worker[w]
      p == LineOf(t.own, t.next).product
      n == t.own.delivery[t.next].quantity
  IN
  /\ t.pc = "post" /\ t.next <= Len(t.own.delivery)
  /\ \/ p = NoProduct /\ Go(w, [t EXCEPT !.next = @ + 1])
     \/ /\ p # NoProduct
        /\ \A o \in Workers \ {w} : ~Locked(o, p)
        /\ Go(w, IF product[p] = "live"
                 THEN [t EXCEPT !.next = @ + 1, !.own.moved[p] = @ + n]
                 ELSE [t EXCEPT !.next = @ + 1])
  /\ UNCHANGED <<order, drafts, goods, consent, serial, faults>>

\* apportionAndPost: a line without a product moves no stock; a product that
\* is not found rolls the receipt back.
PostLine(w) ==
  LET t == worker[w]
      p == LineOf(t.own, t.next).product
      n == t.own.delivery[t.next].quantity
  IN
  /\ t.pc = "post" /\ t.next <= Len(t.own.delivery)
  /\ \/ p = NoProduct /\ Go(w, [t EXCEPT !.next = @ + 1])
     \/ /\ p # NoProduct
        /\ \A o \in Workers \ {w} : ~Locked(o, p)
        /\ Go(w, IF product[p] = "live"
                 THEN [t EXCEPT !.next = @ + 1, !.own.moved[p] = @ + n]
                 ELSE Free)
  /\ UNCHANGED <<order, drafts, goods, consent, serial, faults>>

\* refreshPurchaseOrderStatus: the row, its lines, and the totals, in which
\* the transaction sees its own receipt.
Reload(w) ==
  LET t == worker[w] IN
  /\ t.pc = "post" /\ t.next > Len(t.own.delivery)
  /\ Go(w, [pc |-> "reread", own |-> t.own, was |-> order[t.own.order].status])
  /\ UNCHANGED <<order, drafts, goods, consent, serial, faults>>

Reread(w) ==
  LET t == worker[w] IN
  /\ t.pc = "reread"
  /\ Go(w, [pc |-> "recount", own |-> t.own, was |-> t.was,
            now |-> Len(drafts[t.own.order])])
  /\ UNCHANGED <<order, drafts, goods, consent, serial, faults>>

Seen(r, d, k) ==
  Received(r.order, d, k) + IF d = r.draft THEN Brought(r.delivery, k) ELSE 0

\* Mutant of Fulfilled: a strict comparison.
FulfilledStrictly(seen, l) == seen > l.quantity

Fulfilled(seen, l) == seen >= l.quantity

Recount(w) ==
  LET t == worker[w]
      lines == drafts[t.own.order][t.now].lines
      all == \A k \in DOMAIN lines : Fulfilled(Seen(t.own, t.now, k), lines[k])
      any == \E k \in DOMAIN lines : Seen(t.own, t.now, k) > 0
  IN
  /\ t.pc = "recount"
  /\ Go(w, [pc |-> "commit", own |-> t.own, was |-> t.was,
            status |-> IF all THEN "received"
                       ELSE IF any THEN "partly_received" ELSE t.was])
  /\ UNCHANGED <<order, drafts, goods, consent, serial, faults>>

\* The status is written when it is not what was read; then everything the
\* transaction did is there to be seen.
CommitReceipt(w) ==
  LET t == worker[w] IN
  /\ t.pc = "commit"
  /\ order' = IF t.status = t.was THEN order
              ELSE [order EXCEPT ![t.own.order].status = t.status]
  /\ got' = [got EXCEPT ![t.own.order][t.own.draft] =
               [k \in LineNo |-> @[k] + Brought(t.own.delivery, k)]]
  /\ shelf' = [p \in Products |-> shelf[p] + t.own.moved[p]]
  /\ Go(w, Free)
  /\ UNCHANGED <<drafts, product, consent, serial, faults>>

\* AdminDeleteProduct; its UPDATE waits for the row lock.
DeleteProduct(p) ==
  /\ product[p] = "live"
  /\ \A w \in Workers : ~Locked(w, p)
  /\ product' = [product EXCEPT ![p] = "deleted"]
  /\ UNCHANGED <<order, drafts, got, shelf, consent, worker, serial, faults>>

-----------------------------------------------------------------------------
\* A statement fails, the replica dies, or two receipts wait for each other:
\* an open transaction is rolled back.
Fail(w) ==
  /\ worker[w] # Free
  /\ faults < MaxFaults
  /\ faults' = faults + 1
  /\ Go(w, Free)
  /\ UNCHANGED <<order, drafts, goods, consent, serial>>

Begin(w, o) ==
  \/ \E l \in Lists[o] : BeginEdit(w, o, l)
  \/ BeginIssue(w, o) \/ BeginCancel(w, o) \/ BeginReceive(w, o)

WorkerStep(w) ==
  \/ Edit(w) \/ Value(w) \/ Gate(w) \/ Mark(w) \/ Number(w) \/ Issue(w)
  \/ Cancel(w) \/ ReadLines(w)
  \/ \E delivery \in Deliveries : CheckOutstanding(w, delivery)
  \/ PostLine(w) \/ Reload(w) \/ Reread(w) \/ Recount(w) \/ CommitReceipt(w)

Next ==
  \/ \E w \in Workers :
       (\E o \in Orders : Begin(w, o)) \/ WorkerStep(w) \/ Fail(w)
  \/ \E o \in Orders :
       \/ \E l \in Lists[o] : Create(o, l)
       \/ \E verdict \in {"approved", "rejected"} : Decide(o, verdict)
       \/ Resubmit(o)
  \/ \E p \in Products : DeleteProduct(p)

Spec == Init /\ [][Next]_pvars

-----------------------------------------------------------------------------
All(o) ==
  \A k \in DOMAIN Stored(o).lines :
    Received(o, Len(drafts[o]), k) >= Stored(o).lines[k].quantity

\* "So the status cannot disagree with the quantities underneath it"
\* (refreshPurchaseOrderStatus): while handlers run one after another, an order
\* is received when every line has come in, partly received when some of it
\* has, and nothing has in any other state, through every sequence of edits,
\* refusals, cancellations, failures and part deliveries.
StatusAgreesInTurn ==
  serial => \A o \in Orders : Exists(o) =>
    /\ order[o].status = "received" <=> All(o)
    /\ order[o].status = "partly_received" <=> AnyReceived(o) /\ ~All(o)

\* The same sentence when handlers overlap: an order shown as partly received
\* is waiting for something.
PartlyReceivedIsPartly ==
  \A o \in Orders : order[o].status = "partly_received" => ~All(o)

\* A receipt "does not exceed what is still outstanding" (AdminReceiveGoods): no
\* more comes in of a line than was ordered.
ReceivedWithinOrder ==
  \A o \in Orders : \A d \in DOMAIN drafts[o] :
    LET lines == drafts[o][d].lines IN
    \A k \in DOMAIN lines : Received(o, d, k) <= lines[k].quantity

\* Numbers are "a sequence an auditor expects to run unbroken"
\* (nextPurchaseOrderNumber): n orders with a number have those from 1 to n, though
\* two are issued at once.
NumbersUnbroken == {order[o].number : o \in Numbered} = 1 .. Cardinality(Numbered)

\* "Goods already received cannot be un-received by cancelling the paperwork"
\* (AdminCancelPurchaseOrder): nothing has come in for a cancelled order.
CancelledIsEmpty == \A o \in Orders : order[o].status = "cancelled" => ~AnyReceived(o)

\* Lines are replaced in "a draft", which "has no receipts against it, so nothing
\* can be orphaned by this" (AdminUpdatePurchaseOrder): what came in came in for a
\* line that the order has.
NothingIsOrphaned ==
  \A o \in Orders : \A d \in DraftId, k \in LineNo :
    Received(o, d, k) > 0 => d = Len(drafts[o])

\* "A sequence an auditor expects to run unbroken" (nextPurchaseOrderNumber):
\* while handlers run one after another, the orders ever issued are numbered
\* 1, 2, ... without a gap or a repetition, cancelled ones included.
NumbersUnbrokenInTurn ==
  serial => {order[o].number : o \in Numbered} = 1 .. Cardinality(Numbered)

\* While handlers run one after another, an order's status is what has come in of
\* it, and its number its place in an unbroken sequence.
OrdersAgreeInTurn == StatusAgreesInTurn /\ NumbersUnbrokenInTurn

\* While handlers run one after another, an issued order of the threshold or
\* above was approved for at least what it is worth as it stands, whatever
\* edits and resubmissions came between asking and issuing
\* (AdminIssuePurchaseOrder, AdminUpdatePurchaseOrder).
ApprovedAsIssuedInTurn ==
  serial => \A o \in Numbered :
    Stored(o).worth >= Floor => \E a \in spent[o] : a >= Stored(o).worth

\* "Only a draft may be edited" (AdminUpdatePurchaseOrder): while handlers run
\* one after another, an order that has been issued keeps its lines and number.
IssuedIsFrozenInTurn ==
  [][serial' => \A o \in Numbered :
       drafts'[o] = drafts[o] /\ order'[o].number = order[o].number]_pvars

\* "Receiving against a draft would put stock on the shelf that nobody
\* authorised buying" (AdminReceiveGoods): goods come in only for an order that
\* has been issued, whatever runs at once.
GoodsWereOrdered == \A o \in Orders : AnyReceived(o) => o \in Numbered

Places == Orders \X DraftId \X LineNo

\* The line at place x, as it stands or stood, is of product p.
IsOf(x, p) ==
  /\ x[2] <= Len(drafts[x[1]])
  /\ x[3] \in DOMAIN drafts[x[1]][x[2]].lines
  /\ drafts[x[1]][x[2]].lines[x[3]].product = p

CameIn(p) ==
  [x \in Places |-> IF IsOf(x, p) THEN Received(x[1], x[2], x[3]) ELSE 0]

\* What receipts say came in of a product is what they moved onto the shelf,
\* though a line may fail after others have been posted (apportionAndPost).
ShelfHoldsReceipts == \A p \in Products : shelf[p] = SumFunction(CameIn(p))

-----------------------------------------------------------------------------
(* Purchasing implements Receiving *)

Dock == INSTANCE Receiving WITH
  Goods <- Products, Untracked <- NoProduct, Versions <- DraftId,
  Positions <- LineNo,
  Batches <- {[k \in LineNo |-> Brought(delivery, k)] : delivery \in Deliveries},
  written <- drafts, issued <- Numbered, came <- got, onShelf <- shelf,
  kept <- {p \in Products : product[p] = "live"}

\* However the statements of receipts, edits, issues and deletions interleave, and
\* whatever is rolled back, deliveries come in whole, one at a time, for orders that
\* were issued, and go onto the shelf of products that are there
\* (AdminReceiveGoods, apportionAndPost).
KeepsDock == Dock!RcSpec
=============================================================================
